CONSTANTS
    p1 = p1
    p2 = p2
    Party = {p1, p2}
    NoParty = NoParty
    Worker = {w1, w2}
    Kind <- CodeAndClient
    OneTokenPerParty = TRUE
    DefaultDays = 0
    MaxCodes = 1
    MaxToken = 14
    MaxRow = 1
    MaxDay = 0
    RowId <- SmallRowId
SYMMETRY ThreadSymmetry
SPECIFICATION SpecConcurrent
ACTION_CONSTRAINT FewRequests
INVARIANTS TokenMeansOne
