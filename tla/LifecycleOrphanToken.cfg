CONSTANTS
    p1 = p1
    p2 = p2
    Party = {p1}
    NoParty = NoParty
    Worker = {w1, w2}
    Kind <- CodeParties
    OneTokenPerParty = TRUE
    DefaultDays = 1
    MaxCodes = 1
    MaxToken = 3
    MaxRow = 2
    MaxDay = 1
    RowId <- SmallRowId
SPECIFICATION FairSpec
INVARIANT EveryTokenHasAuthorization
