CONSTANTS
    p1 = p1
    p2 = p2
    Party = {p1}
    NoParty = NoParty
    Worker = {w1}
    Kind <- CodeParties
    OneTokenPerParty = FALSE
    DefaultDays = 0
    MaxCodes = 1
    MaxToken = 6
    MaxRow = 1
    MaxDay = 0
    RowId <- SmallRowId
SPECIFICATION FairSpec
PROPERTY RevocationTakesEffect
CHECK_DEADLOCK FALSE
