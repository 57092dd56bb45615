CONSTANTS
    p1 = p1
    p2 = p2
    Party = {p1, p2}
    NoParty = NoParty
    Worker = {w1}
    Kind <- CodeAndPassword
    OneTokenPerParty = FALSE
    DefaultDays = 0
    MaxCodes = 1
    MaxToken = 3
    MaxRow = 1
    MaxDay = 2
    RowId <- SmallRowId
SPECIFICATION Spec
INVARIANTS TypeOK RefreshTokenRenewsOne ServedUnderOwnAuthorization
PROPERTIES RevokedStaysRevoked ContractKept
