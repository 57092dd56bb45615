CONSTANTS
    electric = electric
    gas1 = gas1
    gas2 = gas2
    Client = {c1, c2}
    UsagePoint = {electric, gas1, gas2}
    Tab = {t1, t2}
    ServiceKind <- KindOfMeter
    Compatible <- AllCompatible
    Scope <- OneScope
    Nothing = Nothing
    MaxCodes = 1
    MaxAuth = 2
SYMMETRY Symmetry
SPECIFICATION SpecCustomer
INVARIANTS OrderlyOncePerKind
PROPERTY GrantedWasShown
