CONSTANTS
    Browser = {b1, b2}
    Client = {c1, c2}
    Secret = {s1, s2}
    NoClient = NoClient
    NoSecret = NoSecret
    MaxApp = 3
SYMMETRY Symmetry
SPECIFICATION Spec
INVARIANTS TypeOK DetailsMatchApplication RegisteredOnce ConfirmedIsStored
