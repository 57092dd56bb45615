CONSTANTS
    Browser = {b1, b2}
    Client = {c1, c2}
    Secret = {s1, s2}
    NoClient = NoClient
    NoSecret = NoSecret
    MaxApp = 2
SYMMETRY Symmetry
SPECIFICATION SpecSmooth
INVARIANT OneApplicationPerClient
