SPECIFICATION Spec
CONSTANTS
    Endpoints = {e1, e2}
    Tokens = {t1, t2}
    NoToken = NoToken
    Calls = {c1, c2}
    NoTtl = NoTtl
    Ttls = {NoTtl, 0, 2}
    MaxInt = 4
    OverflowChecks = TRUE
    Steps = {1, 2}
    BackSteps = {1}
    MaxNow = 3
INVARIANTS
    TypeOK
    FoundUntilTtl
PROPERTIES
    CleanupIsInvisible
    ImplementsStore
