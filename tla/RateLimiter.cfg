SPECIFICATION Spec
CONSTANTS
    r1 = r1
    r2 = r2
    r3 = r3
    r4 = r4
    k1 = k1
    k2 = k2
    Requests = {r1, r2, r3, r4}
    Identifiers = {k1, k2}
    IdOf <- MCIdOf
    Limit = 2
    Window = 2
    PoolSize = 2
    MaxDelay = 1
    MaxTime = 4
    MaxFaults = 1
SYMMETRY Symmetric
INVARIANTS
    TypeOK
    LimitPerWindow
    NoFalseRejection
    LimitedOnceReachable
CHECK_DEADLOCK FALSE
