SPECIFICATION FairSpec
CONSTANTS
    b1 = b1
    b2 = b2
    c1 = c1
    v1 = v1
    q0 = q0
    k1 = k1
    k2 = k2
    P = P
    Q = Q
    web = web
    A = A
    B = B
    None = None
    Batches = {b1, b2}
    Creators = {c1}
    Revokers = {v1}
    Keys = {k1, k2}
    Projects = {P, Q}
    Names = {web}
    Paths = {A, B}
    KeyOf <- MCKeyOf
    ProjectOf <- MCProjectOf
    ServiceOf <- MCServiceOf
    PathsOf <- MCPathsOf
    Registers <- MCRegisters
    Health = {"unknown", "healthy"}
    Seed <- MCSeed
INVARIANTS
    TypeOK
    NoDuplicateRows
    EventsAreScoped
    AcceptedIffStored
PROPERTIES
    NoStaleWrites
    EveryRequestAnswered
CHECK_DEADLOCK FALSE
