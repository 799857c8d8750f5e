SPECIFICATION Spec
CONSTANTS
    s1 = s1
    s2 = s2
    p1 = p1
    p2 = p2
    q1 = q1
    q2 = q2
    None = None
    Services = {s1, s2}
    ByName <- MCByName
    Requests = {q1, q2}
    Scope <- MCScope
    Signals <- MCSignals
INVARIANTS
    NormalHasNoAnomaly
CHECK_DEADLOCK FALSE
