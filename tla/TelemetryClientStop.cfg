SPECIFICATION Spec
CONSTANTS
    r1 = r1
    r2 = r2
    r3 = r3
    r4 = r4
    Requests <- MCRequests
    Excluded <- MCExcluded
    BatchSize = 2
    Loop = Loop
    Stop = Stop
INVARIANTS
    StopFlushesRemaining
CHECK_DEADLOCK FALSE
