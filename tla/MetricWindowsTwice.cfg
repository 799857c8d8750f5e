SPECIFICATION Spec
CONSTANTS
    e1 = e1
    e2 = e2
    None = None
    Endpoints = {e1, e2}
    Samples <- MCSamples
    TicksPerMinute = 2
    WindowMinutes = {1, 2}
    SnapshotMinutes = 1
    BaselineWindows = 2
    SlackMinutes = 1
    MinPoints = 2
    RateScale = 12
    RoundedUp = {}
    Inexact <- MCInexact
    ForestScores = {0}
    PerMinute = 1
    MaxTime = 5
    MaxReads = 2
INVARIANTS
    RequestsCountedOnce
CHECK_DEADLOCK FALSE
