SPECIFICATION Spec
CONSTANTS
    e1 = e1
    e2 = e2
    None = None
    Endpoints = {e1, e2}
    Samples <- MCSamples
    TicksPerMinute = 2
    WindowMinutes = {1, 2}
    SnapshotMinutes = 1
    BaselineWindows = 2
    SlackMinutes = 1
    MinPoints = 2
    RateScale = 12
    RoundedUp = {}
    Inexact <- MCInexact
    ForestScores = {0, 4}
    PerMinute = 2
    MaxTime = 4
    MaxReads = 2
INVARIANTS
    TypeOK
    ReadsMissNothing
    EndpointsCoverService
PROPERTIES
    AlarmsAreJustified
    SteadyAlarmsComeFromPartialRows
CHECK_DEADLOCK FALSE
