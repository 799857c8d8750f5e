SPECIFICATION FairSpec
CONSTANTS
    s1 = s1
    s2 = s2
    s3 = s3
    o1 = o1
    o2 = o2
    m1 = m1
    h1 = h1
    None = None
    Services = {s1, s2, s3}
    ByName <- MCByName
    Unordered <- MCUnordered
    Reads = {o1, o2, m1, h1}
    MaxReads = 2
    Kind <- MCKind
    Target <- MCTarget
    HealthAt <- MCHealthAt
    FirstVersion <- MCFirstVersion
    FirstHealth <- MCFirstHealth
    MaxVersion <- MCMaxVersion
    MetricsTTL = 1
    HealthTTL = 2
    MaxTime = 1
    RedisAnswers = {TRUE, FALSE}
INVARIANTS
    TypeOK
    CachedAnswersAreFresh
PROPERTIES
    HealthIsNotForgotten
    EveryReadEnds
CHECK_DEADLOCK FALSE
