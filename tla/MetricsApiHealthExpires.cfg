SPECIFICATION Spec
CONSTANTS
    s1 = s1
    s2 = s2
    s3 = s3
    o1 = o1
    o2 = o2
    m1 = m1
    h1 = h1
    None = None
    Services = {s1, s2, s3}
    ByName <- MCByName
    Unordered <- MCUnordered
    Reads = {m1, h1}
    MaxReads = 2
    Kind <- MCKind
    Target <- MCOneTarget
    HealthAt <- MCHealthAt
    FirstVersion <- MCFirstVersion
    FirstHealth <- MCFirstHealth
    MaxVersion <- MCMaxVersion
    MetricsTTL = 1
    HealthTTL = 2
    MaxTime = 3
    RedisAnswers = {TRUE}
INVARIANTS
    HealthExpires
CHECK_DEADLOCK FALSE
