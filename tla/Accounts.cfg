SPECIFICATION FairSpec
CONSTANTS
    r1 = r1
    r2 = r2
    r3 = r3
    o1 = o1
    p1 = p1
    p2 = p2
    k1 = k1
    k2 = k2
    acme = acme
    long = long
    Registrations = {r1, r2, r3}
    OrgCreators = {o1}
    ProjectCreators = {p1, p2}
    KeyCreators = {k1, k2}
    Emails = {"ann", "Ann", "bob"}
    EmailOf <- MCEmailOf
    Lower <- MCLower
    BaseOf <- MCBaseOf
    Size <- MCSize
    Cut <- MCCut
    MaxSize = 3
    MaxSuffix = 2
    UserOf <- MCUserOf
    OrgOf <- MCOrgOf
    ProjectOf <- MCProjectOf
INVARIANTS
    TypeOK
    AccountsAreWhole
    TenantsAreSeparate
    ConflictsAreRaces
PROPERTIES
    EveryRequestEnds
CHECK_DEADLOCK FALSE
