SPECIFICATION Spec
CONSTANTS
    m1 = m1
    m2 = m2
    None = None
    Migrators = {m1, m2}
    MaxMigrations = 3
    MaxRows = 7
    Twice <- MCTwice
SYMMETRY MCSymmetry
INVARIANTS
    TypeOK
    SchemaIsWhole
    OrmDeletesLikeSql
PROPERTIES
    DeletionsKeepHistory
CHECK_DEADLOCK FALSE
