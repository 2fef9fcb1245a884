SPECIFICATION Spec
CONSTANTS
    i1 = i1
    i2 = i2
    k1 = k1
    k2 = k2
    p1 = p1
    p2 = p2
    p3 = p3
    None = None
    Islands <- TwoIslands
    Cells <- TwoCells
    Programs <- ThreePrograms
    Quality <- OneWorse
    MaxSize = 1
    MaxMigrants = 1
    Engines = {"generational", "steady"}
    MaxBatch <- BatchOf
    MaxEvents = 2
SYMMETRY Interchangeable
CHECK_DEADLOCK FALSE
INVARIANTS
    MirrorsRedis
    OneHome
    NoDiscardedElite
    Kept
PROPERTIES
    NeverWorsened
