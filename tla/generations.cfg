SPECIFICATION FairSpec
CONSTANTS
    s = s
    m1 = m1
    m2 = m2
    Programs = {s, m1, m2}
    Initial = {s}
    MaxMutations = 2
    MaxEmpty = 2
    MaxGenerations = 3
    MaxErrors = 1
    MaxCrashes = 1
CHECK_DEADLOCK FALSE
INVARIANTS
    NothingLeft
PROPERTIES
    
    ElitesSpared
    Completes
