SPECIFICATION FairSpec
CONSTANTS
    Ids = {a, b}
    Values = {x, z}
    Nil = Nil
    Unparsed = {z}
    Odd = {b}
    MaxWrites = 4
    MaxCompactions = 1
    MaxFailures = 2
    MaxCrashes = 1
INVARIANTS
    TypeOK
    CacheIsOneState
    WatchMeetsCache
PROPERTIES
    Refines
    CatchesUp
CHECK_DEADLOCK FALSE
