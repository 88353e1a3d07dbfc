SPECIFICATION Spec
CONSTANTS
    Nil = Nil
    r1 = r1  b1 = b1  v1 = v1  v2 = v2  c1 = c1  p1 = p1
    st = st  virt = virt  glob = glob
    Stages <- StoreStages
    VirtualStage = virt
    Global = glob
    Ids <- StoreIds
    OwnerOf <- StoreOwner
    Configs <- StoreConfigs
    ExtraFiles <- StoreFiles
    BuiltinRoutes = {b1}
    BuiltinSpec = "builtin"
    NoId = "no id"
    PlainMeta = 0
    RegistryInTime = TRUE
    SleepCovers = TRUE
    MaxAlters = 3
    MaxFailures = 1
    MaxCrashes = 1
INVARIANTS
    TypeOK
    RefIntegrity
PROPERTIES
    KeepsWanted
    NoNeedlessWrite
    Refines
CHECK_DEADLOCK FALSE
