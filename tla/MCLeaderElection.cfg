SPECIFICATION FairSpec
CONSTANTS
    Instances = {i, j}
    MaxTroubles = 2
INVARIANTS
    TypeOK
    AtMostOneLeader
PROPERTIES
    StopsOnLoss
    ElectionCompletes
CHECK_DEADLOCK FALSE
