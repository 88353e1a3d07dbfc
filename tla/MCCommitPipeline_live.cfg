SPECIFICATION FairSpec
CONSTANTS
    a = a  b = b  gw = gw
    Stages = {a, b}
    Global = global
    Gateways = {gw}
    GatewayOf <- GatewayMap
    None = None
    ChanSize = 1
    SegmentLength = 2
    ProbeSize = 1
    MaxRetry = 2
    MaxEvents = 2
    MaxFailures = 3
    MaxPanics = 1
    MaxGlobalPanics = 1
    MaxCleanups = 0
INVARIANT
    NothingGivenUp
PROPERTY
    EveryChangeSettled
CHECK_DEADLOCK FALSE
