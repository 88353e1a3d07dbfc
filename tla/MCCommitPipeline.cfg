SPECIFICATION Spec
CONSTANTS
    a = a  b = b  gw = gw
    Stages = {a, b}
    Global = global
    Gateways = {gw}
    GatewayOf <- GatewayMap
    None = None
    ChanSize = 1
    SegmentLength = 2
    ProbeSize = 1
    MaxRetry = 1
    MaxEvents = 3
    MaxFailures = 1
    MaxPanics = 1
    MaxGlobalPanics = 0
    MaxCleanups = 1
INVARIANTS
    TypeOK
    SerialPerGateway
    NoLeakedSlot
    ChangesNotLost
PROPERTY
    Refines
SYMMETRY StageSymmetry
CHECK_DEADLOCK FALSE
