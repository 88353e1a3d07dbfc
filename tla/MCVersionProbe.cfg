SPECIFICATION FairSpec
CONSTANTS
    Probes = {1, 2}
    BufferSize = 1
    RetryCount = 1
    Answers = {"refused", "server", "missing", "version", "other"}
INVARIANTS
    TypeOK
    WrongHasCause
    OneVerdict
PROPERTY
    EveryProbeEnds
CHECK_DEADLOCK FALSE
