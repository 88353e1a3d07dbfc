SPECIFICATION Spec
CONSTANTS
    Probes = {1, 2}
    BufferSize = 2
    RetryCount = 1
    Answers = {"refused", "missing", "version"}
INVARIANT
    SuccessMeansLoaded
CHECK_DEADLOCK FALSE
