SPECIFICATION FairSpec
CONSTANTS
    Producers = {p, q, r}
    EventsEach = 2
    EventBufferSize = 2
    ReporterBufferSize = 2
    MaxHangs = 2
INVARIANTS
    TypeOK
    PostedOnce
    FlushedBeforeExit
PROPERTY
    EveryEventPosted
    QueueRefines
CHECK_DEADLOCK FALSE
