SPECIFICATION FairSpec
CONSTANTS
    Ids = {a, b, m, x}
    Values = {v, w}
    Nil = Nil
    Ignored = {x}
    Metadata = {m}
    Releases = {b}
    Bare = {w}
    ChanSize = 2
    MaxWrites = 3
    MaxCompactions = 1
    MaxFailures = 2
INVARIANTS
    TypeOK
    NoEventSkipped
PROPERTIES
    OrderKept
    EveryEventTaken
CHECK_DEADLOCK FALSE
