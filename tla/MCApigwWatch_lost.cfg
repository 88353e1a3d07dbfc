SPECIFICATION Spec
CONSTANTS
    Ids = {a, m, x}
    Values = {v}
    Nil = Nil
    Ignored = {x}
    Metadata = {m}
    Releases = {}
    Bare = {}
    ChanSize = 2
    MaxWrites = 4
    MaxCompactions = 1
    MaxFailures = 0
INVARIANT
    NothingLost
CHECK_DEADLOCK FALSE
