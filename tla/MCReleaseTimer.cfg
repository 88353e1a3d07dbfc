SPECIFICATION FairSpec
CONSTANTS
    Keys = {k1}
    Agent = Agent
    Objs = {o1, o2, o3}
    None = None
    WaitWindow = 2
    ForceWindow = 4
    Releases = 2
INVARIANTS
    TypeOK
    NoUpdateForgotten
    WaitIsBounded
    NewestRelease
PROPERTY
    EveryUpdateListed
