CONSTANTS
    j1 = j1
    j2 = j2
    None = None
    Jobs = {j1, j2}
    Chunks = 3
    MaxEvents = 1
SPECIFICATION FairSpec
INVARIANTS
    TypeOK
    PrefetchIsBounded
    NothingAfterCleanup
    ResultIsWhole
    CacheIsRight
PROPERTY
    EveryoneEnds
CHECK_DEADLOCK FALSE
