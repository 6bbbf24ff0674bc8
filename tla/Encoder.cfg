CONSTANTS
    k1 = k1
    k2 = k2
    w1 = w1
    w2 = w2
    None = None
    Keys = {k1, k2}
    Workers = {w1, w2}
    parts <- TwoParts
    MaxUnfinished = 1
    Recover = TRUE
    MaxRestarts = 2
SPECIFICATION FairSpec
INVARIANTS
    TypeOK
    RunsOnce
    SourceIsThere
    CompletedIsWhole
    WorkIsBounded
PROPERTIES
    StopKeepsWork
    ExportsSettle
