\* The keys of all jobs can be used up, then nothing is left to do.
CONSTANTS
    j1 = j1
    j2 = j2
    k = k
    ann = ann
    bob = bob
    None = None
    Jobs = {j1, j2, k}
    owner <- ThreeOwner
    parts <- ThreeParts
    MaxActive = 2
    Slots = 1
    MaxRestarts = 2
    MaxFaults = 1
CHECK_DEADLOCK FALSE
SPECIFICATION FairSpec
INVARIANTS
    TypeOK
    WorkIsBounded
    NotOverWhileWorking
    CompletedIsWhole
PROPERTIES
    OutcomeIsFinal
    RestartLosesNoWork
    JobsSettle
