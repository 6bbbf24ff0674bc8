\* Two ASR and two encoder calls; the fourth row meets the queue limit.
CONSTANTS
    a1 = a1
    a2 = a2
    e1 = e1
    e2 = e2
    Callers <- FourCallers
    Dims <- MCDims
    Profiles <- MCProfiles
    profile <- FourProfiles
    Cost <- MCCost
    Capacity <- MCCapacity
    QueueLimit = 3
SPECIFICATION FairSpec
INVARIANTS
    TypeOK
    HostWithinCapacity
    WaiterKeepsItsPlace
PROPERTIES
    ImplementsAdmissionQueue
    NobodyStarves
