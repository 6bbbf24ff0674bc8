CONSTANTS
    p1 = p1
    p2 = p2
    s1 = s1
    None = None
    Programs = {p1}
    Schedules = {s1}
    program <- OneProgram
    Executions = {1, 2}
    Scanners = {"index"}
    Jobs = {"boot"}
    Ambiguous = TRUE
    MaxOccurrences = 1
    MaxEdits = 2
    MaxLost = 1
    MaxRestarts = 1
    MaxMediaRestarts = 0
    MaxStale = 0
SPECIFICATION FairSpec
INVARIANTS
    NoDoubleStart
PROPERTIES
    OutcomeIsFinal
    FollowsSchedule
    VerificationEnds
