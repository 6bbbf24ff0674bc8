CONSTANTS
    p1 = p1
    p2 = p2
    s1 = s1
    None = None
    Programs = {p1}
    Schedules = {s1}
    program <- OneProgram
    Executions = {1}
    Scanners = {"index"}
    Jobs = {"monitor"}
    Ambiguous = FALSE
    MaxOccurrences = 1
    MaxEdits = 0
    MaxLost = 0
    MaxRestarts = 0
    MaxMediaRestarts = 1
    MaxStale = 0
SPECIFICATION FairSpec
PROPERTIES
    RecoveryRestoresRecording
