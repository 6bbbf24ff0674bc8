CONSTANTS
    p1 = p1
    p2 = p2
    s1 = s1
    None = None
    Programs = {p1}
    Schedules = {s1}
    program <- OneProgram
    Executions = {1}
    Scanners = {"index"}
    Jobs = {"boot", "monitor", "admin"}
    Ambiguous = TRUE
    MaxOccurrences = 1
    MaxEdits = 1
    MaxLost = 1
    MaxRestarts = 1
    MaxMediaRestarts = 1
    MaxStale = 1
SPECIFICATION Spec
INVARIANTS
    TypeOK
    NoBlindRecording
