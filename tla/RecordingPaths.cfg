CONSTANTS
    p1 = p1
    p2 = p2
    s1 = s1
    None = None
    Programs = {p1, p2}
    Schedules = {s1}
    program <- OneProgram
    Executions = {1}
    Scanners = {"index"}
    Jobs = {"boot", "monitor"}
    Ambiguous = FALSE
    MaxOccurrences = 0
    MaxEdits = 0
    MaxLost = 1
    MaxRestarts = 0
    MaxMediaRestarts = 1
    MaxStale = 0
SPECIFICATION FairSpec
PROPERTIES
    PathsComeBack
