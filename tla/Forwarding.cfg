CONSTANTS
    p1 = p1
    p2 = p2
    d1 = d1
    d2 = d2
    s1 = s1
    s2 = s2
    u1 = u1
    q1 = q1
    k1 = k1
    k2 = k2
    h1 = h1
    h2 = h2
    Boot = Boot
    None = None
    Programs = {p1, p2}
    Destinations = {d1, d2}
    programs <- OneProgram
    destinations <- OneRelay
    Rows <- FourRows
    Slugs = {s1, s2}
    Urls = {u1, q1}
    Queries = {q1}
    Keys = {k1, k2}
    Handlers = {h1, h2}
    MaxRuns = 2
    MaxAttempts = 2
    MaxBootAttempts = 1
    MaxRequests = 2
SPECIFICATION FairSpec
INVARIANTS
    RelayIsReachable
    EditsTakeEffect
PROPERTY
    RelayComesBack
CHECK_DEADLOCK FALSE
