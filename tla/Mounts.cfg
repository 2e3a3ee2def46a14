SPECIFICATION Spec
SYMMETRY Symmetry
CHECK_DEADLOCK FALSE
CONSTANTS
    h1 = h1
    h2 = h2
    h3 = h3
    p1 = p1
    p2 = p2
    s1 = s1
    s2 = s2
    s3 = s3
    Handlers = {h1, h2}
    Procs = {p1, p2}
    Servers = {s1, s2}
    None = None
    MaxSessions = 2
    MaxCrashes = 1
INVARIANTS RealIsOfTheSession NoStrayServer SwapFollowsRuns NoSelfDeadlock
