SPECIFICATION Spec
SYMMETRY Symmetry
CHECK_DEADLOCK FALSE
CONSTANTS
    n1 = n1
    n2 = n2
    r1 = r1
    r2 = r2
    code1 = code1
    code2 = code2
    val1 = val1
    val2 = val2
    Names = {n1}
    Requests = {r1, r2}
    Contents = {code1, code2}
    Versions = {val1, val2}
    None = None
    MaxApprovals = 2
    MaxChanges = 3
    MaxFaults = 1
    MaxRestarts = 1
INVARIANTS JobIsWhatWasApproved KeysFollowJobs
PROPERTIES OneTryAndStopped
