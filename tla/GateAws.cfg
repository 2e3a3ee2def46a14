SPECIFICATION FairSpec
CONSTANTS
    r1 = r1
    r2 = r2
    r3 = r3
    classA = classA
    classB = classB
    tool = tool
    shell = shell
    other = other
    NoOne = NoOne
    Requests = {r1, r2, r3}
    Classes = {classA}
    Uncached = {classA}
    OpsOf <- AwsOps
    ClassOf <- OneClass
    ProcessOf <- FillAndRead
    Descends <- NoTrees
    AwsSignIn = classA
    Backoff <- MCBackoff
    TTL = 2
    MaxSessionAge = 0
    DenialCooldown = 1
    MaxClock = 3
    AwsLife = 2
    AwsMargin = 1
    AwsProofTTL = 1
INVARIANTS AwsDroppedAtLocks
PROPERTIES EveryRequestAnswered
