SPECIFICATION Spec
CONSTANTS
    r1 = r1
    r2 = r2
    r3 = r3
    classA = classA
    classB = classB
    tool = tool
    shell = shell
    other = other
    NoOne = NoOne
    Requests = {r1, r2, r3}
    Classes = {classA}
    Uncached = {}
    OpsOf <- ConsentOps
    ClassOf <- OneClass
    ProcessOf <- Apart
    Descends <- ToolOfRun
    AwsSignIn = NoOne
    Backoff <- MCBackoff
    TTL = 2
    MaxSessionAge = 2
    DenialCooldown = 1
    MaxClock = 3
    AwsLife = 3
    AwsMargin = 1
    AwsProofTTL = 1
INVARIANTS AllowedInItsSession OneLeaderPerClass
PROPERTIES CoreSpec
