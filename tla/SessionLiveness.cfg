SPECIFICATION FairSpec
CONSTANTS
    TTL = 1
    MaxSessionAge = 2
    DenialCooldown = 2
    MaxClock = 3
    Requests = {r1, r2}
    Ops = {"unlock", "use", "reveal", "confirm", "history", "lock"}
    Backoff <- MCBackoff
    NoOne = NoOne
PROPERTIES SessionEnds WorkIsDone
