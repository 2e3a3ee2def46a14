SPECIFICATION FairSpec
CONSTANTS
    r1 = r1
    r2 = r2
    r3 = r3
    NoOne = NoOne
    Requests = {r1, r2, r3}
    OpsOf <- OneOfEach
    GrantTTL = 1
    MaxClock = 3
    MaxRecycled = 1
INVARIANTS TypeOK WatchedUntilEndedOnce
PROPERTIES AnswersOnlyItsTree EndedForGood GrantsEnd
