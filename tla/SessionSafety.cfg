SPECIFICATION Spec
CONSTANTS
    TTL = 2
    MaxSessionAge = 3
    DenialCooldown = 2
    MaxClock = 4
    Requests = {r1, r2, r3}
    Ops = {"unlock", "use", "reveal", "confirm", "lock"}
    Backoff <- MCBackoff
    NoOne = NoOne
SYMMETRY MCSymmetry
INVARIANTS TypeOK KeyIsWatched OfferStillTrue HistoryIsWhole
PROPERTIES CoreSpec TimerEndsOnlyWhatIsOver HandedOutInsideBounds PausesHold
