SPECIFICATION Spec
CONSTANTS
    g1 = g1
    g2 = g2
    r1 = r1
    r2 = r2
    r3 = r3
    r4 = r4
    NoOne = NoOne
    Grants = {g1, g2}
    Old = {g1}
    Requests = {r1, r2, r3, r4}
    OpsOf <- CreateRevokeServe
    MaxCrashes = 2
    MaxMoves = 1
    MaxFaults = 1
INVARIANTS LedgerAndCacheFollow KeyOfAGrantIsKept
PROPERTIES EndedIsNeverOpened LeftoversGo
