SPECIFICATION HistorySpec
SYMMETRY Symmetry
CONSTANTS
    c1 = c1
    c2 = c2
    v1 = v1
    v2 = v2
    v3 = v3
    v4 = v4
    Processes = {c1}
    Versions = {v1, v2, v3, v4}
    None = None
    HistoryKeep = 2
    MaxStamp = 5
    MaxKills = 2
    MaxFails = 1
    MaxSteps = 0
INVARIANTS HistoryHolds
PROPERTIES NewestIsWhatWasReplaced OnlyOldVersionsGo
