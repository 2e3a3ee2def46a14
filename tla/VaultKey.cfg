SPECIFICATION FairSpec
CONSTANTS
    c1 = c1
    c2 = c2
    f1 = f1
    f2 = f2
    k1 = k1
    k2 = k2
    k3 = k3
    k4 = k4
    Commands = {c1}
    Files = {f1, f2}
    Keys = {k1, k2, k3, k4}
    NoKey = NoKey
    NoFile = NoFile
    MaxCrashes = 2
    MaxFaults = 2
    MaxLosses = 2
INVARIANTS VaultOpens
PROPERTIES CustodySpec InterruptedChangeFinishes
