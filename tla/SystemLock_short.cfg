CONSTANTS
    Keys = {lock}
    LockKey = lock
    Prints = {op1, op2}
    NoPrint = NoPrint
    Workers = {w1, w2, w3}
    MaxTime = 6
    TTL = 4
    Lease = 3
    RenewEvery = 1
    Short = TRUE
    FaultKinds = {"db", "crash"}
    MaxFaults = 2
SYMMETRY RequestSymmetry
SPECIFICATION Spec
INVARIANTS OneOperation HolderIsCovered
