CONSTANTS
    Keys = {lock}
    LockKey = lock
    Prints = {op1, op2}
    NoPrint = NoPrint
    Workers = {w1, w2}
    MaxTime = 6
    TTL = 4
    Lease = 3
    RenewEvery = 1
    Short = FALSE
    FaultKinds = {"db", "crash"}
    MaxFaults = 0
SYMMETRY RequestSymmetry
SPECIFICATION Spec
INVARIANT HolderIsCovered
