CONSTANTS
    Keys = {k1}
    Prints = {p1, p2}
    NoPrint = NoPrint
    NoKey = NoKey
    Workers = {w1, w2}
    MaxTime = 5
    TTL = 3
    LockTime = 2
    Backoff = 1
    FaultKinds = {"db", "lost", "crash"}
    MaxFaults = 0
SYMMETRY RequestSymmetry
SPECIFICATION Spec
INVARIANT OneSideEffect
