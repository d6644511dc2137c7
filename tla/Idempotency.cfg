CONSTANTS
    Keys = {k1}
    Prints = {p1, p2}
    NoPrint = NoPrint
    NoKey = NoKey
    Workers = {w1, w2, w3}
    MaxTime = 5
    TTL = 3
    LockTime = 2
    Backoff = 1
    FaultKinds = {"db", "lost", "crash", "late"}
    MaxFaults = 3
SYMMETRY RequestSymmetry
CONSTRAINT Bounds
SPECIFICATION Spec
INVARIANTS TypeOK SingleExecutor ReplayIsOwn OneSuccess
PROPERTY ImplementsOnce
