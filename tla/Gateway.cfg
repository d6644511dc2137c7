CONSTANTS
    r1 = r1
    r2 = r2
    r3 = r3
    a1 = a1
    a2 = a2
    p1 = p1
    p2 = p2
    Requests = {r1, r2, r3}
    Accounts = {a1, a2}
    Processes = {p1, p2}
    User = user
    NoAccount = NoAccount
    Limit <- UserLimit
    MaxWait <- Ones
    MaxSwitches = 1
    MaxSameAccountRetries = 1
    FaultKinds = {"redis", "lost", "hydrate", "gone", "slow", "crash", "overlap"}
    MaxFaults = 1
SPECIFICATION Spec
CONSTRAINT Bounds
SYMMETRY Symmetry
INVARIANTS WithinLimit NoSlotForgotten CountersAreExact BoundedAttempts NeverStuck
CHECK_DEADLOCK FALSE
