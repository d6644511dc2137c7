CONSTANTS
    p1 = p1
    p2 = p2
    b1 = b1
    b2 = b2
    q1 = q1
    Processes = {p1, p2}
    Background = {b1, b2}
    Requests = {q1}
    NoWorker = NoWorker
    Nowhere = Nowhere
    Home <- Homes
    MaxToken = 2
    MaxRetries = 2
    FaultKinds = {"redis", "lost", "db", "upstream", "revoke", "slow", "gone", "crash"}
    LaterKinds = {"slow"}
    MaxFaults = 2
SPECIFICATION Spec
INVARIANTS OneRefresher LiveTokenIsKept DisabledOnlyWhenDead NoStaleTokenCached
PROPERTIES StoredMovesForward DueIsRefreshed
CHECK_DEADLOCK FALSE
