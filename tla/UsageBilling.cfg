CONSTANTS
    r1 = r1
    r2 = r2
    t1 = t1
    m1 = m1
    Requests = {r1, r2}
    NoRequest = NoRequest
    CacheWriters = 1
    Ids = {m1}
    TopUps = {t1}
    None = None
    Initial = 1
    MaxWrites = 1
    Threshold = 1
    HalfOpen = 1
    FaultKinds = {"redis", "db", "lost", "full", "crash"}
    MaxFaults = 1
SPECIFICATION Spec
INVARIANTS BalanceIsSum NothingForgotten CachedIsCovered ProbeOutstanding
PROPERTIES MoneyIsServed
CHECK_DEADLOCK FALSE
