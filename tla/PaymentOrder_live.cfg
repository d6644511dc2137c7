SPECIFICATION FairSpec
CONSTANTS
    o1 = o1
    w1 = w1
    w2 = w2
    NoOrder = NoOrder
    Orders = {o1}
    SubOrders = {}
    Workers = {w1, w2}
    FaultKinds = {"op", "query"}
    MaxFaults = 1
INVARIANTS
    ConfirmedIsAttended
PROPERTIES
    PaidIsDelivered
    NeverStuck
CHECK_DEADLOCK FALSE
