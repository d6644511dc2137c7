SPECIFICATION Spec
CONSTANTS
    s1 = s1
    w1 = w1
    w2 = w2
    NoOrder = NoOrder
    Orders = {s1}
    SubOrders = {s1}
    Workers = {w1, w2}
    FaultKinds = {"op"}
    MaxFaults = 1
INVARIANTS
    ExtendedAtMostOnce
CHECK_DEADLOCK FALSE
