CONSTANTS
    Orders = {o1, o2, o3, o4}
    NoOrder = NoOrder
    Workers = {w1, w2, w3}
    Amounts = {1, 2}
    Fee = 0
    MaxPending = 1
    DailyMax = 3
    MaxCancels = 1
    Faulty = TRUE
SYMMETRY OrderSymmetry
SPECIFICATION Spec
INVARIANTS PendingOvershoot
CHECK_DEADLOCK FALSE
