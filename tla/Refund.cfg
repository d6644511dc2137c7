CONSTANTS
    Orders = {bal, sub}
    SubOrders = {sub}
    NoOrder = NoOrder
    NoTrade = {sub}
    Workers = {w1, w2}
    Price = 2
    Balance = 2
    FaultKinds = {"db", "lost", "gw", "audit", "blind", "crash"}
    MaxFaults = 2
SYMMETRY WorkerSymmetry
SPECIFICATION Spec
INVARIANTS TypeOK OneRefund LockMeansWork LossesCostFaults
PROPERTY ImplementsRefundLedger
CHECK_DEADLOCK FALSE
