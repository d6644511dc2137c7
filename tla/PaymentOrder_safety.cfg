SPECIFICATION Spec
CONSTANTS
    o1 = o1
    s1 = s1
    w1 = w1
    w2 = w2
    w3 = w3
    NoOrder = NoOrder
    Orders = {o1, s1}
    SubOrders = {s1}
    Workers = {w1, w2, w3}
    FaultKinds = {"op", "db", "lost", "query", "blind", "mark", "crash"}
    MaxFaults = 2
SYMMETRY WorkerSymmetry
CONSTRAINT OneOrder
INVARIANTS
    TypeOK
    SoleFulfiller
    CompletedIsDelivered
    NoDeliveryUnpaid
PROPERTIES
    ConfirmedStaysConfirmed
    CompletedIsFinal
    AckedIsRecorded
    ImplementsLedger
CHECK_DEADLOCK FALSE
