------------------------------ MODULE RefundProofs ------------------------------
(***************************************************************************)
(* Proofs about Refund: the REFUNDING lock is exclusive and does not stay *)
(* behind; an order that reads as refunded was paid back; unless a reply   *)
(* or an audit row is lost an order is paid back and deducted once, which  *)
(* is what RefundLedger says step by step; and otherwise each failure costs*)
(* at most the price of the order once more.                               *)
(***************************************************************************)
EXTENDS Refund, TLAPS

Typed ==
    /\ status   \in [Orders -> Statuses]
    /\ balance  \in Int
    /\ paidBack \in [Orders -> Nat]
    /\ pc       \in [Workers -> Steps]
    /\ plan     \in [Workers -> [order : Orders \cup {NoOrder}, seen : Statuses,
                                 amount : 0..Price, take : 0..Price]]
    /\ \A w \in Workers : pc[w] # "idle" => plan[w].order \in Orders

\* A refund about to be marked as done was paid back.
MarkIsPaid ==
    \A w \in Workers :
        pc[w] = "mark" /\ Order(w) \notin NoTrade => paidBack[Order(w)] >= 1

Inv == Typed /\ OneRefund /\ WorkIsLocked /\ MarkIsPaid /\ RefundedIsPaidBack

-----------------------------------------------------------------------------
\* Every step of a request moves its own pc and plan only.
Moves(w) ==
    /\ pc'   = [pc   EXCEPT ![w] = pc'[w]]
    /\ plan' = [plan EXCEPT ![w] = plan'[w]]

LEMMA InitInv == Init => Inv
  BY OrderAssumption, NumberAssumption
     DEF Init, Inv, Typed, OneRefund, WorkIsLocked, MarkIsPaid,
         RefundedIsPaidBack, Refunding, Refunded, NoPlan, Statuses, Refundable,
         Steps

\* A request that keeps its order's lock and its order, and writes neither a
\* status nor a payback.
LEMMA Working ==
  ASSUME Inv, NEW w \in Workers, Moves(w), Typed',
         pc[w] \in Refunding,
         pc'[w] \in Refunding \cup {"idle"},
         pc'[w] # "idle" => plan'[w].order = plan[w].order,
         pc'[w] = "mark" => plan[w].order \in NoTrade \/ paidBack'[plan[w].order] >= 1,
         UNCHANGED status,
         \A o \in Orders : paidBack'[o] >= paidBack[o]
  PROVE  Inv'
<1>1. \A v \in Workers : v # w => pc'[v] = pc[v] /\ plan'[v] = plan[v]
  BY DEF Moves, Inv, Typed
<1>2. \A v \in Workers : pc'[v] \in Refunding =>
          pc[v] \in Refunding /\ plan'[v].order = plan[v].order
  BY <1>1 DEF Refunding
<1>3. OneRefund' /\ WorkIsLocked'
  BY <1>2 DEF Inv, OneRefund, WorkIsLocked, Order
<1>4. MarkIsPaid'
  <2> SUFFICES ASSUME NEW v \in Workers, pc'[v] = "mark", plan'[v].order \notin NoTrade
               PROVE  paidBack'[plan'[v].order] >= 1
    BY DEF MarkIsPaid, Order
  <2>1. CASE v = w
    BY <2>1 DEF Refunding
  <2>2. CASE v # w
    BY <1>1, <2>2 DEF Inv, Typed, MarkIsPaid, Order
  <2> QED BY <2>1, <2>2
<1>5. RefundedIsPaidBack'
  <2> SUFFICES ASSUME NEW o \in Orders \ NoTrade, status[o] \in Refunded
               PROVE  paidBack'[o] >= 1
    BY DEF RefundedIsPaidBack
  <2> QED BY DEF Inv, Typed, RefundedIsPaidBack
<1> QED BY <1>3, <1>4, <1>5 DEF Inv

\* A request that gives its lock up by writing the status of its order.
LEMMA Unlocking ==
  ASSUME Inv, NEW w \in Workers, Moves(w), Typed',
         pc[w] \in Refunding, pc'[w] = "idle",
         NEW s, status' = [status EXCEPT ![plan[w].order] = s],
         s \in Refunded => plan[w].order \in NoTrade \/ paidBack[plan[w].order] >= 1,
         UNCHANGED paidBack
  PROVE  Inv'
<1>1. \A v \in Workers : v # w => pc'[v] = pc[v] /\ plan'[v] = plan[v]
  BY DEF Moves, Inv, Typed
<1>2. \A v \in Workers : pc'[v] \in Refunding =>
          /\ v # w /\ pc[v] \in Refunding /\ plan'[v].order = plan[v].order
          /\ plan[v].order # plan[w].order
  BY <1>1 DEF Refunding, Inv, OneRefund, Order
<1>3. OneRefund'
  BY <1>2 DEF Inv, OneRefund, Order
<1>4. WorkIsLocked'
  <2> SUFFICES ASSUME NEW v \in Workers, pc'[v] \in Refunding
               PROVE  status'[plan'[v].order] = "REFUNDING"
    BY DEF WorkIsLocked, Order
  <2>1. status[plan[v].order] = "REFUNDING" /\ plan[v].order \in Orders
    BY <1>2 DEF Inv, Typed, WorkIsLocked, Order, Refunding
  <2> QED BY <2>1, <1>2 DEF Inv, Typed
<1>5. MarkIsPaid'
  BY <1>1 DEF Inv, MarkIsPaid, Order
<1>6. RefundedIsPaidBack'
  <2> SUFFICES ASSUME NEW o \in Orders \ NoTrade, status'[o] \in Refunded
               PROVE  paidBack[o] >= 1
    BY DEF RefundedIsPaidBack
  <2>1. CASE o = plan[w].order
    BY <2>1 DEF Inv, Typed
  <2>2. CASE o # plan[w].order
    BY <2>2 DEF Inv, Typed, RefundedIsPaidBack
  <2> QED BY <2>1, <2>2
<1> QED BY <1>3, <1>4, <1>5, <1>6 DEF Inv

\* A request that is not working on a refund and does not become one that is.
LEMMA Outside ==
  ASSUME Inv, NEW w \in Workers, Moves(w), Typed',
         pc[w] \notin Refunding, pc'[w] \notin Refunding,
         UNCHANGED paidBack,
         \A o \in Orders : \/ status'[o] = status[o]
                           \/ status[o] # "REFUNDING" /\ status'[o] \notin Refunded
  PROVE  Inv'
<1>1. \A v \in Workers : v # w => pc'[v] = pc[v] /\ plan'[v] = plan[v]
  BY DEF Moves, Inv, Typed
<1>2. \A v \in Workers : pc'[v] \in Refunding =>
          v # w /\ pc[v] \in Refunding /\ plan'[v] = plan[v]
                /\ plan[v].order \in Orders
  BY <1>1 DEF Refunding, Inv, Typed
<1>3. OneRefund'
  BY <1>2 DEF Inv, OneRefund, Order
<1>4. WorkIsLocked'
  <2> SUFFICES ASSUME NEW v \in Workers, pc'[v] \in Refunding
               PROVE  status'[plan'[v].order] = "REFUNDING"
    BY DEF WorkIsLocked, Order
  <2>1. status[plan[v].order] = "REFUNDING"
    BY <1>2 DEF Inv, WorkIsLocked, Order
  <2> QED BY <1>2, <2>1
<1>5. MarkIsPaid'
  <2> SUFFICES ASSUME NEW v \in Workers, pc'[v] = "mark", plan'[v].order \notin NoTrade
               PROVE  paidBack[plan'[v].order] >= 1
    BY DEF MarkIsPaid, Order
  <2>1. v # w
    BY DEF Refunding
  <2> QED BY <1>1, <2>1 DEF Inv, MarkIsPaid, Order
<1>6. RefundedIsPaidBack'
  <2> SUFFICES ASSUME NEW o \in Orders \ NoTrade, status'[o] \in Refunded
               PROVE  paidBack[o] >= 1
    BY DEF RefundedIsPaidBack
  <2>1. status'[o] = status[o]
    OBVIOUS
  <2> QED BY <2>1 DEF Inv, RefundedIsPaidBack
<1> QED BY <1>3, <1>4, <1>5, <1>6 DEF Inv

-----------------------------------------------------------------------------
\* The types and the locality of each step, by which the lemmas apply.
LEMMA LeaveTyped ==
  ASSUME Inv, NEW w \in Workers, Leave(w)
  PROVE  /\ Moves(w) /\ pc'[w] = "idle"
         /\ pc' \in [Workers -> Steps]
         /\ plan' \in [Workers -> [order : Orders \cup {NoOrder}, seen : Statuses,
                                   amount : 0..Price, take : 0..Price]]
         /\ \A v \in Workers : pc'[v] # "idle" => plan'[v].order \in Orders
<1>1. NoPlan \in [order : Orders \cup {NoOrder}, seen : Statuses,
                  amount : 0..Price, take : 0..Price]
  BY NumberAssumption DEF NoPlan, Statuses, Refundable
<1> QED BY <1>1 DEF Leave, Moves, Inv, Typed, Steps

LEMMA GotoTyped ==
  ASSUME Inv, NEW w \in Workers, NEW step \in Steps, Goto(w, step), pc[w] # "idle"
  PROVE  /\ Moves(w) /\ pc'[w] = step /\ plan' = plan
         /\ pc' \in [Workers -> Steps]
         /\ plan' \in [Workers -> [order : Orders \cup {NoOrder}, seen : Statuses,
                                   amount : 0..Price, take : 0..Price]]
         /\ \A v \in Workers : pc'[v] # "idle" => plan'[v].order \in Orders
  BY DEF Goto, Moves, Inv, Typed

\* A working request moves on to another step of its refund, or leaves.
LEMMA WorkOn ==
  ASSUME Inv, NEW w \in Workers, pc[w] \in Refunding,
         NEW step \in Refunding, Goto(w, step) \/ Leave(w),
         step = "mark" => plan[w].order \in NoTrade \/ paidBack'[plan[w].order] >= 1,
         UNCHANGED status,
         paidBack' \in [Orders -> Nat], balance' \in Int,
         \A o \in Orders : paidBack'[o] >= paidBack[o]
  PROVE  Inv'
<1>1. CASE Goto(w, step)
  <2>1. step \in Steps /\ pc[w] # "idle"
    BY DEF Steps, Refunding
  <2>2. Typed' /\ Moves(w) /\ pc'[w] = step /\ plan' = plan
    BY <1>1, <2>1, GotoTyped DEF Inv, Typed
  <2> QED BY <2>2, Working
<1>2. CASE Leave(w)
  <2>1. Typed' /\ Moves(w) /\ pc'[w] = "idle"
    BY <1>2, LeaveTyped DEF Inv, Typed
  <2> QED BY <2>1, Working
<1> QED BY <1>1, <1>2

LEMMA WriteAndLeave ==
  ASSUME Inv, NEW w \in Workers, pc[w] \in Refunding, Leave(w),
         NEW s \in Statuses, status' = [status EXCEPT ![plan[w].order] = s],
         s \in Refunded => plan[w].order \in NoTrade \/ paidBack[plan[w].order] >= 1,
         UNCHANGED <<paidBack, balance>>
  PROVE  Inv'
<1>1. Typed' /\ Moves(w) /\ pc'[w] = "idle"
  BY LeaveTyped DEF Inv, Typed
<1> QED BY <1>1, Unlocking

-----------------------------------------------------------------------------
LEMMA NextInv == Inv /\ [Next]_vars => Inv'
<1> SUFFICES ASSUME Inv, [Next]_vars PROVE Inv'
  OBVIOUS
<1> USE DEF money
<1>1. ASSUME NEW w \in Workers, NEW o \in Orders, RequestRefund(w, o)
      PROVE  Inv'
  <2>1. [NoPlan EXCEPT !.order = o] \in
            [order : Orders \cup {NoOrder}, seen : Statuses,
             amount : 0..Price, take : 0..Price]
    BY NumberAssumption DEF NoPlan, Statuses, Refundable
  <2>2. Typed' /\ Moves(w)
    BY <1>1, <2>1 DEF RequestRefund, Inv, Typed, Moves, Steps, NoPlan
  <2>3. pc[w] = "idle" /\ pc'[w] = "request"
    BY <1>1 DEF RequestRefund, Inv, Typed
  <2> QED BY <1>1, <2>2, <2>3, Outside DEF RequestRefund, Refunding
<1>2. ASSUME NEW w \in Workers, NEW o \in Orders, NEW amount \in 1..Price,
             NEW deduct \in BOOLEAN, PrepareRefund(w, o, amount, deduct)
      PROVE  Inv'
  <2>1. [order |-> o, seen |-> status[o], amount |-> amount, take |-> 0] \in
            [order : Orders \cup {NoOrder}, seen : Statuses,
             amount : 0..Price, take : 0..Price]
    BY NumberAssumption DEF Inv, Typed
  <2>2. Typed' /\ Moves(w)
    BY <1>2, <2>1 DEF PrepareRefund, Inv, Typed, Moves, Steps
  <2>3. pc[w] = "idle" /\ pc'[w] \in {"prepare", "lock"}
    BY <1>2 DEF PrepareRefund, Inv, Typed
  <2> QED BY <1>2, <2>2, <2>3, Outside DEF PrepareRefund, Refunding
<1>3. ASSUME NEW w \in Workers, WriteRequest(w)
      PROVE  Inv'
  <2>1. Typed' /\ Moves(w) /\ pc'[w] = "idle"
    BY <1>3, LeaveTyped DEF WriteRequest, Inv, Typed, Statuses, Refundable
  <2>2. \A o \in Orders : \/ status'[o] = status[o]
                          \/ status[o] # "REFUNDING" /\ status'[o] \notin Refunded
    BY <1>3 DEF WriteRequest, Inv, Typed, Refunded
  <2> QED BY <1>3, <2>1, <2>2, Outside DEF WriteRequest, Refunding
<1>4. ASSUME NEW w \in Workers, PrepareDeduct(w)
      PROVE  Inv'
  <2>1. CASE Leave(w)
    <3>1. Typed' /\ Moves(w) /\ pc'[w] = "idle"
      BY <1>4, <2>1, LeaveTyped DEF PrepareDeduct, Inv, Typed
    <3> QED BY <1>4, <3>1, Outside DEF PrepareDeduct, Refunding
  <2>2. CASE ~Leave(w)
    <3> DEFINE b == IF balance < 0 THEN 0
                    ELSE IF balance < plan[w].amount THEN balance ELSE plan[w].amount
    <3>1. PICK take \in {0, Price, b} : /\ plan' = [plan EXCEPT ![w].take = take]
                                        /\ pc'   = [pc EXCEPT ![w] = "lock"]
      BY <1>4, <2>2, Zenon DEF PrepareDeduct
    <3>2. take \in 0..Price
      <4>1. plan[w].amount \in 0..Price /\ balance \in Int
        BY DEF Inv, Typed
      <4> QED BY <3>1, <4>1, NumberAssumption
    <3>3. Typed' /\ Moves(w) /\ pc'[w] = "lock"
      BY <1>4, <3>1, <3>2 DEF PrepareDeduct, Inv, Typed, Moves, Steps
    <3> QED BY <1>4, <3>3, Outside DEF PrepareDeduct, Refunding
  <2> QED BY <2>1, <2>2
<1>5. ASSUME NEW w \in Workers, LockRefund(w)
      PROVE  Inv'
  <2>1. pc[w] = "lock" /\ plan[w].order \in Orders
    BY <1>5 DEF LockRefund, Inv, Typed
  <2>2. CASE ~CanLock(plan[w].order) \/ Leave(w)
    <3>1. Leave(w)
      BY <1>5, <2>2 DEF LockRefund, Order
    <3>2. status' \in [Orders -> Statuses]
      BY <1>5 DEF LockRefund, Inv, Typed, Statuses
    <3>3. Typed' /\ Moves(w) /\ pc'[w] = "idle"
      BY <1>5, <3>1, <3>2, LeaveTyped DEF LockRefund, Inv, Typed
    <3>4. \A o \in Orders : \/ status'[o] = status[o]
                            \/ status[o] # "REFUNDING" /\ status'[o] \notin Refunded
      BY <1>5, <2>1 DEF LockRefund, CanLock, Refundable, Refunded, Order, Inv, Typed
    <3> QED BY <1>5, <2>1, <3>3, <3>4, Outside DEF LockRefund, Refunding
  <2>3. CASE CanLock(plan[w].order) /\ ~Leave(w)
    <3>1. /\ Goto(w, "deduct")
          /\ status' = [status EXCEPT ![plan[w].order] = "REFUNDING"]
          /\ UNCHANGED <<paidBack, balance>>
      BY <1>5, <2>3 DEF LockRefund, Order
    <3>2. Typed' /\ Moves(w) /\ pc'[w] = "deduct" /\ plan' = plan
      BY <2>1, <3>1, GotoTyped DEF Inv, Typed, Steps, Refunding, Statuses
    <3>3. status[plan[w].order] # "REFUNDING"
      BY <2>3 DEF CanLock, Refundable
    <3>4. \A v \in Workers : v # w /\ pc'[v] \in Refunding =>
              pc[v] \in Refunding /\ plan[v].order \in Orders
                /\ status[plan[v].order] = "REFUNDING"
      BY <3>2 DEF Moves, Inv, Typed, WorkIsLocked, Order, Refunding
    <3>5. OneRefund'
      BY <3>2, <3>3, <3>4 DEF Inv, OneRefund, Order
    <3>6. WorkIsLocked'
      BY <2>1, <3>1, <3>2, <3>4 DEF Inv, Typed, WorkIsLocked, Order
    <3>7. MarkIsPaid'
      BY <3>1, <3>2 DEF Inv, Typed, Moves, MarkIsPaid, Order
    <3>8. RefundedIsPaidBack'
      BY <2>1, <3>1 DEF Inv, Typed, RefundedIsPaidBack, Refunded
    <3> QED BY <3>2, <3>5, <3>6, <3>7, <3>8 DEF Inv
  <2> QED BY <2>2, <2>3
<1>6. ASSUME NEW w \in Workers, SkipDeduct(w)
      PROVE  Inv'
  <2>1. Typed' /\ Moves(w) /\ pc'[w] = "gateway" /\ plan'[w].order = plan[w].order
    BY <1>6, NumberAssumption DEF SkipDeduct, Inv, Typed, Moves, Steps, Refunding
  <2> QED BY <1>6, <2>1, Working DEF SkipDeduct, Refunding, Inv, Typed
<1>7. ASSUME NEW w \in Workers, TryDeduct(w)
      PROVE  Inv'
  <2>1. PICK step \in {"gateway", "restore"} : Goto(w, step)
    BY <1>7, Zenon DEF TryDeduct
  <2>2. balance' \in Int
    <3>1. plan[w].take \in Int /\ balance \in Int
      BY DEF Inv, Typed
    <3> QED BY <1>7, <3>1 DEF TryDeduct, Deduct
  <2>3. pc[w] \in Refunding /\ UNCHANGED <<status, paidBack>>
    BY <1>7 DEF TryDeduct, Refunding
  <2> QED BY <2>1, <2>2, <2>3, WorkOn DEF Refunding, Inv, Typed
<1>8. ASSUME NEW w \in Workers, GatewayRefund(w)
      PROVE  Inv'
  <2> DEFINE o == plan[w].order
  <2>1. pc[w] \in Refunding /\ UNCHANGED <<status, balance>> /\ o \in Orders
    BY <1>8 DEF GatewayRefund, Refunding, Inv, Typed
  <2>2. \/ Goto(w, "mark") /\ o \in NoTrade /\ UNCHANGED paidBack
        \/ Goto(w, "mark") /\ paidBack' = [paidBack EXCEPT ![o] = @ + 1]
        \/ Goto(w, "rollback") /\ (\/ UNCHANGED paidBack
                                   \/ paidBack' = [paidBack EXCEPT ![o] = @ + 1])
    BY <1>8 DEF GatewayRefund, Order, OnGatewayError
  <2>3. \/ paidBack' = paidBack
        \/ paidBack' = [paidBack EXCEPT ![o] = @ + 1]
    BY <2>2
  <2>4. /\ paidBack' \in [Orders -> Nat]
        /\ \A p \in Orders : paidBack'[p] >= paidBack[p]
    BY <2>1, <2>3 DEF Inv, Typed
  <2>5. CASE Goto(w, "rollback")
    BY <2>1, <2>4, <2>5, WorkOn DEF Refunding, Inv, Typed
  <2>6. CASE Goto(w, "mark") /\ o \in NoTrade
    BY <2>1, <2>4, <2>6, WorkOn DEF Refunding, Inv, Typed
  <2>7. CASE Goto(w, "mark") /\ paidBack' = [paidBack EXCEPT ![o] = @ + 1]
    <3>1. paidBack'[o] >= 1
      BY <2>1, <2>7 DEF Inv, Typed
    <3> QED BY <2>1, <2>4, <2>7, <3>1, WorkOn DEF Refunding, Inv, Typed
  <2> QED BY <2>2, <2>5, <2>6, <2>7
<1>9. ASSUME NEW w \in Workers, MarkRefundOk(w)
      PROVE  Inv'
  <2>1. pc[w] \in Refunding /\ Leave(w) /\ UNCHANGED <<paidBack, balance>>
    BY <1>9 DEF MarkRefundOk, Refunding
  <2>2. CASE UNCHANGED status
    BY <2>1, <2>2, WorkOn DEF Inv, Typed, Refunding
  <2>3. CASE ~UNCHANGED status
    <3>1. PICK s \in Refunded : status' = [status EXCEPT ![plan[w].order] = s]
      BY <1>9, <2>3 DEF MarkRefundOk, Order, Refunded
    <3>2. plan[w].order \in NoTrade \/ paidBack[plan[w].order] >= 1
      BY <1>9 DEF MarkRefundOk, Inv, MarkIsPaid, Order
    <3> QED BY <2>1, <3>1, <3>2, WriteAndLeave DEF Statuses, Refunded
  <2> QED BY <2>2, <2>3
<1>10. ASSUME NEW w \in Workers, RollbackRefund(w)
       PROVE  Inv'
  <2>1. PICK step \in {"restore", "audit"} : Goto(w, step)
    BY <1>10, Zenon DEF RollbackRefund
  <2>2. balance' \in Int
    <3>1. plan[w].take \in Int /\ balance \in Int
      BY DEF Inv, Typed
    <3> QED BY <1>10, <3>1 DEF RollbackRefund, GiveBack
  <2>3. pc[w] \in Refunding /\ UNCHANGED <<status, paidBack>>
    BY <1>10 DEF RollbackRefund, Refunding
  <2> QED BY <2>1, <2>2, <2>3, WorkOn DEF Refunding, Inv, Typed
<1>11. ASSUME NEW w \in Workers, WriteRollbackFailed(w)
       PROVE  Inv'
  <2>1. pc[w] \in Refunding /\ Goto(w, "failed")
          /\ UNCHANGED <<status, paidBack, balance>>
    BY <1>11 DEF WriteRollbackFailed, Refunding
  <2> QED BY <2>1, WorkOn DEF Refunding, Inv, Typed
<1>12. ASSUME NEW w \in Workers, MarkRefundFailed(w) \/ RestoreStatus(w)
       PROVE  Inv'
  <2>1. pc[w] \in Refunding /\ Leave(w) /\ UNCHANGED <<paidBack, balance>>
    BY <1>12 DEF MarkRefundFailed, RestoreStatus, Refunding
  <2>2. CASE UNCHANGED status
    BY <2>1, <2>2, WorkOn DEF Inv, Typed, Refunding
  <2>3. CASE ~UNCHANGED status
    <3>1. PICK s \in Refundable : status' = [status EXCEPT ![plan[w].order] = s]
      BY <1>12, <2>3
         DEF MarkRefundFailed, RestoreStatus, Restored, Order, Refundable
    <3> QED BY <2>1, <3>1, WriteAndLeave DEF Statuses, Refunded, Refundable
  <2> QED BY <2>2, <2>3
<1>13. ASSUME NEW w \in Workers, Crash(w)
       PROVE  Inv'
  <2>1. Leave(w) /\ UNCHANGED <<status, balance, paidBack>>
    BY <1>13 DEF Crash, money
  <2>2. CASE pc[w] \in Refunding
    BY <2>1, <2>2, WorkOn DEF Inv, Typed, Refunding
  <2>3. CASE pc[w] \notin Refunding
    <3>1. Moves(w) /\ pc'[w] = "idle" /\ Typed'
      BY <2>1, LeaveTyped DEF Inv, Typed
    <3> QED BY <2>1, <2>3, <3>1, Outside DEF Refunding
  <2> QED BY <2>2, <2>3
<1>14. ASSUME Spend \/ UNCHANGED vars
       PROVE  Inv'
  BY <1>14 DEF Spend, vars, Inv, Typed, OneRefund, WorkIsLocked, MarkIsPaid,
               RefundedIsPaidBack, Order
<1> QED
  BY <1>1, <1>2, <1>3, <1>4, <1>5, <1>6, <1>7, <1>8, <1>9, <1>10, <1>11, <1>12,
     <1>13, <1>14 DEF Next, Continue

LEMMA Invariance == Spec => []Inv
  BY InitInv, NextInv, PTL DEF Spec

-----------------------------------------------------------------------------
\* The rest of the types: the books of the refund and the fault counter.
BooksTyped ==
    /\ revoked  \subseteq Orders
    /\ taken    \in [Orders -> Int]
    /\ refunded \in [Orders -> 0..Price]
    /\ rbFailed \subseteq Orders
    /\ faults   \in FaultLog

LEMMA FaultTyped ==
  ASSUME BooksTyped, \/ UNCHANGED faults
                     \/ \E k \in {"db", "lost", "gw", "audit", "blind", "crash"} : Fault(k)
  PROVE  faults' \in FaultLog
  BY NumberAssumption DEF BooksTyped, Fault, FaultLog

LEMMA NextBooks ==
  ASSUME Inv, BooksTyped, [Next]_vars
  PROVE  BooksTyped'
<1>1. ASSUME NEW w \in Workers, NEW o \in Orders, RequestRefund(w, o)
      PROVE  BooksTyped'
  BY <1>1 DEF RequestRefund, BooksTyped, money
<1>2. ASSUME NEW w \in Workers, WriteRequest(w)
      PROVE  BooksTyped'
  BY <1>2, NumberAssumption DEF WriteRequest, BooksTyped, money
<1>3. ASSUME NEW w \in Workers, NEW o \in Orders, NEW amount \in 1..Price,
             NEW deduct \in BOOLEAN, PrepareRefund(w, o, amount, deduct)
      PROVE  BooksTyped'
  BY <1>3 DEF PrepareRefund, BooksTyped, money
<1>4. ASSUME NEW w \in Workers, PrepareDeduct(w)
      PROVE  BooksTyped'
  <2>1. faults' \in FaultLog
    BY <1>4, FaultTyped DEF PrepareDeduct
  <2> QED BY <1>4, <2>1 DEF PrepareDeduct, BooksTyped, money
<1>5. ASSUME NEW w \in Workers, LockRefund(w)
      PROVE  BooksTyped'
  <2>1. faults' \in FaultLog
    BY <1>5, FaultTyped DEF LockRefund
  <2> QED BY <1>5, <2>1 DEF LockRefund, BooksTyped, money
<1>6. ASSUME NEW w \in Workers, SkipDeduct(w)
      PROVE  BooksTyped'
  BY <1>6 DEF SkipDeduct, BooksTyped, money
<1>7. ASSUME NEW w \in Workers, TryDeduct(w)
      PROVE  BooksTyped'
  <2>1. faults' \in FaultLog
    BY <1>7, FaultTyped DEF TryDeduct
  <2>2. Order(w) \in Orders /\ plan[w].take \in Int
    BY <1>7 DEF TryDeduct, Inv, Typed, Order
  <2>3. \/ Deduct(Order(w), plan[w].take)
        \/ UNCHANGED <<revoked, taken>>
    BY <1>7 DEF TryDeduct
  <2>4. revoked' \subseteq Orders /\ taken' \in [Orders -> Int]
    BY <2>2, <2>3 DEF Deduct, BooksTyped
  <2> QED BY <1>7, <2>1, <2>4 DEF TryDeduct, BooksTyped
<1>8. ASSUME NEW w \in Workers, GatewayRefund(w)
      PROVE  BooksTyped'
  <2>1. faults' \in FaultLog
    BY <1>8, FaultTyped DEF GatewayRefund
  <2> QED BY <1>8, <2>1 DEF GatewayRefund, BooksTyped
<1>9. ASSUME NEW w \in Workers, MarkRefundOk(w)
      PROVE  BooksTyped'
  <2>1. faults' \in FaultLog
    BY <1>9, FaultTyped DEF MarkRefundOk
  <2>2. plan[w].amount \in 0..Price
    BY DEF Inv, Typed
  <2> QED BY <1>9, <2>1, <2>2 DEF MarkRefundOk, BooksTyped, money
<1>10. ASSUME NEW w \in Workers, RollbackRefund(w)
       PROVE  BooksTyped'
  <2>1. faults' \in FaultLog
    BY <1>10, FaultTyped DEF RollbackRefund
  <2>2. Order(w) \in Orders /\ plan[w].take \in Int
    BY <1>10 DEF RollbackRefund, Inv, Typed, Order
  <2>3. taken' \in [Orders -> Int]
    BY <1>10, <2>2 DEF RollbackRefund, GiveBack, BooksTyped
  <2> QED BY <1>10, <2>1, <2>3 DEF RollbackRefund, BooksTyped
<1>11. ASSUME NEW w \in Workers, WriteRollbackFailed(w)
       PROVE  BooksTyped'
  <2>1. faults' \in FaultLog
    BY <1>11, FaultTyped DEF WriteRollbackFailed
  <2>2. Order(w) \in Orders
    BY <1>11 DEF WriteRollbackFailed, Inv, Typed, Order
  <2> QED BY <1>11, <2>1, <2>2 DEF WriteRollbackFailed, BooksTyped, money
<1>12. ASSUME NEW w \in Workers, MarkRefundFailed(w) \/ RestoreStatus(w) \/ Crash(w)
       PROVE  BooksTyped'
  <2>1. faults' \in FaultLog
    BY <1>12, FaultTyped DEF MarkRefundFailed, RestoreStatus, Crash
  <2> QED BY <1>12, <2>1 DEF MarkRefundFailed, RestoreStatus, Crash, BooksTyped, money
<1>13. ASSUME Spend \/ UNCHANGED vars
       PROVE  BooksTyped'
  BY <1>13 DEF Spend, vars, money, BooksTyped
<1> QED
  BY <1>1, <1>2, <1>3, <1>4, <1>5, <1>6, <1>7, <1>8, <1>9, <1>10, <1>11, <1>12,
     <1>13 DEF Next, Continue

LEMMA BooksInvariance == Spec => []BooksTyped
<1>1. Init => BooksTyped
  BY NumberAssumption DEF Init, BooksTyped, FaultLog
<1> QED BY <1>1, Invariance, NextBooks, PTL DEF Spec

\* Every variable of the refund keeps its type: the amounts of the plans and of
\* the order rows stay within the order's amount.
THEOREM RefundTypes == Spec => []TypeOK
<1>1. Inv /\ BooksTyped => TypeOK
  BY DEF Inv, Typed, BooksTyped, TypeOK
<1> QED BY <1>1, Invariance, BooksInvariance, PTL

\* One refund at a time works on an order: the compare-and-set of
\* ExecuteRefund to REFUNDING holds every other request off, whatever fails and
\* whatever stale plans there are.
THEOREM RefundExclusive == Spec => []OneRefund
  BY Invariance, PTL DEF Inv

\* A refund at work keeps its order in REFUNDING: none of the unconditional
\* status writes (markRefundOk, handleGwFail, restoreStatus) hits another's.
THEOREM RefundLocked == Spec => []WorkIsLocked
  BY Invariance, PTL DEF Inv

\* An order marked as refunded, with a trade number, was paid back by the
\* provider.
THEOREM RefundPaidBack == Spec => []RefundedIsPaidBack
  BY Invariance, PTL DEF Inv

-----------------------------------------------------------------------------
(* An order in REFUNDING has a refund at work, or a failure explains it.   *)

Stranding == faults.kinds \cap {"db", "lost", "crash"} # {}

Attended ==
    \A o \in Orders :
       \/ status[o] # "REFUNDING"
       \/ \E w \in Workers : pc[w] \in Refunding /\ Order(w) = o
       \/ Stranding

LEMMA FaultsStay ==
  ASSUME BooksTyped, UNCHANGED faults \/ \E k \in AllFaults : Fault(k)
  PROVE  Stranding => Stranding'
  BY DEF Stranding, Fault, BooksTyped, FaultLog

LEMMA Strands ==
  ASSUME NEW k \in {"db", "lost", "crash"}, Fault(k)
  PROVE  Stranding'
  BY DEF Stranding, Fault

\* A request strands no order that it locks itself, or that it had locked and
\* left with another status.
LEMMA AttendStep ==
  ASSUME Inv, Attended, NEW w \in Workers, Moves(w),
         Stranding => Stranding',
         \A o \in Orders : status'[o] = "REFUNDING" =>
             \/ status[o] = "REFUNDING"
             \/ pc'[w] \in Refunding /\ plan'[w].order = o
             \/ Stranding',
         pc[w] \in Refunding =>
             \/ pc'[w] \in Refunding /\ plan'[w].order = plan[w].order
             \/ status'[plan[w].order] # "REFUNDING"
             \/ Stranding'
  PROVE  Attended'
<1> SUFFICES ASSUME NEW o \in Orders, status'[o] = "REFUNDING", ~Stranding'
             PROVE  \E v \in Workers : pc'[v] \in Refunding /\ plan'[v].order = o
  BY DEF Attended, Order
<1>1. CASE pc'[w] \in Refunding /\ plan'[w].order = o
  BY <1>1
<1>2. CASE ~(pc'[w] \in Refunding /\ plan'[w].order = o)
  <2>1. status[o] = "REFUNDING" /\ ~Stranding
    BY <1>2
  <2>2. PICK v \in Workers : pc[v] \in Refunding /\ plan[v].order = o
    BY <2>1 DEF Attended, Order
  <2>3. v # w
    BY <1>2, <2>2
  <2>4. pc'[v] = pc[v] /\ plan'[v] = plan[v]
    BY <2>3 DEF Moves, Inv, Typed
  <2> QED BY <2>2, <2>4
<1> QED BY <1>1, <1>2

LEMMA NextAttended ==
  ASSUME Inv, BooksTyped, Attended, [Next]_vars
  PROVE  Attended'
<1> USE DEF money
<1>1. ASSUME NEW w \in Workers, NEW o \in Orders, RequestRefund(w, o)
      PROVE  Attended'
  <2>1. /\ Moves(w) /\ pc[w] = "idle" /\ UNCHANGED <<status, faults>>
    BY <1>1 DEF RequestRefund, Inv, Typed, Moves
  <2>2. (Stranding => Stranding') /\ pc[w] \notin Refunding
    BY <2>1, FaultsStay DEF Refunding
  <2> QED BY <2>1, <2>2, AttendStep
<1>2. ASSUME NEW w \in Workers, NEW o \in Orders, NEW amount \in 1..Price,
             NEW deduct \in BOOLEAN, PrepareRefund(w, o, amount, deduct)
      PROVE  Attended'
  <2>1. /\ Moves(w) /\ pc[w] = "idle" /\ UNCHANGED <<status, faults>>
    BY <1>2 DEF PrepareRefund, Inv, Typed, Moves
  <2> QED BY <2>1, FaultsStay, AttendStep DEF Refunding
<1>3. ASSUME NEW w \in Workers, WriteRequest(w)
      PROVE  Attended'
  <2>1. Moves(w) /\ pc[w] = "request" /\ UNCHANGED faults
    BY <1>3, LeaveTyped DEF WriteRequest
  <2>2. \A o \in Orders : status'[o] = "REFUNDING" => status[o] = "REFUNDING"
    BY <1>3 DEF WriteRequest, Inv, Typed
  <2> QED BY <2>1, <2>2, FaultsStay, AttendStep DEF Refunding
<1>4. ASSUME NEW w \in Workers, PrepareDeduct(w)
      PROVE  Attended'
  <2>1. /\ pc[w] = "prepare" /\ UNCHANGED status
        /\ UNCHANGED faults \/ Fault("db")
    BY <1>4 DEF PrepareDeduct
  <2>2. \/ Leave(w)
        \/ \E take : /\ plan' = [plan EXCEPT ![w].take = take]
                     /\ pc'   = [pc EXCEPT ![w] = "lock"]
    BY <1>4, Zenon DEF PrepareDeduct
  <2>3. Moves(w)
    BY <2>2, LeaveTyped DEF Moves, Inv, Typed
  <2> QED BY <2>1, <2>3, FaultsStay, AttendStep DEF Refunding, AllFaults
<1>5. ASSUME NEW w \in Workers, LockRefund(w)
      PROVE  Attended'
  <2> DEFINE o == plan[w].order
  <2>1. /\ pc[w] = "lock" /\ pc[w] \notin Refunding
        /\ UNCHANGED faults \/ Fault("lost")
    BY <1>5 DEF LockRefund, Refunding
  <2>2. \/ Leave(w) /\ UNCHANGED status
        \/ /\ status' = [status EXCEPT ![o] = "REFUNDING"]
           /\ \/ Goto(w, "deduct")
              \/ Leave(w) /\ Fault("lost")
    BY <1>5 DEF LockRefund, Order
  <2>3. /\ Moves(w)
        /\ Goto(w, "deduct") => pc'[w] \in Refunding /\ plan'[w].order = o
    BY <2>1, <2>2, LeaveTyped, GotoTyped DEF Steps, Refunding
  <2>4. \A p \in Orders : status'[p] = "REFUNDING" =>
             \/ status[p] = "REFUNDING"
             \/ pc'[w] \in Refunding /\ plan'[w].order = p
             \/ Stranding'
    BY <2>2, <2>3, Strands DEF Inv, Typed
  <2> QED BY <2>1, <2>3, <2>4, FaultsStay, AttendStep DEF AllFaults
<1>6. ASSUME NEW w \in Workers, SkipDeduct(w)
      PROVE  Attended'
  <2>1. /\ Moves(w) /\ pc'[w] \in Refunding /\ plan'[w].order = plan[w].order
        /\ UNCHANGED <<status, faults>>
    BY <1>6 DEF SkipDeduct, Moves, Inv, Typed, Refunding
  <2> QED BY <2>1, FaultsStay, AttendStep
<1>7. ASSUME NEW w \in Workers,
             TryDeduct(w) \/ GatewayRefund(w) \/ RollbackRefund(w)
               \/ WriteRollbackFailed(w)
      PROVE  Attended'
  <2>1. PICK step \in Refunding : Goto(w, step)
    BY <1>7, Zenon DEF TryDeduct, GatewayRefund, RollbackRefund, OnGatewayError,
                       WriteRollbackFailed, Refunding
  <2>2. /\ pc[w] # "idle" /\ UNCHANGED status
        /\ UNCHANGED faults \/ \E k \in AllFaults : Fault(k)
    BY <1>7 DEF TryDeduct, GatewayRefund, RollbackRefund, WriteRollbackFailed,
                AllFaults
  <2>3. Moves(w) /\ pc'[w] = step /\ plan' = plan
    BY <2>1, <2>2, GotoTyped DEF Steps
  <2> QED BY <2>2, <2>3, FaultsStay, AttendStep
<1>8. ASSUME NEW w \in Workers,
             MarkRefundOk(w) \/ MarkRefundFailed(w) \/ RestoreStatus(w)
      PROVE  Attended'
  <2>1. /\ Moves(w)
        /\ UNCHANGED faults \/ Fault("db")
        /\ plan[w].order \in Orders
    BY <1>8, LeaveTyped DEF MarkRefundOk, MarkRefundFailed, RestoreStatus, Inv, Typed
  <2>2. \/ Fault("db") /\ UNCHANGED status
        \/ \E s : /\ status' = [status EXCEPT ![plan[w].order] = s]
                  /\ s # "REFUNDING"
    BY <1>8 DEF MarkRefundOk, MarkRefundFailed, RestoreStatus, Restored, Order
  <2>3. /\ \A o \in Orders : status'[o] = "REFUNDING" => status[o] = "REFUNDING"
        /\ status'[plan[w].order] # "REFUNDING" \/ Stranding'
    BY <2>1, <2>2, Strands DEF Inv, Typed
  <2>4. Stranding => Stranding'
    BY <2>1, FaultsStay DEF AllFaults
  <2> QED BY <2>1, <2>3, <2>4, AttendStep
<1>9. ASSUME NEW w \in Workers, Crash(w)
      PROVE  Attended'
  <2>1. Stranding'
    BY <1>9, Strands DEF Crash
  <2> QED BY <2>1 DEF Attended
<1>10. ASSUME Spend \/ UNCHANGED vars
       PROVE  Attended'
  BY <1>10 DEF Spend, vars, Attended, Order, Stranding
<1> QED
  BY <1>1, <1>2, <1>3, <1>4, <1>5, <1>6, <1>7, <1>8, <1>9, <1>10 DEF Next, Continue

\* An order is in REFUNDING exactly while a refund is at work on it: every way
\* through ExecuteRefund, refusals and failed rollbacks included, ends by writing
\* another status, unless a statement or the request itself fails.
THEOREM RefundLockMeansWork == Spec => []LockMeansWork
<1>1. Init => Attended
  BY DEF Init, Attended
<1>2. Spec => []Attended
  BY <1>1, NextAttended, Invariance, BooksInvariance, PTL DEF Spec
<1>3. Inv /\ Attended => LockMeansWork
  BY DEF Inv, Attended, Stranding, LockMeansWork
<1> QED BY <1>2, <1>3, Invariance, PTL

-----------------------------------------------------------------------------
(* Once only: what each step of a refund knows of the order's books.       *)

\* Nothing is deducted that an audit row does not tell of.
Clean(o) == o \notin rbFailed => taken[o] = 0

Progress(w) ==
    LET o == Order(w) IN
    /\ pc[w] # "mark" => paidBack[o] = 0
    /\ pc[w] \in {"deduct", "restore"} => Clean(o)
    /\ pc[w] \in {"gateway", "rollback"} =>
          IF plan[w].take > 0 THEN taken[o] = plan[w].take ELSE Clean(o)
    /\ pc[w] = "failed" => o \in rbFailed

\* An order that can be refunded has not been paid back.
Books(o) ==
    /\ paidBack[o] <= 1
    /\ taken[o] <= Price
    /\ status[o] \in Refundable => paidBack[o] = 0 /\ Clean(o)

Accounts ==
    /\ \A o \in Orders : Books(o)
    /\ \A w \in Workers : pc[w] \in Refunding => Progress(w)

LEMMA InitAccounts == Init => Accounts
  BY OrderAssumption, NumberAssumption
     DEF Init, Accounts, Books, Progress, Clean, Refunding

\* Nothing makes the code know again what it was misled about.
LEMMA StaysMisled ==
  ASSUME BooksTyped, Misled,
         UNCHANGED faults \/ \E k \in AllFaults : Fault(k)
  PROVE  Misled'
  BY DEF Misled, Fault, BooksTyped, FaultLog

LEMMA Misleads ==
  ASSUME NEW k \in {"lost", "audit", "blind"}, Fault(k)
  PROVE  Misled'
  BY DEF Misled, Fault

\* A refund at work touches the books and the status of its own order only.
LEMMA WorkerBooks ==
  ASSUME Inv, Accounts, NEW w \in Workers, Moves(w), pc[w] \in Refunding,
         NEW o \in Orders, o = plan[w].order,
         \A p \in Orders : p # o =>
             /\ status'[p] = status[p]
             /\ taken'[p] = taken[p]
             /\ paidBack'[p] = paidBack[p]
             /\ p \in rbFailed' <=> p \in rbFailed,
         Books(o)',
         pc'[w] \in Refunding => Progress(w)'
  PROVE  Accounts'
<1>1. \A v \in Workers : v # w => pc'[v] = pc[v] /\ plan'[v] = plan[v]
  BY DEF Moves, Inv, Typed
<1>2. ASSUME NEW p \in Orders
      PROVE  Books(p)'
  <2>1. CASE p = o
    BY <2>1
  <2>2. CASE p # o
    BY <2>2 DEF Accounts, Books, Clean
  <2> QED BY <2>1, <2>2
<1>3. ASSUME NEW v \in Workers, pc'[v] \in Refunding
      PROVE  Progress(v)'
  <2>1. CASE v = w
    BY <1>3, <2>1
  <2>2. CASE v # w
    <3>1. pc[v] \in Refunding /\ pc'[v] = pc[v] /\ plan'[v] = plan[v]
      BY <1>1, <1>3, <2>2
    <3>2. plan[v].order # plan[w].order /\ plan[v].order \in Orders
      BY <2>2, <3>1 DEF Inv, OneRefund, Typed, Order, Refunding
    <3> QED BY <3>1, <3>2 DEF Accounts, Progress, Clean, Order
  <2> QED BY <2>1, <2>2
<1> QED BY <1>2, <1>3 DEF Accounts

\* A request outside the lock changes no books, and makes no order refundable.
LEMMA OutsiderBooks ==
  ASSUME Inv, Accounts, NEW w \in Workers, Moves(w),
         pc[w] \notin Refunding, pc'[w] \notin Refunding,
         UNCHANGED <<taken, paidBack, rbFailed>>,
         \A o \in Orders : status'[o] \in Refundable => status[o] \in Refundable
  PROVE  Accounts'
<1>1. \A v \in Workers : v # w => pc'[v] = pc[v] /\ plan'[v] = plan[v]
  BY DEF Moves, Inv, Typed
<1>2. \A o \in Orders : Books(o)'
  BY DEF Accounts, Books, Clean
<1>3. ASSUME NEW v \in Workers, pc'[v] \in Refunding
      PROVE  Progress(v)'
  BY <1>1, <1>3 DEF Accounts, Progress, Clean, Order
<1> QED BY <1>2, <1>3 DEF Accounts

\* The request that takes the lock finds an order that was not paid back.
LEMMA LockBooks ==
  ASSUME Inv, Accounts, NEW w \in Workers, LockRefund(w)
  PROVE  Accounts'
<1> DEFINE o == plan[w].order
<1>1. pc[w] = "lock" /\ o \in Orders /\ UNCHANGED <<taken, paidBack, rbFailed>>
  BY DEF LockRefund, money, Inv, Typed
<1>2. \A p \in Orders : status'[p] \in Refundable => status[p] \in Refundable
  BY <1>1 DEF LockRefund, Order, Refundable, Inv, Typed
<1>3. CASE Leave(w)
  <2>1. Moves(w) /\ pc'[w] = "idle"
    BY <1>3, LeaveTyped
  <2> QED BY <1>1, <1>2, <2>1, OutsiderBooks DEF Refunding
<1>4. CASE ~Leave(w)
  <2>1. status[o] \in Refundable /\ Goto(w, "deduct")
    BY <1>4 DEF LockRefund, CanLock, Order
  <2>2. /\ pc'[w] = "deduct" /\ plan' = plan
        /\ \A v \in Workers : v # w => pc'[v] = pc[v]
    BY <2>1 DEF Goto, Inv, Typed
  <2>3. \A p \in Orders : Books(p)'
    BY <1>1, <1>2 DEF Accounts, Books, Clean
  <2>4. paidBack[o] = 0 /\ Clean(o)
    BY <1>1, <2>1 DEF Accounts, Books
  <2>5. Progress(w)'
    BY <1>1, <2>2, <2>4 DEF Progress, Clean, Order
  <2>6. ASSUME NEW v \in Workers, v # w, pc'[v] \in Refunding
        PROVE  Progress(v)'
    BY <1>1, <2>2, <2>6 DEF Accounts, Progress, Clean, Order
  <2> QED BY <2>3, <2>5, <2>6 DEF Accounts
<1> QED BY <1>3, <1>4

LEMMA NextAccounts ==
  ASSUME Inv, BooksTyped, Accounts, [Next]_vars
  PROVE  Misled' \/ Accounts'
<1> USE DEF money
<1> DEFINE Kept == UNCHANGED <<status, taken, paidBack, rbFailed>>
<1>a. ASSUME NEW w \in Workers, NEW o, o = plan[w].order, pc[w] \in Refunding
      PROVE  /\ o \in Orders /\ Books(o) /\ Progress(w)
             /\ paidBack[o] \in Nat /\ taken[o] \in Int
             /\ plan[w].take \in 0..Price /\ Price \in Nat
             /\ status[o] = "REFUNDING" /\ "REFUNDING" \notin Refundable
  <2>1. o \in Orders /\ plan[w].take \in 0..Price /\ status[o] = "REFUNDING"
    BY <1>a DEF Inv, Typed, WorkIsLocked, Order, Refunding
  <2>2. Books(o) /\ Progress(w) /\ paidBack[o] \in Nat /\ taken[o] \in Int
    BY <1>a, <2>1 DEF Accounts, Inv, Typed, BooksTyped
  <2> QED BY <2>1, <2>2, NumberAssumption DEF Refundable
<1>1. ASSUME NEW w \in Workers, NEW o \in Orders, RequestRefund(w, o)
      PROVE  Accounts'
  <2>1. Moves(w) /\ pc[w] = "idle" /\ pc'[w] = "request" /\ Kept
    BY <1>1 DEF RequestRefund, Inv, Typed, Moves
  <2> QED BY <2>1, OutsiderBooks DEF Refunding
<1>2. ASSUME NEW w \in Workers, NEW o \in Orders, NEW amount \in 1..Price,
             NEW deduct \in BOOLEAN, PrepareRefund(w, o, amount, deduct)
      PROVE  Accounts'
  <2>1. Moves(w) /\ pc[w] = "idle" /\ pc'[w] \in {"prepare", "lock"} /\ Kept
    BY <1>2 DEF PrepareRefund, Inv, Typed, Moves
  <2> QED BY <2>1, OutsiderBooks DEF Refunding
<1>3. ASSUME NEW w \in Workers, WriteRequest(w)
      PROVE  Accounts'
  <2>1. /\ Moves(w) /\ pc[w] = "request" /\ pc'[w] = "idle"
        /\ UNCHANGED <<taken, paidBack, rbFailed>>
    BY <1>3, LeaveTyped DEF WriteRequest
  <2>2. \A o \in Orders : status'[o] \in Refundable => status[o] \in Refundable
    BY <1>3 DEF WriteRequest, Refundable, Inv, Typed
  <2> QED BY <2>1, <2>2, OutsiderBooks DEF Refunding
<1>4. ASSUME NEW w \in Workers, PrepareDeduct(w)
      PROVE  Accounts'
  <2>1. pc[w] = "prepare" /\ Kept
    BY <1>4 DEF PrepareDeduct
  <2>2. \/ Leave(w)
        \/ \E take : /\ plan' = [plan EXCEPT ![w].take = take]
                     /\ pc'   = [pc EXCEPT ![w] = "lock"]
    BY <1>4, Zenon DEF PrepareDeduct
  <2>3. Moves(w) /\ pc'[w] \in {"idle", "lock"}
    BY <2>2, LeaveTyped DEF Moves, Inv, Typed
  <2> QED BY <2>1, <2>3, OutsiderBooks DEF Refunding
<1>5. ASSUME NEW w \in Workers, LockRefund(w)
      PROVE  Accounts'
  BY <1>5, LockBooks
<1>6. ASSUME NEW w \in Workers, SkipDeduct(w)
      PROVE  Accounts'
  <2>1. PICK o : o = plan[w].order
    OBVIOUS
  <2>2. /\ pc[w] = "deduct" /\ pc[w] \in Refunding /\ Kept
        /\ plan[w].take = 0 \/ o \in rbFailed
    BY <1>6, <2>1 DEF SkipDeduct, DeductedBefore, Order, Refunding
  <2>3. /\ Moves(w) /\ pc'[w] = "gateway"
        /\ plan'[w].order = o /\ plan'[w].take = 0
    BY <1>6, <2>1 DEF SkipDeduct, Moves, Inv, Typed
  <2>4. Books(o)' /\ Progress(w)'
    BY <1>a, <2>1, <2>2, <2>3 DEF Books, Progress, Clean, Order
  <2> QED BY <1>a, <2>1, <2>2, <2>3, <2>4, WorkerBooks
<1>7. ASSUME NEW w \in Workers, TryDeduct(w)
      PROVE  Misled' \/ Accounts'
  <2>1. PICK o : o = plan[w].order
    OBVIOUS
  <2>2. pc[w] = "deduct" /\ pc[w] \in Refunding /\ plan[w].take > 0
          /\ UNCHANGED <<status, paidBack, rbFailed>>
    BY <1>7 DEF TryDeduct, Refunding
  <2>3. CASE Fault("lost") \/ Fault("blind")
    BY <2>3, Misleads
  <2>4. CASE ~(Fault("lost") \/ Fault("blind"))
    <3>1. /\ o \notin rbFailed
          /\ \/ Goto(w, "gateway") /\ taken' = [taken EXCEPT ![o] = @ + plan[w].take]
             \/ Goto(w, "restore") /\ taken' = taken
      BY <1>7, <2>1, <2>4 DEF TryDeduct, DeductedBefore, Deduct, Order
    <3>2. Moves(w) /\ plan' = plan /\ pc'[w] \in {"gateway", "restore"}
      BY <2>2, <3>1, GotoTyped DEF Steps, Refunding
    <3>3. paidBack[o] = 0 /\ taken[o] = 0
      BY <1>a, <2>1, <2>2, <3>1 DEF Progress, Clean, Order
    <3>4. CASE Goto(w, "gateway") /\ taken' = [taken EXCEPT ![o] = @ + plan[w].take]
      <4>1. taken'[o] = plan[w].take /\ \A p \in Orders : p # o => taken'[p] = taken[p]
        BY <1>a, <2>1, <2>2, <3>3, <3>4 DEF BooksTyped
      <4>2. pc'[w] = "gateway"
        BY <3>4 DEF Goto, Inv, Typed
      <4>3. Books(o)' /\ Progress(w)'
        BY <1>a, <2>1, <2>2, <3>2, <3>3, <4>1, <4>2 DEF Books, Progress, Clean, Order
      <4> QED BY <1>a, <2>1, <2>2, <3>2, <4>1, <4>3, WorkerBooks
    <3>5. CASE Goto(w, "restore") /\ taken' = taken
      <4>1. pc'[w] = "restore"
        BY <3>5 DEF Goto, Inv, Typed
      <4>2. Books(o)' /\ Progress(w)'
        BY <1>a, <2>1, <2>2, <3>2, <3>3, <3>5, <4>1 DEF Books, Progress, Clean, Order
      <4> QED BY <1>a, <2>1, <2>2, <3>2, <3>5, <4>2, WorkerBooks
    <3> QED BY <3>1, <3>4, <3>5
  <2> QED BY <2>3, <2>4
<1>8. ASSUME NEW w \in Workers, GatewayRefund(w)
      PROVE  Misled' \/ Accounts'
  <2>1. PICK o : o = plan[w].order
    OBVIOUS
  <2>2. pc[w] = "gateway" /\ pc[w] \in Refunding
          /\ UNCHANGED <<status, taken, rbFailed>>
    BY <1>8 DEF GatewayRefund, Refunding
  <2>3. CASE Fault("lost")
    BY <2>3, Misleads
  <2>4. CASE ~Fault("lost")
    <3>1. \/ Goto(w, "mark") /\ UNCHANGED paidBack
          \/ Goto(w, "mark") /\ paidBack' = [paidBack EXCEPT ![o] = @ + 1]
          \/ Goto(w, "rollback") /\ UNCHANGED paidBack
      BY <1>8, <2>1, <2>4 DEF GatewayRefund, OnGatewayError, Order
    <3>2. Moves(w) /\ plan' = plan
      BY <2>2, <3>1, GotoTyped DEF Steps, Refunding
    <3>3. paidBack[o] = 0
      BY <1>a, <2>1, <2>2 DEF Progress, Order
    <3>4. \A p \in Orders : p # o => paidBack'[p] = paidBack[p]
      BY <3>1 DEF Inv, Typed
    <3>5. \/ pc'[w] = "mark" /\ paidBack'[o] \in {0, 1}
          \/ pc'[w] = "rollback" /\ paidBack'[o] = 0
      BY <1>a, <2>1, <2>2, <3>1, <3>3 DEF Goto, Inv, Typed
    <3>6. Books(o)' /\ Progress(w)'
      BY <1>a, <2>1, <2>2, <3>2, <3>5 DEF Books, Progress, Clean, Order
    <3> QED BY <1>a, <2>1, <2>2, <3>2, <3>4, <3>6, WorkerBooks
  <2> QED BY <2>3, <2>4
<1>9. ASSUME NEW w \in Workers, MarkRefundOk(w)
      PROVE  Accounts'
  <2>1. PICK o : o = plan[w].order
    OBVIOUS
  <2>2. /\ pc[w] \in Refunding /\ UNCHANGED <<taken, paidBack, rbFailed>>
        /\ \/ \E s \in Refunded : status' = [status EXCEPT ![o] = s]
           \/ UNCHANGED status
    BY <1>9, <2>1 DEF MarkRefundOk, Refunding, Refunded, Order
  <2>3. Moves(w) /\ pc'[w] = "idle"
    BY <1>9, LeaveTyped DEF MarkRefundOk
  <2>4. status'[o] \notin Refundable /\ \A p \in Orders : p # o => status'[p] = status[p]
    BY <1>a, <2>1, <2>2 DEF Refundable, Refunded, Inv, Typed
  <2>5. Books(o)'
    BY <1>a, <2>1, <2>2, <2>4 DEF Books, Clean
  <2> QED BY <1>a, <2>1, <2>2, <2>3, <2>4, <2>5, WorkerBooks DEF Refunding
<1>10. ASSUME NEW w \in Workers, RollbackRefund(w)
       PROVE  Misled' \/ Accounts'
  <2>1. PICK o : o = plan[w].order
    OBVIOUS
  <2>2. pc[w] = "rollback" /\ pc[w] \in Refunding
          /\ UNCHANGED <<status, paidBack, rbFailed>>
    BY <1>10 DEF RollbackRefund, Refunding
  <2>3. CASE Fault("lost")
    BY <2>3, Misleads
  <2>4. CASE ~Fault("lost")
    <3>1. \/ plan[w].take = 0 /\ Goto(w, "restore") /\ UNCHANGED taken
          \/ /\ plan[w].take > 0 /\ Goto(w, "restore")
             /\ taken' = [taken EXCEPT ![o] = @ - plan[w].take]
          \/ Goto(w, "audit") /\ UNCHANGED taken
      BY <1>10, <2>1, <2>4 DEF RollbackRefund, GiveBack, Order
    <3>2. Moves(w) /\ plan' = plan
      BY <2>2, <3>1, GotoTyped DEF Steps, Refunding
    <3>3. paidBack[o] = 0 /\ (IF plan[w].take > 0 THEN taken[o] = plan[w].take ELSE Clean(o))
      BY <1>a, <2>1, <2>2 DEF Progress, Order
    <3>4. \A p \in Orders : p # o => taken'[p] = taken[p]
      BY <3>1 DEF BooksTyped
    <3>5. \/ pc'[w] = "restore" /\ taken'[o] <= Price
               /\ (o \notin rbFailed => taken'[o] = 0)
          \/ pc'[w] = "audit" /\ taken'[o] = taken[o]
      <4>1. o \in Orders /\ taken[o] \in Int /\ plan[w].take \in 0..Price
              /\ Price \in Nat /\ taken[o] <= Price
        BY <1>a, <2>1, <2>2 DEF Books
      <4>2. CASE plan[w].take = 0 /\ Goto(w, "restore") /\ UNCHANGED taken
        BY <3>3, <4>1, <4>2 DEF Goto, Clean, Inv, Typed
      <4>3. CASE /\ plan[w].take > 0 /\ Goto(w, "restore")
                 /\ taken' = [taken EXCEPT ![o] = @ - plan[w].take]
        <5>1. taken'[o] = 0
          BY <3>3, <4>1, <4>3 DEF BooksTyped
        <5> QED BY <4>1, <4>3, <5>1 DEF Goto, Inv, Typed
      <4>4. CASE Goto(w, "audit") /\ UNCHANGED taken
        BY <4>4 DEF Goto, Inv, Typed
      <4> QED BY <3>1, <4>2, <4>3, <4>4
    <3>6. Books(o)' /\ Progress(w)'
      BY <1>a, <2>1, <2>2, <3>2, <3>3, <3>5 DEF Books, Progress, Clean, Order
    <3> QED BY <1>a, <2>1, <2>2, <3>2, <3>4, <3>6, WorkerBooks
  <2> QED BY <2>3, <2>4
<1>11. ASSUME NEW w \in Workers, WriteRollbackFailed(w)
       PROVE  Misled' \/ Accounts'
  <2>1. PICK o : o = plan[w].order
    OBVIOUS
  <2>2. pc[w] = "audit" /\ pc[w] \in Refunding
          /\ UNCHANGED <<status, taken, paidBack>> /\ Goto(w, "failed")
    BY <1>11 DEF WriteRollbackFailed, Refunding
  <2>3. CASE Fault("audit")
    BY <2>3, Misleads
  <2>4. CASE ~Fault("audit")
    <3>1. rbFailed' = rbFailed \cup {o}
      BY <1>11, <2>1, <2>4 DEF WriteRollbackFailed, Order
    <3>2. Moves(w) /\ plan' = plan /\ pc'[w] = "failed"
      BY <2>2, GotoTyped DEF Steps, Refunding
    <3>3. Books(o)' /\ Progress(w)'
      BY <1>a, <2>1, <2>2, <3>1, <3>2 DEF Books, Progress, Clean, Order
    <3> QED BY <1>a, <2>1, <2>2, <3>1, <3>2, <3>3, WorkerBooks
  <2> QED BY <2>3, <2>4
<1>12. ASSUME NEW w \in Workers, MarkRefundFailed(w) \/ RestoreStatus(w)
       PROVE  Accounts'
  <2>1. PICK o : o = plan[w].order
    OBVIOUS
  <2>2. /\ pc[w] \in {"failed", "restore"} /\ pc[w] \in Refunding
        /\ UNCHANGED <<taken, paidBack, rbFailed>>
        /\ \/ \E s : status' = [status EXCEPT ![o] = s]
           \/ UNCHANGED status
    BY <1>12, <2>1 DEF MarkRefundFailed, RestoreStatus, Refunding, Order
  <2>3. Moves(w) /\ pc'[w] = "idle"
    BY <1>12, LeaveTyped DEF MarkRefundFailed, RestoreStatus
  <2>4. paidBack[o] = 0 /\ Clean(o)
    BY <1>a, <2>1, <2>2 DEF Progress, Clean, Order
  <2>5. Books(o)'
    BY <1>a, <2>1, <2>2, <2>4 DEF Books, Clean
  <2>6. \A p \in Orders : p # o => status'[p] = status[p]
    BY <2>2 DEF Inv, Typed
  <2> QED BY <1>a, <2>1, <2>2, <2>3, <2>5, <2>6, WorkerBooks DEF Refunding
<1>13. ASSUME NEW w \in Workers, Crash(w)
       PROVE  Accounts'
  <2>1. Moves(w) /\ pc'[w] = "idle" /\ Kept
    BY <1>13, LeaveTyped DEF Crash
  <2>2. CASE pc[w] \notin Refunding
    BY <2>1, <2>2, OutsiderBooks DEF Refunding
  <2>3. CASE pc[w] \in Refunding
    <3>1. PICK o : o = plan[w].order
      OBVIOUS
    <3>2. Books(o)'
      BY <1>a, <2>1, <2>3, <3>1 DEF Books, Clean
    <3> QED BY <1>a, <2>1, <2>3, <3>1, <3>2, WorkerBooks DEF Refunding
  <2> QED BY <2>2, <2>3
<1>14. ASSUME Spend \/ UNCHANGED vars
       PROVE  Accounts'
  <2>1. UNCHANGED <<status, taken, paidBack, rbFailed, pc, plan>>
    BY <1>14 DEF Spend, vars
  <2> QED BY <2>1 DEF Accounts, Books, Progress, Clean, Order
<1> QED
  BY <1>1, <1>2, <1>3, <1>4, <1>5, <1>6, <1>7, <1>8, <1>9, <1>10, <1>11, <1>12,
     <1>13, <1>14 DEF Next, Continue

\* A step writes no fault or one.
LEMMA NextFaults ==
  ASSUME [Next]_vars
  PROVE  UNCHANGED faults \/ \E k \in AllFaults : Fault(k)
<1>1. ASSUME NEW w \in Workers, Continue(w) \/ Crash(w)
      PROVE  UNCHANGED faults \/ \E k \in AllFaults : Fault(k)
  BY <1>1, Zenon DEF Continue, WriteRequest, PrepareDeduct, LockRefund, SkipDeduct,
     TryDeduct, GatewayRefund, MarkRefundOk, RollbackRefund, WriteRollbackFailed,
     MarkRefundFailed, RestoreStatus, Crash, AllFaults
<1> QED BY <1>1 DEF Next, RequestRefund, PrepareRefund, Spend, vars

LEMMA AccountsInvariance == Spec => [](Misled \/ Accounts)
<1>1. Init => Inv /\ BooksTyped /\ Accounts
  BY InitInv, InitAccounts, NumberAssumption DEF Init, BooksTyped, FaultLog
<1>2. Inv /\ BooksTyped /\ (Misled \/ Accounts) /\ [Next]_vars
        => (Misled \/ Accounts)'
  BY NextAccounts, NextFaults, StaysMisled
<1> QED BY <1>1, <1>2, NextInv, NextBooks, PTL DEF Spec

\* The provider pays an order back once, through refusals, failed statements,
\* rollbacks, crashes and any number of retries by any number of admins, unless a
\* reply was lost or the audit log failed.
THEOREM RefundPaidBackOnce == Spec => []PaidBackOnce
<1>1. Misled \/ Accounts => PaidBackOnce
  BY DEF Accounts, Books, PaidBackOnce
<1> QED BY <1>1, AccountsInvariance, PTL

\* A refund that is retried after a failed rollback deducts nothing again, on the
\* same condition: the user never loses more than the price of the order.
THEOREM RefundDeductedOnce == Spec => []DeductedOnce
<1>1. Misled \/ Accounts => DeductedOnce
  BY DEF Accounts, Books, DeductedOnce
<1> QED BY <1>1, AccountsInvariance, PTL

-----------------------------------------------------------------------------
(* Refinement of RefundLedger.                                             *)

\* What misled the code before this step still does.
LEMMA SlipOK ==
  ASSUME Misled => Misled'
  PROVE  Misled' \in {Misled, TRUE}
  BY DEF Misled

\* A write of one order's status, as the ledger sees it.
LEMMA BecomesOK ==
  ASSUME NEW o \in Orders, status \in [Orders -> Statuses], NEW s \in Statuses,
         status' = [status EXCEPT ![o] = s], UNCHANGED <<taken, paidBack, rbFailed>>,
         NEW l, LedgerState(s) = l
  PROVE  Ledger!Becomes(o, l)
<1>1. [p \in Orders |-> LedgerState(status'[p])]
        = [[p \in Orders |-> LedgerState(status[p])] EXCEPT ![o] = l]
   OBVIOUS
<1> QED BY <1>1 DEF Ledger!Becomes, Ledger!books

\* A step that changes no books and no state of the ledger.
LEMMA SameBooks ==
  ASSUME Misled => Misled', UNCHANGED <<taken, paidBack, rbFailed>>,
     \A o \in Orders : LedgerState(status'[o]) = LedgerState(status[o])
  PROVE Ledger!Next
<1>1. [p \in Orders |-> LedgerState(status'[p])]
        = [p \in Orders |-> LedgerState(status[p])]
   OBVIOUS
<1>2. Misled' \in {Misled, TRUE}
  BY SlipOK
<1> QED BY <1>1, <1>2 DEF Ledger!Next, Ledger!books

LEMMA LedgerStates ==
  /\ LedgerState("REFUNDING") = "locked"
  /\ \A s \in Refundable : LedgerState(s) = "open"
  /\ \A s \in Refunded : LedgerState(s) = "refunded"
  BY DEF LedgerState, Refundable, Refunded

\* A statement that changes the books of one order under its lock.
LEMMA BooksStep ==
  ASSUME NEW o \in Orders, UNCHANGED status, status[o] = "REFUNDING",
         NEW n \in 1..Price,
         \/ /\ UNCHANGED <<paidBack, rbFailed>>
            /\ taken' = [taken EXCEPT ![o] = @ + n]
            /\ Misled' \/ (paidBack[o] = 0 /\ taken[o] = 0 /\ o \notin rbFailed)
         \/ /\ UNCHANGED <<paidBack, rbFailed>>
            /\ taken' = [taken EXCEPT ![o] = @ - n]
            /\ Misled' \/ (paidBack[o] = 0 /\ taken[o] = n)
  PROVE  Ledger!Refund(o)
<1>1. LedgerState(status[o]) = "locked"
  BY LedgerStates
<1>2. Ledger!Deduct(o, n) \/ Ledger!GiveBack(o, n)
  BY <1>1 DEF Ledger!Deduct, Ledger!GiveBack, Ledger!Relying
<1> QED BY <1>2 DEF Ledger!Refund

\* A payback, or a note that a deduction was not given back.
LEMMA PayStep ==
  ASSUME NEW o \in Orders, UNCHANGED <<status, taken>>, status[o] = "REFUNDING",
         Misled' \/ paidBack[o] = 0,
         \/ /\ UNCHANGED rbFailed /\ o \notin NoTrade
            /\ paidBack' = [paidBack EXCEPT ![o] = @ + 1]
         \/ UNCHANGED paidBack /\ rbFailed' = rbFailed \cup {o}
  PROVE  Ledger!Refund(o)
<1>1. LedgerState(status[o]) = "locked"
  BY LedgerStates
<1>2. Ledger!PayBack(o) \/ Ledger!Note(o)
  BY <1>1 DEF Ledger!PayBack, Ledger!Note, Ledger!Relying
<1> QED BY <1>2 DEF Ledger!Refund

\* A statement that writes the status of an order.
LEMMA StatusStep ==
  ASSUME NEW o \in Orders, status \in [Orders -> Statuses],
         UNCHANGED <<taken, paidBack, rbFailed>>, NEW s \in Statuses,
         status' = [status EXCEPT ![o] = s],
         \/ status[o] \in Refundable /\ s = "REFUNDING"
         \/ /\ status[o] = "REFUNDING" /\ s \in Refunded
            /\ o \in NoTrade \/ paidBack[o] >= 1
         \/ /\ status[o] = "REFUNDING" /\ s \in Refundable
            /\ Misled' \/ (paidBack[o] = 0 /\ (taken[o] = 0 \/ o \in rbFailed))
  PROVE  Ledger!Refund(o)
<1>1. Ledger!Becomes(o, LedgerState(s))
  BY BecomesOK
<1>2. Ledger!Lock(o) \/ Ledger!Finish(o) \/ Ledger!Release(o)
  BY <1>1, LedgerStates DEF Ledger!Lock, Ledger!Finish, Ledger!Release, Ledger!Relying
<1> QED BY <1>2 DEF Ledger!Refund

\* Faults are never undone, so a step of one order's ledger is one of the ledger.
LEMMA OneStep ==
  ASSUME NEW o \in Orders, Ledger!Refund(o), Misled => Misled'
  PROVE Ledger!Next
<1>1. Misled' \in {Misled, TRUE}
  BY SlipOK
<1> QED BY <1>1 DEF Ledger!Next

\* Each action of a request is one step of the ledger on its order, or none: what
\* the refund relies on is what Progress says of it.
LEMMA LedgerStep ==
  ASSUME Inv, BooksTyped, Misled \/ Accounts, Next
  PROVE  Ledger!Next
<1> USE DEF money
<1> DEFINE Kept == UNCHANGED <<status, taken, paidBack, rbFailed>>
<1>0. Misled => Misled'
  BY NextFaults, StaysMisled
<1>1. ASSUME Kept PROVE Ledger!Next
  BY <1>0, <1>1, SameBooks
<1>2. ASSUME NEW w \in Workers, NEW o, o = plan[w].order, pc[w] \in Refunding
      PROVE  /\ o \in Orders /\ status[o] = "REFUNDING" /\ plan[w].take \in 0..Price
             /\ Misled' \/ Progress(w)
  BY <1>0, <1>2 DEF Accounts, Inv, Typed, WorkIsLocked, Order, Refunding
<1>3. ASSUME NEW w \in Workers, NEW o \in Orders,
             \/ RequestRefund(w, o)
             \/ \E amount \in 1..Price, deduct \in BOOLEAN :
                   PrepareRefund(w, o, amount, deduct)
      PROVE  Kept
  BY <1>3 DEF RequestRefund, PrepareRefund
<1>4. ASSUME NEW w \in Workers, PrepareDeduct(w) \/ SkipDeduct(w) \/ Crash(w)
      PROVE  Kept
  BY <1>4 DEF PrepareDeduct, SkipDeduct, Crash
<1>5. ASSUME NEW w \in Workers, WriteRequest(w)
      PROVE  Ledger!Next
  <2>1. UNCHANGED <<taken, paidBack, rbFailed>>
    BY <1>5 DEF WriteRequest
  <2>2. \A o \in Orders : \/ status'[o] = status[o]
                          \/ status[o] \in Refundable /\ status'[o] \in Refundable
    BY <1>5 DEF WriteRequest, Refundable, Inv, Typed
  <2>3. \A o \in Orders : LedgerState(status'[o]) = LedgerState(status[o])
    BY <2>2, LedgerStates
  <2> QED BY <1>0, <2>1, <2>3, SameBooks
<1>6. ASSUME NEW w \in Workers, LockRefund(w)
      PROVE  Ledger!Next
  <2>1. PICK o : o = plan[w].order
    OBVIOUS
  <2>2. o \in Orders /\ UNCHANGED <<taken, paidBack, rbFailed>>
    BY <1>6, <2>1 DEF LockRefund, Inv, Typed
  <2>3. \/ Kept
        \/ status[o] \in Refundable /\ status' = [status EXCEPT ![o] = "REFUNDING"]
    BY <1>6, <2>1 DEF LockRefund, CanLock, Order
  <2> QED BY <1>0, <1>1, <2>2, <2>3, StatusStep, OneStep DEF Inv, Typed, Statuses
<1>7. ASSUME NEW w \in Workers, TryDeduct(w)
      PROVE  Ledger!Next
  <2>1. PICK o : o = plan[w].order
    OBVIOUS
  <2>2. /\ pc[w] = "deduct" /\ pc[w] \in Refunding /\ plan[w].take > 0
        /\ UNCHANGED <<status, paidBack, rbFailed>>
    BY <1>7 DEF TryDeduct, Refunding
  <2>3. \/ Kept
        \/ /\ taken' = [taken EXCEPT ![o] = @ + plan[w].take]
           /\ o \notin rbFailed \/ Fault("blind")
    BY <1>7, <2>1, <2>2 DEF TryDeduct, DeductedBefore, Deduct, Order
  <2>4. Misled' \/ o \in rbFailed \/ (paidBack[o] = 0 /\ taken[o] = 0)
    BY <1>2, <2>1, <2>2 DEF Progress, Clean, Order
  <2>5. plan[w].take \in 1..Price
    BY <1>2, <2>1, <2>2, NumberAssumption
  <2> QED BY <1>0, <1>1, <1>2, <2>1, <2>2, <2>3, <2>4, <2>5, Misleads, BooksStep, OneStep
<1>8. ASSUME NEW w \in Workers, GatewayRefund(w)
      PROVE  Ledger!Next
  <2>1. PICK o : o = plan[w].order
    OBVIOUS
  <2>2. /\ pc[w] = "gateway" /\ pc[w] \in Refunding
        /\ UNCHANGED <<status, taken, rbFailed>>
    BY <1>8 DEF GatewayRefund, Refunding
  <2>3. \/ Kept
        \/ o \notin NoTrade /\ paidBack' = [paidBack EXCEPT ![o] = @ + 1]
    BY <1>8, <2>1, <2>2 DEF GatewayRefund, Order
  <2>4. Misled' \/ paidBack[o] = 0
    BY <1>2, <2>1, <2>2 DEF Progress, Order
  <2> QED BY <1>0, <1>1, <1>2, <2>1, <2>2, <2>3, <2>4, PayStep, OneStep
<1>9. ASSUME NEW w \in Workers, MarkRefundOk(w)
      PROVE  Ledger!Next
  <2>1. PICK o : o = plan[w].order
    OBVIOUS
  <2>2. /\ pc[w] = "mark" /\ pc[w] \in Refunding
        /\ UNCHANGED <<taken, paidBack, rbFailed>>
        /\ \/ \E s \in Refunded : status' = [status EXCEPT ![o] = s]
           \/ UNCHANGED status
    BY <1>9, <2>1 DEF MarkRefundOk, Refunding, Refunded, Order
  <2>3. o \in NoTrade \/ paidBack[o] >= 1
    BY <2>1, <2>2 DEF Inv, MarkIsPaid, Order
  <2> QED BY <1>0, <1>1, <1>2, <2>1, <2>2, <2>3, StatusStep, OneStep DEF Inv, Typed, Statuses
<1>10. ASSUME NEW w \in Workers, RollbackRefund(w)
       PROVE  Ledger!Next
  <2>1. PICK o : o = plan[w].order
    OBVIOUS
  <2>2. /\ pc[w] = "rollback" /\ pc[w] \in Refunding
        /\ UNCHANGED <<status, paidBack, rbFailed>>
        /\ \/ UNCHANGED taken
           \/ plan[w].take > 0 /\ taken' = [taken EXCEPT ![o] = @ - plan[w].take]
    BY <1>10, <2>1 DEF RollbackRefund, GiveBack, Refunding, Order
  <2>3. Misled' \/ (paidBack[o] = 0 /\ (plan[w].take > 0 => taken[o] = plan[w].take))
    BY <1>2, <2>1, <2>2 DEF Progress, Order
  <2>4. plan[w].take > 0 => plan[w].take \in 1..Price
    BY <1>2, <2>1, <2>2, NumberAssumption
  <2> QED BY <1>0, <1>1, <1>2, <2>1, <2>2, <2>3, <2>4, BooksStep, OneStep
<1>11. ASSUME NEW w \in Workers, WriteRollbackFailed(w)
       PROVE  Ledger!Next
  <2>1. PICK o : o = plan[w].order
    OBVIOUS
  <2>2. /\ pc[w] = "audit" /\ pc[w] \in Refunding
        /\ UNCHANGED <<status, taken, paidBack>>
        /\ rbFailed' = rbFailed \cup {o} \/ UNCHANGED rbFailed
    BY <1>11, <2>1 DEF WriteRollbackFailed, Refunding, Order
  <2>3. Misled' \/ paidBack[o] = 0
    BY <1>2, <2>1, <2>2 DEF Progress, Order
  <2> QED BY <1>0, <1>1, <1>2, <2>1, <2>2, <2>3, PayStep, OneStep
<1>12. ASSUME NEW w \in Workers, MarkRefundFailed(w) \/ RestoreStatus(w)
       PROVE  Ledger!Next
  <2>1. PICK o : o = plan[w].order
    OBVIOUS
  <2>2. /\ pc[w] \in {"failed", "restore"} /\ pc[w] \in Refunding
        /\ UNCHANGED <<taken, paidBack, rbFailed>>
        /\ \/ \E s \in Refundable : status' = [status EXCEPT ![o] = s]
           \/ UNCHANGED status
    BY <1>12, <2>1 DEF MarkRefundFailed, RestoreStatus, Restored, Refunding,
                       Refundable, Order
  <2>3. Misled' \/ (paidBack[o] = 0 /\ (taken[o] = 0 \/ o \in rbFailed))
    BY <1>2, <2>1, <2>2 DEF Progress, Clean, Order
  <2> QED BY <1>0, <1>1, <1>2, <2>1, <2>2, <2>3, StatusStep, OneStep DEF Inv, Typed, Statuses
<1>13. CASE Spend
  BY <1>1, <1>13 DEF Spend
<1> QED
  BY <1>1, <1>3, <1>4, <1>5, <1>6, <1>7, <1>8, <1>9, <1>10, <1>11, <1>12, <1>13
     DEF Next, Continue

\* The requests implement RefundLedger: whatever fails and however they interleave,
\* an order is locked, its books change under the lock with their state known, and
\* the lock ends refunded and paid, or open with nothing deducted that is not noted.
THEOREM RefundKeepsLedger == Spec => ImplementsRefundLedger
<1>1. Init => Ledger!Init
  <2> SUFFICES ASSUME Init PROVE Ledger!Init
    OBVIOUS
  <2>1. \A o \in Orders : LedgerState(status[o]) = "open"
    BY LedgerStates DEF Init, Refundable
  <2>2. ~Misled
    BY DEF Init, Misled
  <2> QED BY <2>1, <2>2 DEF Ledger!Init, Init
<1>2. Inv /\ BooksTyped /\ (Misled \/ Accounts) /\ [Next]_vars
        => [Ledger!Next]_(Ledger!vars)
  <2> SUFFICES ASSUME Inv, BooksTyped, Misled \/ Accounts, UNCHANGED vars
               PROVE  UNCHANGED Ledger!vars
    BY LedgerStep
  <2> QED BY DEF vars, money, Ledger!vars, Ledger!books, Misled
<1> QED
  BY <1>1, <1>2, BooksInvariance, Invariance, AccountsInvariance, PTL
     DEF Spec, ImplementsRefundLedger, Ledger!Spec

\* How the state of an order may move, and all that PaymentOrder assumes of refunds
\* (RefundStarts and RefundEnds there): only an order that is complete is locked, and
\* the lock ends in the completed order or in a refunded one, which is final.
LedgerMoves == {<<"open", "locked">>, <<"locked", "open">>, <<"locked", "refunded">>}

OnlyLedgerMoves ==
    \A o \in Orders :
        LET s == LedgerState(status[o])
            t == LedgerState(status'[o])
        IN  s = t \/ <<s, t>> \in LedgerMoves

\* The status writes of the refund code, which mostly ask for no status, move an
\* order only as the order lifecycle is modelled to expect it.
THEOREM RefundMovesAsAssumed == Spec => [][OnlyLedgerMoves]_vars
<1>1. ASSUME Ledger!Next
      PROVE  OnlyLedgerMoves
  <2> DEFINE S == [p \in Orders |-> LedgerState(status[p])]
             T == [p \in Orders |-> LedgerState(status'[p])]
  <2>1. T = S \/ \E o \in Orders : Ledger!Refund(o)
    BY <1>1 DEF Ledger!Next
  <2>2. ASSUME NEW o \in Orders, Ledger!Refund(o)
        PROVE  \/ T = S
               \/ S[o] = "open"   /\ T = [S EXCEPT ![o] = "locked"]
               \/ S[o] = "locked" /\ T = [S EXCEPT ![o] = "open"]
               \/ S[o] = "locked" /\ T = [S EXCEPT ![o] = "refunded"]
    <3>1. CASE Ledger!Lock(o) \/ Ledger!Finish(o) \/ Ledger!Release(o)
      BY <3>1 DEF Ledger!Lock, Ledger!Finish, Ledger!Release, Ledger!Becomes
    <3>2. CASE Ledger!PayBack(o) \/ Ledger!Note(o)
      BY <3>2 DEF Ledger!PayBack, Ledger!Note
    <3>3. CASE \E n \in 1..Price : Ledger!Deduct(o, n) \/ Ledger!GiveBack(o, n)
      BY <3>3 DEF Ledger!Deduct, Ledger!GiveBack
    <3> QED BY <2>2, <3>1, <3>2, <3>3 DEF Ledger!Refund
  <2>3. ASSUME NEW o \in Orders
        PROVE  S[o] = T[o] \/ <<S[o], T[o]>> \in LedgerMoves
    <3>1. DOMAIN S = Orders /\ S = [p \in Orders |-> S[p]]
      OBVIOUS
    <3> HIDE DEF S, T
    <3> QED BY <2>1, <2>2, <3>1 DEF LedgerMoves
  <2> QED BY <2>3 DEF OnlyLedgerMoves
<1>2. Inv /\ BooksTyped /\ (Misled \/ Accounts) /\ [Next]_vars => [OnlyLedgerMoves]_vars
  BY <1>1, LedgerStep
<1> QED BY <1>2, BooksInvariance, Invariance, AccountsInvariance, PTL DEF Spec

-----------------------------------------------------------------------------
(* What refunds cost when the code is misled.                              *)

\* What the failures so far excuse, and what the provider has paid out.
Fee == Price * faults.count
Paid(o) == Price * paidBack[o]

\* A deduction that was not given back and is noted is not made again.
Excused(o) == Fee + (IF o \in rbFailed THEN Price ELSE 0)

\* The cost of an order, at most what is excused when it can be refunded.
Costs(o) ==
    /\ taken[o] >= 0
    /\ Paid(o) + taken[o] <= Fee + 2 * Price
    /\ status[o] \in Refundable => Paid(o) + taken[o] <= Excused(o)

\* The same at each step of a refund, apart from its own deduction.
Spends(w) ==
    LET o == Order(w)
        take == plan[w].take
    IN
    /\ pc[w] \in {"deduct", "restore", "failed"} => Paid(o) + taken[o] <= Excused(o)
    /\ pc[w] \in {"gateway", "rollback"} =>
          /\ take > 0 => taken[o] >= take /\ Paid(o) + taken[o] - take <= Fee
          /\ take = 0 => Paid(o) + taken[o] <= Excused(o)
    /\ pc[w] = "audit" => Paid(o) + taken[o] <= Fee + Price

CostsOK ==
    /\ \A o \in Orders : Costs(o)
    /\ \A w \in Workers : pc[w] \in Refunding => Spends(w)

\* A failure excuses one price more, and a payback costs one.
LEMMA Prices ==
  ASSUME NEW n \in Nat
  PROVE  Price * n \in Nat /\ Price * (n + 1) = Price * n + Price
  BY NumberAssumption

\* How the quantities change.
LEMMA CostsCounted ==
  ASSUME BooksTyped, Inv
  PROVE  /\ Fee \in Nat /\ Price \in Nat /\ Price > 0
         /\ \A o \in Orders : Paid(o) \in Nat /\ taken[o] \in Int
         /\ \A k \in AllFaults : Fault(k) => Fee' = Fee + Price
         /\ UNCHANGED faults => Fee' = Fee
         /\ \A o \in Orders : paidBack'[o] = paidBack[o] => Paid(o)' = Paid(o)
         /\ \A o \in Orders : paidBack'[o] = paidBack[o] + 1 => Paid(o)' = Paid(o) + Price
<1>1. faults.count \in Nat
  BY NumberAssumption DEF BooksTyped, FaultLog
<1>2. \A o \in Orders : paidBack[o] \in Nat /\ taken[o] \in Int
  BY DEF BooksTyped, Inv, Typed
<1>3. Price \in Nat /\ Price > 0
  BY NumberAssumption
<1>4. ASSUME NEW k, Fault(k) PROVE Fee' = Fee + Price
  BY <1>1, <1>4, Prices DEF Fault, Fee
<1> QED BY <1>1, <1>2, <1>3, <1>4, Prices DEF Fee, Paid

LEMMA InitCosts == Init => CostsOK
  BY OrderAssumption, NumberAssumption
     DEF Init, CostsOK, Costs, Spends, Excused, Paid, Fee, Refunding

\* A refund at work spends on its own order only, and a failure excuses the others
\* as well.
LEMMA WorkerCosts ==
  ASSUME Inv, BooksTyped, CostsOK, NEW w \in Workers, Moves(w), pc[w] \in Refunding,
         Fee' \in {Fee, Fee + Price},
         NEW o \in Orders, o = plan[w].order,
         \A p \in Orders : p # o =>
             /\ status'[p] = status[p]
             /\ taken'[p] = taken[p]
             /\ Paid(p)' = Paid(p)
             /\ p \in rbFailed' <=> p \in rbFailed,
         Costs(o)',
         pc'[w] \in Refunding => Spends(w)'
  PROVE  CostsOK'
<1>0. Fee \in Nat /\ Price \in Nat /\ \A p \in Orders : Paid(p) \in Nat /\ taken[p] \in Int
  BY CostsCounted
<1>1. \A v \in Workers : v # w => pc'[v] = pc[v] /\ plan'[v] = plan[v]
  BY DEF Moves, Inv, Typed
<1>2. ASSUME NEW p \in Orders
      PROVE  Costs(p)'
  <2>1. CASE p = o
    BY <2>1
  <2>2. CASE p # o
    BY <1>0, <2>2 DEF CostsOK, Costs, Excused
  <2> QED BY <2>1, <2>2
<1>3. ASSUME NEW v \in Workers, pc'[v] \in Refunding
      PROVE  Spends(v)'
  <2>1. CASE v = w
    BY <1>3, <2>1
  <2>2. CASE v # w
    <3>1. pc[v] \in Refunding /\ pc'[v] = pc[v] /\ plan'[v] = plan[v]
      BY <1>1, <1>3, <2>2
    <3>2. PICK p \in Orders : p = plan[v].order /\ p # o
      BY <2>2, <3>1 DEF Inv, OneRefund, Typed, Order, Refunding
    <3>3. Spends(v) /\ plan[v].take \in Int
      BY <3>1 DEF CostsOK, Inv, Typed
    <3> QED BY <1>0, <3>1, <3>2, <3>3 DEF Spends, Excused, Order
  <2> QED BY <2>1, <2>2
<1> QED BY <1>2, <1>3 DEF CostsOK

\* A request outside the lock spends nothing, and makes no order refundable.
LEMMA OutsiderCosts ==
  ASSUME Inv, BooksTyped, CostsOK, NEW w \in Workers, Moves(w),
         pc[w] \notin Refunding, pc'[w] \notin Refunding,
         Fee' \in {Fee, Fee + Price},
         UNCHANGED <<taken, paidBack, rbFailed>>,
         \A o \in Orders : status'[o] \in Refundable => status[o] \in Refundable
  PROVE  CostsOK'
<1>0. Fee \in Nat /\ Price \in Nat /\ \A p \in Orders : Paid(p) \in Nat /\ taken[p] \in Int
  BY CostsCounted
<1>1. \A v \in Workers : v # w => pc'[v] = pc[v] /\ plan'[v] = plan[v]
  BY DEF Moves, Inv, Typed
<1>2. \A o \in Orders : Paid(o)' = Paid(o)
  BY CostsCounted
<1>3. \A o \in Orders : Costs(o)'
  BY <1>0, <1>2 DEF CostsOK, Costs, Excused
<1>4. ASSUME NEW v \in Workers, pc'[v] \in Refunding
      PROVE  Spends(v)'
  <2>1. v # w /\ pc'[v] = pc[v] /\ plan'[v] = plan[v]
    BY <1>1, <1>4
  <2>2. PICK p \in Orders : p = plan[v].order
    BY <1>4, <2>1 DEF Inv, Typed, Refunding
  <2>3. Spends(v) /\ plan[v].take \in Int
    BY <1>4, <2>1 DEF CostsOK, Inv, Typed
  <2> QED BY <1>0, <1>2, <2>1, <2>2, <2>3 DEF Spends, Excused, Order
<1> QED BY <1>3, <1>4 DEF CostsOK

\* The refund that takes the lock finds the cost of the order excused.
LEMMA LockCosts ==
  ASSUME Inv, BooksTyped, CostsOK, NEW w \in Workers, LockRefund(w),
         Fee' \in {Fee, Fee + Price}
  PROVE  CostsOK'
<1>1. PICK o \in Orders : o = plan[w].order
  BY DEF LockRefund, Inv, Typed
<1>2. pc[w] = "lock" /\ UNCHANGED <<taken, paidBack, rbFailed>>
  BY DEF LockRefund, money
<1>3. \A p \in Orders : status'[p] \in Refundable => status[p] \in Refundable
  BY <1>1 DEF LockRefund, Order, Refundable, Inv, Typed
<1>4. CASE Leave(w)
  <2>1. Moves(w) /\ pc'[w] = "idle"
    BY <1>4, LeaveTyped
  <2> QED BY <1>2, <1>3, <2>1, OutsiderCosts DEF Refunding
<1>5. CASE ~Leave(w)
  <2>1. status[o] \in Refundable /\ Goto(w, "deduct") /\ UNCHANGED faults
    BY <1>1, <1>5 DEF LockRefund, CanLock, Order
  <2>2. /\ pc'[w] = "deduct" /\ plan' = plan
        /\ \A v \in Workers : v # w => pc'[v] = pc[v]
    BY <2>1 DEF Goto, Inv, Typed
  <2>3. Fee' = Fee /\ \A p \in Orders : Paid(p)' = Paid(p) /\ Excused(p)' = Excused(p)
    BY <1>2, <2>1, CostsCounted DEF Excused
  <2>4. \A p \in Orders : Costs(p)'
    BY <1>2, <1>3, <2>3 DEF CostsOK, Costs
  <2>5. Spends(w)'
    BY <1>1, <1>2, <2>1, <2>2, <2>3 DEF CostsOK, Costs, Spends, Order
  <2>6. ASSUME NEW v \in Workers, v # w, pc'[v] \in Refunding
        PROVE  Spends(v)'
    <3>1. PICK p \in Orders : p = plan[v].order
      BY <2>2, <2>6 DEF Inv, Typed, Refunding
    <3> QED BY <1>2, <2>2, <2>3, <2>6, <3>1 DEF CostsOK, Spends, Order
  <2> QED BY <2>4, <2>5, <2>6 DEF CostsOK
<1> QED BY <1>4, <1>5

LEMMA NextCosts ==
  ASSUME Inv, BooksTyped, CostsOK, Next
  PROVE  CostsOK'
<1> USE DEF money
<1> DEFINE Kept == UNCHANGED <<status, taken, paidBack, rbFailed>>
<1>0. /\ Fee' \in {Fee, Fee + Price}
      /\ Fee \in Nat /\ Price \in Nat /\ Price > 0
  BY CostsCounted, NextFaults
<1>a. ASSUME NEW w \in Workers, NEW o, o = plan[w].order, pc[w] \in Refunding
      PROVE  /\ o \in Orders /\ Costs(o) /\ Spends(w)
             /\ Paid(o) \in Nat /\ taken[o] \in Int
             /\ plan[w].take \in 0..Price
             /\ status[o] \notin Refundable
  <2>1. o \in Orders /\ plan[w].take \in 0..Price /\ status[o] = "REFUNDING"
    BY <1>a DEF Inv, Typed, WorkIsLocked, Order, Refunding
  <2>2. Costs(o) /\ Spends(w)
    BY <1>a, <2>1 DEF CostsOK
  <2> QED BY <2>1, <2>2, CostsCounted DEF Refundable
<1>1. ASSUME NEW w \in Workers, Moves(w), pc[w] \notin Refunding,
             pc'[w] \notin Refunding, Kept
      PROVE  CostsOK'
  BY <1>0, <1>1, OutsiderCosts
<1>2. ASSUME NEW w \in Workers, NEW o \in Orders, RequestRefund(w, o)
      PROVE  CostsOK'
  <2>1. Moves(w) /\ pc[w] = "idle" /\ pc'[w] = "request" /\ Kept
    BY <1>2 DEF RequestRefund, Inv, Typed, Moves
  <2> QED BY <1>1, <2>1 DEF Refunding
<1>3. ASSUME NEW w \in Workers, NEW o \in Orders, NEW amount \in 1..Price,
             NEW deduct \in BOOLEAN, PrepareRefund(w, o, amount, deduct)
      PROVE  CostsOK'
  <2>1. Moves(w) /\ pc[w] = "idle" /\ pc'[w] \in {"prepare", "lock"} /\ Kept
    BY <1>3 DEF PrepareRefund, Inv, Typed, Moves
  <2> QED BY <1>1, <2>1 DEF Refunding
<1>4. ASSUME NEW w \in Workers, WriteRequest(w)
      PROVE  CostsOK'
  <2>1. /\ Moves(w) /\ pc[w] = "request" /\ pc'[w] = "idle"
        /\ UNCHANGED <<taken, paidBack, rbFailed>>
    BY <1>4, LeaveTyped DEF WriteRequest
  <2>2. \A o \in Orders : status'[o] \in Refundable => status[o] \in Refundable
    BY <1>4 DEF WriteRequest, Refundable, Inv, Typed
  <2> QED BY <1>0, <2>1, <2>2, OutsiderCosts DEF Refunding
<1>5. ASSUME NEW w \in Workers, PrepareDeduct(w)
      PROVE  CostsOK'
  <2>1. pc[w] = "prepare" /\ Kept
    BY <1>5 DEF PrepareDeduct
  <2>2. \/ Leave(w)
        \/ \E take : /\ plan' = [plan EXCEPT ![w].take = take]
                     /\ pc'   = [pc EXCEPT ![w] = "lock"]
    BY <1>5, Zenon DEF PrepareDeduct
  <2>3. Moves(w) /\ pc'[w] \in {"idle", "lock"}
    BY <2>2, LeaveTyped DEF Moves, Inv, Typed
  <2> QED BY <1>1, <2>1, <2>3 DEF Refunding
<1>6. ASSUME NEW w \in Workers, LockRefund(w)
      PROVE  CostsOK'
  BY <1>0, <1>6, LockCosts
<1>7. ASSUME NEW w \in Workers, SkipDeduct(w)
      PROVE  CostsOK'
  <2>1. PICK o : o = plan[w].order
    OBVIOUS
  <2>2. pc[w] = "deduct" /\ pc[w] \in Refunding /\ Kept /\ UNCHANGED faults
    BY <1>7 DEF SkipDeduct, Refunding
  <2>3. /\ Moves(w) /\ pc'[w] = "gateway"
        /\ plan'[w].order = o /\ plan'[w].take = 0
    BY <1>7, <2>1 DEF SkipDeduct, Moves, Inv, Typed
  <2>4. Fee' = Fee /\ \A p \in Orders : Paid(p)' = Paid(p) /\ Excused(p)' = Excused(p)
    BY <2>2, CostsCounted DEF Excused
  <2>5. Costs(o)' /\ Spends(w)'
    BY <1>a, <2>1, <2>2, <2>3, <2>4 DEF Costs, Spends, Order
  <2> QED BY <1>0, <1>a, <2>1, <2>2, <2>3, <2>4, <2>5, WorkerCosts
<1>8. ASSUME NEW w \in Workers, TryDeduct(w)
      PROVE  CostsOK'
  <2>1. PICK o : o = plan[w].order
    OBVIOUS
  <2>2. /\ pc[w] = "deduct" /\ pc[w] \in Refunding /\ plan[w].take > 0
        /\ UNCHANGED <<status, paidBack, rbFailed>>
    BY <1>8 DEF TryDeduct, Refunding
  <2>3. \/ /\ o \notin rbFailed /\ Goto(w, "gateway")
           /\ taken' = [taken EXCEPT ![o] = @ + plan[w].take]
        \/ /\ Fee' = Fee + Price
           /\ Goto(w, "restore") \/ Goto(w, "gateway")
           /\ taken' = [taken EXCEPT ![o] = @ + plan[w].take]
        \/ Goto(w, "restore") /\ UNCHANGED taken
    BY <1>8, <2>1, CostsCounted DEF TryDeduct, DeductedBefore, Deduct, Order, AllFaults
  <2>4. Moves(w) /\ plan' = plan /\ pc'[w] \in {"gateway", "restore"}
    BY <2>2, <2>3, GotoTyped DEF Steps, Refunding
  <2>5. pc'[w] = "gateway" \/ pc'[w] = "restore"
    BY <2>4
  <2>6. \A p \in Orders : Paid(p)' = Paid(p)
    BY <2>2, CostsCounted
  <2>7. \A p \in Orders : p # o => taken'[p] = taken[p]
    BY <2>3 DEF BooksTyped
  <2>8. \/ /\ o \notin rbFailed /\ pc'[w] = "gateway"
           /\ taken'[o] = taken[o] + plan[w].take
        \/ Fee' = Fee + Price /\ taken'[o] = taken[o] + plan[w].take
        \/ pc'[w] = "restore" /\ taken'[o] = taken[o]
    BY <1>a, <2>1, <2>2, <2>3 DEF Goto, Inv, Typed, BooksTyped
  <2>9. Paid(o) + taken[o] <= Excused(o)
    BY <1>a, <2>1, <2>2 DEF Spends, Order
  <2>10. Costs(o)' /\ Spends(w)'
    BY <1>0, <1>a, <2>1, <2>2, <2>4, <2>5, <2>6, <2>8, <2>9
       DEF Costs, Spends, Excused, Order
  <2> QED BY <1>0, <1>a, <2>1, <2>2, <2>4, <2>6, <2>7, <2>10, WorkerCosts
<1>9. ASSUME NEW w \in Workers, GatewayRefund(w)
      PROVE  CostsOK'
  <2>1. PICK o : o = plan[w].order
    OBVIOUS
  <2>2. pc[w] = "gateway" /\ pc[w] \in Refunding
          /\ UNCHANGED <<status, taken, rbFailed>>
    BY <1>9 DEF GatewayRefund, Refunding
  <2>3. \/ Goto(w, "mark") /\ UNCHANGED paidBack
        \/ Goto(w, "mark") /\ paidBack' = [paidBack EXCEPT ![o] = @ + 1]
        \/ /\ Goto(w, "rollback") /\ Fee' = Fee + Price
           /\ UNCHANGED paidBack \/ paidBack' = [paidBack EXCEPT ![o] = @ + 1]
    BY <1>9, <2>1, CostsCounted DEF GatewayRefund, OnGatewayError, Order, AllFaults
  <2>4. Moves(w) /\ plan' = plan
    BY <2>2, <2>3, GotoTyped DEF Steps, Refunding
  <2>5. \A p \in Orders : p # o => paidBack'[p] = paidBack[p]
    BY <2>3 DEF Inv, Typed
  <2>6. \/ pc'[w] = "mark"
        \/ pc'[w] = "rollback" /\ Fee' = Fee + Price
    BY <2>3 DEF Goto, Inv, Typed
  <2>7. Paid(o)' = Paid(o) \/ Paid(o)' = Paid(o) + Price
    <3>1. paidBack'[o] = paidBack[o] \/ paidBack'[o] = paidBack[o] + 1
      BY <1>a, <2>1, <2>2, <2>3 DEF Inv, Typed
    <3> QED BY <1>a, <2>1, <2>2, <3>1, CostsCounted
  <2>8. \A p \in Orders : p # o => Paid(p)' = Paid(p)
    BY <2>5, CostsCounted
  <2>9. /\ plan[w].take > 0 =>
              taken[o] >= plan[w].take /\ Paid(o) + taken[o] - plan[w].take <= Fee
        /\ plan[w].take = 0 => Paid(o) + taken[o] <= Excused(o)
    BY <1>a, <2>1, <2>2 DEF Spends, Order
  <2>10. Paid(o)' + taken[o] <= Fee' + 2 * Price
    BY <1>0, <1>a, <2>1, <2>2, <2>7, <2>9 DEF Excused
  <2>11. Costs(o)' /\ Spends(w)'
    BY <1>0, <1>a, <2>1, <2>2, <2>4, <2>6, <2>7, <2>9, <2>10
       DEF Costs, Spends, Excused, Order
  <2> QED BY <1>0, <1>a, <2>1, <2>2, <2>4, <2>8, <2>11, WorkerCosts
<1>10. ASSUME NEW w \in Workers, MarkRefundOk(w)
       PROVE  CostsOK'
  <2>1. PICK o : o = plan[w].order
    OBVIOUS
  <2>2. /\ pc[w] \in Refunding /\ UNCHANGED <<taken, paidBack, rbFailed>>
        /\ \/ \E s \in Refunded : status' = [status EXCEPT ![o] = s]
           \/ UNCHANGED status
    BY <1>10, <2>1 DEF MarkRefundOk, Refunding, Refunded, Order
  <2>3. Moves(w) /\ pc'[w] = "idle"
    BY <1>10, LeaveTyped DEF MarkRefundOk
  <2>4. status'[o] \notin Refundable /\ \A p \in Orders : p # o => status'[p] = status[p]
    BY <1>a, <2>1, <2>2 DEF Refundable, Refunded, Inv, Typed
  <2>5. \A p \in Orders : Paid(p)' = Paid(p)
    BY <2>2, CostsCounted
  <2>6. Costs(o)'
    BY <1>0, <1>a, <2>1, <2>2, <2>4, <2>5 DEF Costs
  <2> QED BY <1>0, <1>a, <2>1, <2>2, <2>3, <2>4, <2>5, <2>6, WorkerCosts DEF Refunding
<1>11. ASSUME NEW w \in Workers, RollbackRefund(w)
       PROVE  CostsOK'
  <2>1. PICK o : o = plan[w].order
    OBVIOUS
  <2>2. pc[w] = "rollback" /\ pc[w] \in Refunding
          /\ UNCHANGED <<status, paidBack, rbFailed>>
    BY <1>11 DEF RollbackRefund, Refunding
  <2>3. \/ plan[w].take = 0 /\ Goto(w, "restore") /\ UNCHANGED taken
        \/ /\ plan[w].take > 0
           /\ Goto(w, "restore") \/ Goto(w, "audit")
           /\ taken' = [taken EXCEPT ![o] = @ - plan[w].take]
        \/ plan[w].take > 0 /\ Goto(w, "audit") /\ UNCHANGED taken
    BY <1>11, <2>1 DEF RollbackRefund, GiveBack, Order
  <2>4. Moves(w) /\ plan' = plan
    BY <2>2, <2>3, GotoTyped DEF Steps, Refunding
  <2>5. \A p \in Orders : p # o => taken'[p] = taken[p]
    BY <2>3 DEF BooksTyped
  <2>6. \A p \in Orders : Paid(p)' = Paid(p)
    BY <2>2, CostsCounted
  <2>7. \/ plan[w].take = 0 /\ pc'[w] = "restore" /\ taken'[o] = taken[o]
        \/ /\ plan[w].take > 0 /\ pc'[w] \in {"restore", "audit"}
           /\ taken'[o] = taken[o] - plan[w].take
        \/ plan[w].take > 0 /\ pc'[w] = "audit" /\ taken'[o] = taken[o]
    BY <1>a, <2>1, <2>2, <2>3 DEF Goto, Inv, Typed, BooksTyped
  <2>8. /\ plan[w].take > 0 =>
              taken[o] >= plan[w].take /\ Paid(o) + taken[o] - plan[w].take <= Fee
        /\ plan[w].take = 0 => Paid(o) + taken[o] <= Excused(o)
    BY <1>a, <2>1, <2>2 DEF Spends, Order
  <2>9. Costs(o)'
    BY <1>0, <1>a, <2>1, <2>2, <2>6, <2>7, <2>8 DEF Costs
  <2>10. Spends(w)'
    BY <1>0, <1>a, <2>1, <2>2, <2>4, <2>6, <2>7, <2>8 DEF Spends, Excused, Order
  <2> QED BY <1>0, <1>a, <2>1, <2>2, <2>4, <2>5, <2>6, <2>9, <2>10, WorkerCosts
<1>12. ASSUME NEW w \in Workers, WriteRollbackFailed(w)
       PROVE  CostsOK'
  <2>1. PICK o : o = plan[w].order
    OBVIOUS
  <2>2. pc[w] = "audit" /\ pc[w] \in Refunding
          /\ UNCHANGED <<status, taken, paidBack>> /\ Goto(w, "failed")
    BY <1>12 DEF WriteRollbackFailed, Refunding
  <2>3. \/ rbFailed' = rbFailed \cup {o}
        \/ UNCHANGED rbFailed /\ Fee' = Fee + Price
    BY <1>12, <2>1, CostsCounted DEF WriteRollbackFailed, Order, AllFaults
  <2>4. Moves(w) /\ plan' = plan /\ pc'[w] = "failed"
    BY <2>2, GotoTyped DEF Steps, Refunding
  <2>5. \A p \in Orders : Paid(p)' = Paid(p)
    BY <2>2, CostsCounted
  <2>6. Paid(o) + taken[o] <= Fee + Price
    BY <1>a, <2>1, <2>2 DEF Spends, Order
  <2>7. Costs(o)' /\ Spends(w)'
    BY <1>0, <1>a, <2>1, <2>2, <2>3, <2>4, <2>5, <2>6 DEF Costs, Spends, Excused, Order
  <2> QED BY <1>0, <1>a, <2>1, <2>2, <2>3, <2>4, <2>5, <2>7, WorkerCosts
<1>13. ASSUME NEW w \in Workers, MarkRefundFailed(w) \/ RestoreStatus(w)
       PROVE  CostsOK'
  <2>1. PICK o : o = plan[w].order
    OBVIOUS
  <2>2. /\ pc[w] \in {"failed", "restore"} /\ pc[w] \in Refunding
        /\ UNCHANGED <<taken, paidBack, rbFailed>>
        /\ \/ \E s : status' = [status EXCEPT ![o] = s]
           \/ UNCHANGED status
    BY <1>13, <2>1 DEF MarkRefundFailed, RestoreStatus, Refunding, Order
  <2>3. Moves(w) /\ pc'[w] = "idle"
    BY <1>13, LeaveTyped DEF MarkRefundFailed, RestoreStatus
  <2>4. \A p \in Orders : Paid(p)' = Paid(p)
    BY <2>2, CostsCounted
  <2>5. Paid(o) + taken[o] <= Excused(o)
    BY <1>a, <2>1, <2>2 DEF Spends, Order
  <2>6. Costs(o)'
    BY <1>0, <1>a, <2>1, <2>2, <2>4, <2>5 DEF Costs, Excused
  <2>7. \A p \in Orders : p # o => status'[p] = status[p]
    BY <2>2 DEF Inv, Typed
  <2> QED BY <1>0, <1>a, <2>1, <2>2, <2>3, <2>4, <2>6, <2>7, WorkerCosts DEF Refunding
<1>14. ASSUME NEW w \in Workers, Crash(w)
       PROVE  CostsOK'
  <2>1. Moves(w) /\ pc'[w] = "idle" /\ Kept
    BY <1>14, LeaveTyped DEF Crash
  <2>2. CASE pc[w] \notin Refunding
    BY <1>1, <2>1, <2>2 DEF Refunding
  <2>3. CASE pc[w] \in Refunding
    <3>1. PICK o : o = plan[w].order
      OBVIOUS
    <3>2. \A p \in Orders : Paid(p)' = Paid(p)
      BY <2>1, CostsCounted
    <3>3. Costs(o)'
      BY <1>0, <1>a, <2>1, <2>3, <3>1, <3>2 DEF Costs
    <3> QED BY <1>0, <1>a, <2>1, <2>3, <3>1, <3>2, <3>3, WorkerCosts DEF Refunding
  <2> QED BY <2>2, <2>3
<1>15. ASSUME Spend
       PROVE  CostsOK'
  <2>1. UNCHANGED <<status, taken, paidBack, rbFailed, pc, plan, faults>>
    BY <1>15 DEF Spend
  <2> QED BY <2>1 DEF CostsOK, Costs, Spends, Excused, Paid, Fee, Order
<1> QED
  BY <1>2, <1>3, <1>4, <1>5, <1>6, <1>7, <1>8, <1>9, <1>10, <1>11, <1>12,
     <1>13, <1>14, <1>15 DEF Next, Continue

\* Also when replies and audit rows are lost, the refunds of an order cost at most
\* one payback and one deduction, and its price once more for each failure there was.
THEOREM RefundCostsBounded == Spec => []LossesCostFaults
<1>1. Inv /\ BooksTyped /\ CostsOK => LossesCostFaults
  <2> SUFFICES ASSUME Inv, BooksTyped, CostsOK, NEW o \in Orders
               PROVE  /\ taken[o] >= 0
                      /\ Price * paidBack[o] + taken[o] <= Price * (2 + faults.count)
    BY DEF LossesCostFaults
  <2>1. taken[o] >= 0 /\ Paid(o) + taken[o] <= Fee + 2 * Price
    BY DEF CostsOK, Costs
  <2>2. faults.count \in Nat
    BY NumberAssumption DEF BooksTyped, FaultLog
  <2>3. Price * (2 + faults.count) = Fee + 2 * Price
    BY <2>2, NumberAssumption DEF Fee
  <2> QED BY <2>1, <2>3 DEF Paid
<1>2. Inv /\ BooksTyped /\ CostsOK /\ [Next]_vars => CostsOK'
  <2> SUFFICES ASSUME Inv, BooksTyped, CostsOK, UNCHANGED vars
               PROVE  CostsOK'
    BY NextCosts
  <2> QED BY DEF vars, money, CostsOK, Costs, Spends, Excused, Paid, Fee, Order
<1> QED BY <1>1, <1>2, InitCosts, Invariance, BooksInvariance, PTL DEF Spec
================================================================================
