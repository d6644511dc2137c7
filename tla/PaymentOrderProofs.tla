------------------------- MODULE PaymentOrderProofs -------------------------
(***************************************************************************)
(* Proofs about PaymentOrder for any sets of orders and workers, any kinds *)
(* of failure and any number of failures.                                  *)
(***************************************************************************)
EXTENDS PaymentOrder, TLAPS

\* Steps a worker only reaches with a payment that passed confirmPayment.
PaidSteps == {"toPaid", "already", "exec", "lock", "reset", "audit", "fail"}
                \cup Fulfilling

\* TypeOK by groups of variables.
RowsOK ==
    /\ status   \in [Orders -> Statuses]
    /\ paidAt   \in [Orders -> BOOLEAN]
    /\ timedOut \in [Orders -> BOOLEAN]
    /\ fresh    \in [Orders -> BOOLEAN]
    /\ upstream \in [Orders -> {"none", "unpaid", "paid", "mispaid", "closed"}]

GrantsOK ==
    /\ code     \in [Orders -> {"none", "unused", "used"}]
    /\ credited \in [Orders -> Nat]
    /\ extended \in [Orders -> Nat]
    /\ claim    \in [Orders -> {"none", "APPLIED", "SKIPPED"}]
    /\ rebates  \in [Orders -> Nat]
    /\ subAudit \in [Orders -> BOOLEAN]

ProcsOK ==
    /\ pc   \in [Workers -> Steps]
    /\ kind \in [Workers -> Kinds]
    /\ ord  \in [Workers -> Orders \cup {NoOrder}]
    /\ \A w \in Workers : pc[w] # "idle" => ord[w] \in Orders

AckedOK == acked \in [Orders -> BOOLEAN]

FaultsOK == faults \in 0..MaxFaults

Typed == RowsOK /\ GrantsOK /\ ProcsOK /\ AckedOK /\ FaultsOK

LEMMA TypeParts == TypeOK <=> Typed
BY DEF TypeOK, Typed, RowsOK, GrantsOK, ProcsOK, AckedOK, FaultsOK

Critical == Fulfilling \cup {"fail"}

\* What holds of order o while a worker is about to take step p on it.
StepOK(p, o) ==
    /\ status[o] # "none"
    \* while the provider is asked for the trade there is nothing to pay
    /\ p = "invoke" => upstream[o] = "none"
    /\ p \in PaidSteps => upstream[o] = "paid"
    \* the lock; after a completion whose reply was lost, markFailed still runs
    /\ p \in Fulfilling => status[o] = "RECHARGING"
    /\ p = "fail" => status[o] \in {"RECHARGING"} \cup Delivered
    /\ p = "audit" => status[o] \in Delivered
    \* how far fulfilment has come
    /\ p \in {"lookup", "create", "redeem", "rebate"} => o \notin SubOrders
    /\ p \in {"subcheck", "assign"} => o \in SubOrders
    /\ p = "rebate" => code[o] = "used"
    /\ p = "complete" => IF o \in SubOrders THEN extended[o] > 0
                         ELSE code[o] = "used" /\ claim[o] # "none"

WorkersOK == \A w \in Workers : pc[w] # "idle" => StepOK(pc[w], ord[w])

\* Two workers are never both creating, or both fulfilling, the same order.
Exclusive ==
    \A v, w \in Workers : v # w /\ ord[v] = ord[w] =>
        /\ ~(pc[v] = "invoke" /\ pc[w] = "invoke")
        /\ ~(pc[v] \in Critical /\ pc[w] \in Critical)

\* How the columns of an order and the rows written for it agree.
OrderOK(o) ==
    /\ status[o] = "none" => upstream[o] = "none"
    /\ \/ status[o] \in PaidStatuses
       \/ paidAt[o] \/ code[o] # "none" \/ extended[o] > 0
       => upstream[o] = "paid"
    /\ credited[o] = IF code[o] = "used" THEN 1 ELSE 0
    /\ rebates[o] = IF claim[o] = "APPLIED" THEN 1 ELSE 0
    /\ claim[o] # "none" => code[o] = "used"
    /\ subAudit[o] => status[o] \in Delivered
    /\ status[o] \in Delivered =>
          IF o \in SubOrders THEN extended[o] > 0
          ELSE code[o] = "used" /\ claim[o] # "none"

OrdersOK == \A o \in Orders : OrderOK(o)

\* The inductive invariant.
IInv == Typed /\ WorkersOK /\ Exclusive /\ OrdersOK

-----------------------------------------------------------------------------
(* Control flow: what a step does to the workers.                          *)

Working(w) == pc[w] # "idle" /\ ord[w] \in Orders

\* Worker w goes to one of the steps S, or leaves; the others stay.
Moved(w, S) ==
    /\ pc'[w] \in S
    /\ ord'[w] = IF pc'[w] = "idle" THEN NoOrder ELSE ord[w]
    /\ \A v \in Workers \ {w} : pc'[v] = pc[v] /\ ord'[v] = ord[v]

LEMMA GotoMoves ==
    ASSUME ProcsOK, AckedOK, NEW w \in Workers, Working(w),
           NEW step \in Steps \ {"idle"}, Goto(w, step)
    PROVE  ProcsOK' /\ AckedOK' /\ Moved(w, {step})
BY DEF ProcsOK, AckedOK, Working, Moved, Goto

LEMMA LeaveMoves ==
    ASSUME ProcsOK, NEW w \in Workers, Leave(w)
    PROVE  ProcsOK' /\ Moved(w, {"idle"})
BY DEF ProcsOK, Moved, Leave, Steps, Kinds

LEMMA ReturnMoves ==
    ASSUME ProcsOK, AckedOK, NEW w \in Workers, Working(w), NEW ok, Return(w, ok)
    PROVE  ProcsOK' /\ AckedOK' /\ Moved(w, {"idle"})
BY LeaveMoves DEF AckedOK, Working, Return

LEMMA ErrorMoves ==
    ASSUME ProcsOK, AckedOK, NEW w \in Workers, Working(w), Error(w)
    PROVE  /\ ProcsOK' /\ AckedOK'
           /\ Moved(w, IF pc[w] \in Fulfilling THEN {"fail"} ELSE {"idle"})
BY GotoMoves, ReturnMoves DEF Error, Steps

LEMMA FaultCounts == ASSUME FaultsOK, NEW k, Fault(k) PROVE FaultsOK'
BY FaultAssumption DEF FaultsOK, Fault

LEMMA ReplyMoves ==
    ASSUME ProcsOK, AckedOK, FaultsOK, NEW w \in Workers, Working(w),
           NEW step \in Steps \ {"idle"}, Reply(w, step)
    PROVE  /\ ProcsOK' /\ AckedOK' /\ FaultsOK'
           /\ Moved(w, IF pc[w] \in Fulfilling THEN {step, "fail"} ELSE {step, "idle"})
<1>1. CASE Goto(w, step) /\ UNCHANGED faults
    BY <1>1, GotoMoves DEF FaultsOK, Moved
<1>2. CASE Fault("lost") /\ Error(w)
    BY <1>2, ErrorMoves, FaultCounts DEF Moved
<1>3. QED
    BY <1>1, <1>2 DEF Reply

LEMMA BeginMoves ==
    ASSUME ProcsOK, NEW w \in Workers, NEW o \in Orders, NEW k \in Kinds,
           NEW step \in Steps \ {"idle"}, Begin(w, k, o, step)
    PROVE  /\ ProcsOK' /\ pc[w] = "idle" /\ pc'[w] = step /\ ord'[w] = o
           /\ \A v \in Workers \ {w} : pc'[v] = pc[v] /\ ord'[v] = ord[v]
BY DEF ProcsOK, Begin

\* A step that changes no row keeps the invariant when the step it leads to is
\* one the order is ready for and the worker was as exclusive before.
LEMMA MoveInv ==
    ASSUME IInv, NEW w \in Workers, NEW S, Working(w), Moved(w, S),
           ProcsOK', AckedOK', FaultsOK', UNCHANGED <<row, upstream, grants>>,
           \A p \in S \ {"idle"} : StepOK(p, ord[w]),
           "invoke" \notin S,
           S \cap Critical # {} => pc[w] \in Critical
    PROVE  IInv'
<1>1. Typed'
    BY DEF IInv, Typed, RowsOK, GrantsOK, row, grants
<1>2. WorkersOK'
    BY DEF IInv, WorkersOK, StepOK, Moved, Working, row, grants
<1>3. Exclusive'
    BY DEF IInv, Exclusive, Moved, Critical, Fulfilling
<1>4. OrdersOK'
    BY DEF IInv, OrdersOK, OrderOK, row, grants
<1>5. QED
    BY <1>1, <1>2, <1>3, <1>4 DEF IInv

\* A request that starts on an existing order.
LEMMA BeginInv ==
    ASSUME IInv, NEW w \in Workers, NEW o \in Orders, NEW k \in Kinds,
           NEW p \in Steps \ ({"idle", "invoke"} \cup Critical),
           Begin(w, k, o, p), StepOK(p, o),
           UNCHANGED <<row, upstream, acked, grants, faults>>
    PROVE  IInv'
<1>0. ProcsOK'
    BY BeginMoves DEF IInv, Typed
<1>1. Typed'
    BY <1>0 DEF IInv, Typed, RowsOK, GrantsOK, AckedOK, FaultsOK, row, grants
<1>2. /\ pc'[w] = p /\ ord'[w] = o
      /\ \A v \in Workers \ {w} : pc'[v] = pc[v] /\ ord'[v] = ord[v]
    BY BeginMoves DEF IInv, Typed
<1>3. WorkersOK'
    BY <1>2 DEF IInv, WorkersOK, StepOK, row, grants
<1>4. Exclusive'
    BY <1>2 DEF IInv, Exclusive, Critical
<1>5. OrdersOK'
    BY DEF IInv, OrdersOK, OrderOK, row, grants
<1>6. QED
    BY <1>1, <1>3, <1>4, <1>5 DEF IInv

-----------------------------------------------------------------------------
(* Creating and paying.                                                    *)

LEMMA CreateOrderInv ==
    ASSUME IInv, NEW w \in Workers, NEW o \in Orders, CreateOrder(w, o)
    PROVE  IInv'
<1>1. /\ ProcsOK' /\ pc'[w] = "invoke" /\ ord'[w] = o
      /\ \A v \in Workers \ {w} : pc'[v] = pc[v] /\ ord'[v] = ord[v]
    BY BeginMoves DEF IInv, Typed, CreateOrder, Kinds, Steps
<1>2. status[o] = "none" /\ status' = [status EXCEPT ![o] = "PENDING"]
    BY DEF CreateOrder
<1>3. \A v \in Workers : pc[v] # "idle" => ord[v] # o
    BY <1>2 DEF IInv, WorkersOK, StepOK
<1>4. Typed'
    BY <1>1, <1>2 DEF IInv, Typed, CreateOrder, RowsOK, GrantsOK, AckedOK, FaultsOK,
        grants, Statuses
<1>5. WorkersOK'
    BY <1>1, <1>2, <1>3 DEF IInv, Typed, WorkersOK, OrdersOK, OrderOK, StepOK, CreateOrder,
        grants, RowsOK, ProcsOK, PaidSteps, Fulfilling
<1>6. Exclusive'
    BY <1>1, <1>3 DEF IInv, Exclusive, Critical, Fulfilling
<1>7. OrdersOK'
    BY <1>2 DEF IInv, Typed, OrdersOK, OrderOK, CreateOrder, grants, RowsOK,
        PaidStatuses, Delivered, RefundStatuses
<1>8. QED
    BY <1>4, <1>5, <1>6, <1>7 DEF IInv

LEMMA InvokeProviderInv ==
    ASSUME IInv, NEW w \in Workers, InvokeProvider(w)
    PROVE  IInv'
<1> DEFINE o == ord[w]
<1>1. pc[w] = "invoke" /\ Working(w) /\ StepOK("invoke", o)
    BY DEF IInv, Typed, InvokeProvider, Working, ProcsOK, WorkersOK
<1>2. ProcsOK' /\ AckedOK' /\ FaultsOK' /\ Moved(w, {"idle"})
    BY <1>1, ReturnMoves DEF IInv, Typed, InvokeProvider, Moved, Steps, Fulfilling, FaultsOK
<1>3. RowsOK'
    BY <1>1 DEF IInv, Typed, RowsOK, InvokeProvider, Working, Statuses, Delivered, grants, row, Touch
<1>4. GrantsOK'
    BY <1>1 DEF IInv, Typed, GrantsOK, InvokeProvider, Working, grants, Touch
<1>5. WorkersOK'
  <2> SUFFICES ASSUME NEW v \in Workers, pc'[v] # "idle"
               PROVE  StepOK(pc[v], ord[v])'
    BY DEF WorkersOK
  <2>1. CASE v = w
    BY <1>1, <1>2, <2>1 DEF IInv, Typed, RowsOK, GrantsOK, OrdersOK, OrderOK, InvokeProvider, Working, Moved,
        StepOK, Fulfilling, PaidSteps, PaidStatuses, Delivered, RefundStatuses,
        row, grants, Touch
  <2>2. CASE v # w
    <3>1. pc'[v] = pc[v] /\ ord'[v] = ord[v] /\ StepOK(pc[v], ord[v]) /\ ord[v] \in Orders
      BY <1>2, <2>2 DEF IInv, Typed, ProcsOK, WorkersOK, Moved
    <3>2. ord[v] = o => ~(pc[v] = "invoke" /\ pc[w] = "invoke")
                        /\ ~(pc[v] \in Critical /\ pc[w] \in Critical)
      BY <2>2 DEF IInv, Exclusive
    <3>3. QED
      BY <1>1, <3>1, <3>2 DEF IInv, Typed, RowsOK, GrantsOK, InvokeProvider, Working, StepOK, Critical,
        Fulfilling, PaidSteps, Delivered, RefundStatuses, row, grants, Touch
  <2>3. QED
    BY <2>1, <2>2
<1>6. Exclusive'
    BY <1>1, <1>2 DEF IInv, WorkersOK, StepOK, InvokeProvider, Exclusive, Moved, Critical, Fulfilling, Delivered,
        RefundStatuses, Touch
<1>7. OrdersOK'
    BY <1>1 DEF IInv, Typed, RowsOK, GrantsOK, OrdersOK, OrderOK, InvokeProvider, Working, StepOK, PaidSteps,
        PaidStatuses, Delivered, RefundStatuses, row, grants, Fulfilling, Touch
<1>8. QED
    BY <1>2, <1>3, <1>4, <1>5, <1>6, <1>7 DEF IInv, Typed

LEMMA InvokeProviderFailsInv ==
    ASSUME IInv, NEW w \in Workers, InvokeProviderFails(w)
    PROVE  IInv'
<1> DEFINE o == ord[w]
<1>1. pc[w] = "invoke" /\ Working(w) /\ StepOK("invoke", o)
    BY DEF IInv, Typed, InvokeProviderFails, Working, ProcsOK, WorkersOK
<1>2. ProcsOK' /\ AckedOK' /\ FaultsOK' /\ Moved(w, {"idle"})
    BY <1>1, ReturnMoves DEF IInv, Typed, InvokeProviderFails, Moved, Steps, Fulfilling, FaultsOK
<1>3. RowsOK'
    BY <1>1 DEF IInv, Typed, RowsOK, InvokeProviderFails, Working, Statuses, Delivered, grants, row, Touch
<1>4. GrantsOK'
    BY <1>1 DEF IInv, Typed, GrantsOK, InvokeProviderFails, Working, grants, Touch
<1>5. WorkersOK'
  <2> SUFFICES ASSUME NEW v \in Workers, pc'[v] # "idle"
               PROVE  StepOK(pc[v], ord[v])'
    BY DEF WorkersOK
  <2>1. CASE v = w
    BY <1>1, <1>2, <2>1 DEF IInv, Typed, RowsOK, GrantsOK, OrdersOK, OrderOK, InvokeProviderFails, Working, Moved,
        StepOK, Fulfilling, PaidSteps, PaidStatuses, Delivered, RefundStatuses,
        row, grants, Touch
  <2>2. CASE v # w
    <3>1. pc'[v] = pc[v] /\ ord'[v] = ord[v] /\ StepOK(pc[v], ord[v]) /\ ord[v] \in Orders
      BY <1>2, <2>2 DEF IInv, Typed, ProcsOK, WorkersOK, Moved
    <3>2. ord[v] = o => ~(pc[v] = "invoke" /\ pc[w] = "invoke")
                        /\ ~(pc[v] \in Critical /\ pc[w] \in Critical)
      BY <2>2 DEF IInv, Exclusive
    <3>3. QED
      BY <1>1, <3>1, <3>2 DEF IInv, Typed, RowsOK, GrantsOK, InvokeProviderFails, Working, StepOK, Critical,
        Fulfilling, PaidSteps, Delivered, RefundStatuses, row, grants, Touch
  <2>3. QED
    BY <2>1, <2>2
<1>6. Exclusive'
    BY <1>1, <1>2 DEF IInv, WorkersOK, StepOK, InvokeProviderFails, Exclusive, Moved, Critical, Fulfilling, Delivered,
        RefundStatuses, Touch
<1>7. OrdersOK'
    BY <1>1 DEF IInv, Typed, RowsOK, GrantsOK, OrdersOK, OrderOK, InvokeProviderFails, Working, StepOK, PaidSteps,
        PaidStatuses, Delivered, RefundStatuses, row, grants, Fulfilling, Touch
<1>8. QED
    BY <1>2, <1>3, <1>4, <1>5, <1>6, <1>7 DEF IInv, Typed

LEMMA ToPaidInv ==
    ASSUME IInv, NEW w \in Workers, ToPaid(w)
    PROVE  IInv'
<1> DEFINE o == ord[w]
<1>1. pc[w] = "toPaid" /\ Working(w) /\ StepOK("toPaid", o)
    BY DEF IInv, Typed, ToPaid, Working, ProcsOK, WorkersOK
<1>2. ProcsOK' /\ AckedOK' /\ FaultsOK' /\ Moved(w, {"exec", "already", "idle"})
    BY <1>1, ReplyMoves, GotoMoves DEF IInv, Typed, ToPaid, Moved, Steps, Fulfilling, FaultsOK
<1>3. RowsOK'
    BY <1>1 DEF IInv, Typed, RowsOK, ToPaid, Working, Statuses, Delivered, grants, row, Touch, PayableNow
<1>4. GrantsOK'
    BY <1>1 DEF IInv, Typed, GrantsOK, ToPaid, Working, grants, Touch, PayableNow
<1>5. WorkersOK'
  <2> SUFFICES ASSUME NEW v \in Workers, pc'[v] # "idle"
               PROVE  StepOK(pc[v], ord[v])'
    BY DEF WorkersOK
  <2>1. CASE v = w
    BY <1>1, <1>2, <2>1 DEF IInv, Typed, RowsOK, GrantsOK, OrdersOK, OrderOK, ToPaid, Working, Moved,
        StepOK, Fulfilling, PaidSteps, PaidStatuses, Delivered, RefundStatuses,
        row, grants, Touch, PayableNow
  <2>2. CASE v # w
    <3>1. pc'[v] = pc[v] /\ ord'[v] = ord[v] /\ StepOK(pc[v], ord[v]) /\ ord[v] \in Orders
      BY <1>2, <2>2 DEF IInv, Typed, ProcsOK, WorkersOK, Moved
    <3>2. ord[v] = o => ~(pc[v] = "invoke" /\ pc[w] = "invoke")
                        /\ ~(pc[v] \in Critical /\ pc[w] \in Critical)
      BY <2>2 DEF IInv, Exclusive
    <3>3. QED
      BY <1>1, <3>1, <3>2 DEF IInv, Typed, RowsOK, GrantsOK, ToPaid, Working, StepOK, Critical,
        Fulfilling, PaidSteps, Delivered, RefundStatuses, row, grants, Touch, PayableNow
  <2>3. QED
    BY <2>1, <2>2
<1>6. Exclusive'
    BY <1>1, <1>2 DEF IInv, WorkersOK, StepOK, ToPaid, Exclusive, Moved, Critical, Fulfilling, Delivered,
        RefundStatuses, Touch, PayableNow
<1>7. OrdersOK'
    BY <1>1 DEF IInv, Typed, RowsOK, GrantsOK, OrdersOK, OrderOK, ToPaid, Working, StepOK, PaidSteps,
        PaidStatuses, Delivered, RefundStatuses, row, grants, Fulfilling, Touch, PayableNow
<1>8. QED
    BY <1>2, <1>3, <1>4, <1>5, <1>6, <1>7 DEF IInv, Typed

LEMMA LockFulfillmentInv ==
    ASSUME IInv, NEW w \in Workers, LockFulfillment(w)
    PROVE  IInv'
<1> DEFINE o == ord[w]
<1>1. pc[w] = "lock" /\ Working(w) /\ StepOK("lock", o)
    BY DEF IInv, Typed, LockFulfillment, Working, ProcsOK, WorkersOK
<1>2. CASE ~CanFulfill(status[o])
  <2>1. ProcsOK' /\ AckedOK' /\ FaultsOK' /\ Moved(w, {"idle"})
    BY <1>1, <1>2, ReturnMoves DEF IInv, Typed, LockFulfillment, FaultsOK
  <2>2. QED
    BY <1>1, <1>2, <2>1, MoveInv DEF LockFulfillment, row, Critical, Fulfilling
<1>3. CASE CanFulfill(status[o])
  <2>0. /\ status' = [status EXCEPT ![o] = "RECHARGING"] /\ Reply(w, FirstStep(o))
        /\ status[o] \in {"PAID", "FAILED"}
        /\ UNCHANGED <<paidAt, timedOut, upstream, grants>> /\ Touch(o)
    BY <1>3 DEF LockFulfillment, CanFulfill
  <2>2. ProcsOK' /\ AckedOK' /\ FaultsOK' /\ Moved(w, {FirstStep(o), "idle"})
      BY <1>1, <2>0, ReplyMoves DEF IInv, Typed, FirstStep, Moved, Steps, Fulfilling, FaultsOK
  <2>3. RowsOK'
      BY <1>1, <2>0 DEF IInv, Typed, RowsOK, Working, Statuses, Delivered, grants, row, Touch, FirstStep
  <2>4. GrantsOK'
      BY <1>1, <2>0 DEF IInv, Typed, GrantsOK, Working, grants, Touch, FirstStep
  <2>5. WorkersOK'
    <3> SUFFICES ASSUME NEW v \in Workers, pc'[v] # "idle"
                 PROVE  StepOK(pc[v], ord[v])'
      BY DEF WorkersOK
    <3>1. CASE v = w
      BY <1>1, <2>2, <2>0, <3>1 DEF IInv, Typed, RowsOK, GrantsOK, OrdersOK, OrderOK, Working, Moved,
          StepOK, Fulfilling, PaidSteps, PaidStatuses, Delivered, RefundStatuses,
          row, grants, Touch, FirstStep
    <3>2. CASE v # w
      <4>1. pc'[v] = pc[v] /\ ord'[v] = ord[v] /\ StepOK(pc[v], ord[v]) /\ ord[v] \in Orders
        BY <2>2, <3>2 DEF IInv, Typed, ProcsOK, WorkersOK, Moved
      <4>2. ord[v] = o => ~(pc[v] = "invoke" /\ pc[w] = "invoke")
                          /\ ~(pc[v] \in Critical /\ pc[w] \in Critical)
        BY <3>2 DEF IInv, Exclusive
      <4>3. QED
        BY <1>1, <2>0, <4>1, <4>2 DEF IInv, Typed, RowsOK, GrantsOK, Working, StepOK, Critical,
          Fulfilling, PaidSteps, Delivered, RefundStatuses, row, grants, Touch, FirstStep
    <3>3. QED
      BY <3>1, <3>2
  <2>6. Exclusive'
      BY <1>1, <2>2, <2>0 DEF IInv, WorkersOK, StepOK, Exclusive, Moved, Critical, Fulfilling, Delivered,
          RefundStatuses, Touch, FirstStep
  <2>7. OrdersOK'
      BY <1>1, <2>0 DEF IInv, Typed, RowsOK, GrantsOK, OrdersOK, OrderOK, Working, StepOK, PaidSteps,
          PaidStatuses, Delivered, RefundStatuses, row, grants, Fulfilling, Touch, FirstStep
  <2>8. QED
      BY <2>2, <2>3, <2>4, <2>5, <2>6, <2>7 DEF IInv, Typed
<1>4. QED
    BY <1>2, <1>3

LEMMA CreateCodeInv ==
    ASSUME IInv, NEW w \in Workers, CreateCode(w)
    PROVE  IInv'
<1> DEFINE o == ord[w]
<1>1. pc[w] = "create" /\ Working(w) /\ StepOK("create", o)
    BY DEF IInv, Typed, CreateCode, Working, ProcsOK, WorkersOK
<1>2. ProcsOK' /\ AckedOK' /\ FaultsOK' /\ Moved(w, {"redeem", "fail"})
    BY <1>1, ReplyMoves, ErrorMoves DEF IInv, Typed, CreateCode, Moved, Steps, Fulfilling, FaultsOK
<1>3. RowsOK'
    BY <1>1 DEF IInv, Typed, RowsOK, CreateCode, Working, Statuses, Delivered, grants, row
<1>4. GrantsOK'
    BY <1>1 DEF IInv, Typed, GrantsOK, CreateCode, Working, grants
<1>5. WorkersOK'
  <2> SUFFICES ASSUME NEW v \in Workers, pc'[v] # "idle"
               PROVE  StepOK(pc[v], ord[v])'
    BY DEF WorkersOK
  <2>1. CASE v = w
    BY <1>1, <1>2, <2>1 DEF IInv, Typed, RowsOK, GrantsOK, OrdersOK, OrderOK, CreateCode, Working, Moved,
        StepOK, Fulfilling, PaidSteps, PaidStatuses, Delivered, RefundStatuses,
        row, grants
  <2>2. CASE v # w
    <3>1. pc'[v] = pc[v] /\ ord'[v] = ord[v] /\ StepOK(pc[v], ord[v]) /\ ord[v] \in Orders
      BY <1>2, <2>2 DEF IInv, Typed, ProcsOK, WorkersOK, Moved
    <3>2. ord[v] = o => ~(pc[v] = "invoke" /\ pc[w] = "invoke")
                        /\ ~(pc[v] \in Critical /\ pc[w] \in Critical)
      BY <2>2 DEF IInv, Exclusive
    <3>3. QED
      BY <1>1, <3>1, <3>2 DEF IInv, Typed, RowsOK, GrantsOK, CreateCode, Working, StepOK, Critical,
        Fulfilling, PaidSteps, Delivered, RefundStatuses, row, grants
  <2>3. QED
    BY <2>1, <2>2
<1>6. Exclusive'
    BY <1>1, <1>2 DEF IInv, WorkersOK, StepOK, CreateCode, Exclusive, Moved, Critical, Fulfilling, Delivered,
        RefundStatuses
<1>7. OrdersOK'
    BY <1>1 DEF IInv, Typed, RowsOK, GrantsOK, OrdersOK, OrderOK, CreateCode, Working, StepOK, PaidSteps,
        PaidStatuses, Delivered, RefundStatuses, row, grants, Fulfilling
<1>8. QED
    BY <1>2, <1>3, <1>4, <1>5, <1>6, <1>7 DEF IInv, Typed

LEMMA RedeemCodeInv ==
    ASSUME IInv, NEW w \in Workers, RedeemCode(w)
    PROVE  IInv'
<1> DEFINE o == ord[w]
<1>1. pc[w] = "redeem" /\ Working(w) /\ StepOK("redeem", o)
    BY DEF IInv, Typed, RedeemCode, Working, ProcsOK, WorkersOK
<1>2. /\ ProcsOK' /\ AckedOK' /\ FaultsOK' /\ Moved(w, {"rebate", "fail"})
      /\ pc'[w] = "rebate" => UseCode(o)
    BY <1>1, ReplyMoves, ErrorMoves DEF IInv, Typed, RedeemCode, Moved, Steps, Fulfilling, FaultsOK
<1>3. RowsOK'
    BY <1>1 DEF IInv, Typed, RowsOK, RedeemCode, Working, Statuses, Delivered, grants, row, UseCode
<1>4. GrantsOK'
    BY <1>1 DEF IInv, Typed, GrantsOK, RedeemCode, Working, grants, UseCode
<1>5. WorkersOK'
  <2> SUFFICES ASSUME NEW v \in Workers, pc'[v] # "idle"
               PROVE  StepOK(pc[v], ord[v])'
    BY DEF WorkersOK
  <2>1. CASE v = w
    BY <1>1, <1>2, <2>1 DEF IInv, Typed, RowsOK, GrantsOK, OrdersOK, OrderOK, RedeemCode, Working, Moved,
        StepOK, Fulfilling, PaidSteps, PaidStatuses, Delivered, RefundStatuses,
        row, grants, UseCode
  <2>2. CASE v # w
    <3>1. pc'[v] = pc[v] /\ ord'[v] = ord[v] /\ StepOK(pc[v], ord[v]) /\ ord[v] \in Orders
      BY <1>2, <2>2 DEF IInv, Typed, ProcsOK, WorkersOK, Moved
    <3>2. ord[v] = o => ~(pc[v] = "invoke" /\ pc[w] = "invoke")
                        /\ ~(pc[v] \in Critical /\ pc[w] \in Critical)
      BY <2>2 DEF IInv, Exclusive
    <3>3. QED
      BY <1>1, <3>1, <3>2 DEF IInv, Typed, RowsOK, GrantsOK, RedeemCode, Working, StepOK, Critical,
        Fulfilling, PaidSteps, Delivered, RefundStatuses, row, grants, UseCode
  <2>3. QED
    BY <2>1, <2>2
<1>6. Exclusive'
    BY <1>1, <1>2 DEF IInv, WorkersOK, StepOK, RedeemCode, Exclusive, Moved, Critical, Fulfilling, Delivered,
        RefundStatuses, UseCode
<1>7. OrdersOK'
    BY <1>1 DEF IInv, Typed, RowsOK, GrantsOK, OrdersOK, OrderOK, RedeemCode, Working, StepOK, PaidSteps,
        PaidStatuses, Delivered, RefundStatuses, row, grants, Fulfilling, UseCode
<1>8. QED
    BY <1>2, <1>3, <1>4, <1>5, <1>6, <1>7 DEF IInv, Typed

LEMMA ApplyRebateInv ==
    ASSUME IInv, NEW w \in Workers, ApplyRebate(w)
    PROVE  IInv'
<1> DEFINE o == ord[w]
<1>1. pc[w] = "rebate" /\ Working(w) /\ StepOK("rebate", o)
    BY DEF IInv, Typed, ApplyRebate, Working, ProcsOK, WorkersOK
<1>2. ProcsOK' /\ AckedOK' /\ FaultsOK' /\ Moved(w, {"complete", "fail"})
    BY <1>1, ReplyMoves, GotoMoves DEF IInv, Typed, ApplyRebate, Moved, Steps, Fulfilling, FaultsOK
<1>3. RowsOK'
    BY <1>1 DEF IInv, Typed, RowsOK, ApplyRebate, Working, Statuses, Delivered, grants, row, ClaimFree
<1>4. GrantsOK'
    BY <1>1 DEF IInv, Typed, GrantsOK, ApplyRebate, Working, grants, ClaimFree
<1>5. WorkersOK'
  <2> SUFFICES ASSUME NEW v \in Workers, pc'[v] # "idle"
               PROVE  StepOK(pc[v], ord[v])'
    BY DEF WorkersOK
  <2>1. CASE v = w
    BY <1>1, <1>2, <2>1 DEF IInv, Typed, RowsOK, GrantsOK, OrdersOK, OrderOK, ApplyRebate, Working, Moved,
        StepOK, Fulfilling, PaidSteps, PaidStatuses, Delivered, RefundStatuses,
        row, grants, ClaimFree
  <2>2. CASE v # w
    <3>1. pc'[v] = pc[v] /\ ord'[v] = ord[v] /\ StepOK(pc[v], ord[v]) /\ ord[v] \in Orders
      BY <1>2, <2>2 DEF IInv, Typed, ProcsOK, WorkersOK, Moved
    <3>2. ord[v] = o => ~(pc[v] = "invoke" /\ pc[w] = "invoke")
                        /\ ~(pc[v] \in Critical /\ pc[w] \in Critical)
      BY <2>2 DEF IInv, Exclusive
    <3>3. QED
      BY <1>1, <3>1, <3>2 DEF IInv, Typed, RowsOK, GrantsOK, ApplyRebate, Working, StepOK, Critical,
        Fulfilling, PaidSteps, Delivered, RefundStatuses, row, grants, ClaimFree
  <2>3. QED
    BY <2>1, <2>2
<1>6. Exclusive'
    BY <1>1, <1>2 DEF IInv, WorkersOK, StepOK, ApplyRebate, Exclusive, Moved, Critical, Fulfilling, Delivered,
        RefundStatuses, ClaimFree
<1>7. OrdersOK'
    BY <1>1 DEF IInv, Typed, RowsOK, GrantsOK, OrdersOK, OrderOK, ApplyRebate, Working, StepOK, PaidSteps,
        PaidStatuses, Delivered, RefundStatuses, row, grants, Fulfilling, ClaimFree
<1>8. QED
    BY <1>2, <1>3, <1>4, <1>5, <1>6, <1>7 DEF IInv, Typed

LEMMA AssignOrExtendInv ==
    ASSUME IInv, NEW w \in Workers, AssignOrExtend(w)
    PROVE  IInv'
<1> DEFINE o == ord[w]
<1>1. pc[w] = "assign" /\ Working(w) /\ StepOK("assign", o)
    BY DEF IInv, Typed, AssignOrExtend, Working, ProcsOK, WorkersOK
<1>2. ProcsOK' /\ AckedOK' /\ FaultsOK' /\ Moved(w, {"complete", "fail"})
    BY <1>1, ReplyMoves DEF IInv, Typed, AssignOrExtend, Moved, Steps, Fulfilling, FaultsOK
<1>3. RowsOK'
    BY <1>1 DEF IInv, Typed, RowsOK, AssignOrExtend, Working, Statuses, Delivered, grants, row
<1>4. GrantsOK'
    BY <1>1 DEF IInv, Typed, GrantsOK, AssignOrExtend, Working, grants
<1>5. WorkersOK'
  <2> SUFFICES ASSUME NEW v \in Workers, pc'[v] # "idle"
               PROVE  StepOK(pc[v], ord[v])'
    BY DEF WorkersOK
  <2>1. CASE v = w
    BY <1>1, <1>2, <2>1 DEF IInv, Typed, RowsOK, GrantsOK, OrdersOK, OrderOK, AssignOrExtend, Working, Moved,
        StepOK, Fulfilling, PaidSteps, PaidStatuses, Delivered, RefundStatuses,
        row, grants
  <2>2. CASE v # w
    <3>1. pc'[v] = pc[v] /\ ord'[v] = ord[v] /\ StepOK(pc[v], ord[v]) /\ ord[v] \in Orders
      BY <1>2, <2>2 DEF IInv, Typed, ProcsOK, WorkersOK, Moved
    <3>2. ord[v] = o => ~(pc[v] = "invoke" /\ pc[w] = "invoke")
                        /\ ~(pc[v] \in Critical /\ pc[w] \in Critical)
      BY <2>2 DEF IInv, Exclusive
    <3>3. QED
      BY <1>1, <3>1, <3>2 DEF IInv, Typed, RowsOK, GrantsOK, AssignOrExtend, Working, StepOK, Critical,
        Fulfilling, PaidSteps, Delivered, RefundStatuses, row, grants
  <2>3. QED
    BY <2>1, <2>2
<1>6. Exclusive'
    BY <1>1, <1>2 DEF IInv, WorkersOK, StepOK, AssignOrExtend, Exclusive, Moved, Critical, Fulfilling, Delivered,
        RefundStatuses
<1>7. OrdersOK'
    BY <1>1 DEF IInv, Typed, RowsOK, GrantsOK, OrdersOK, OrderOK, AssignOrExtend, Working, StepOK, PaidSteps,
        PaidStatuses, Delivered, RefundStatuses, row, grants, Fulfilling
<1>8. QED
    BY <1>2, <1>3, <1>4, <1>5, <1>6, <1>7 DEF IInv, Typed

LEMMA MarkCompletedInv ==
    ASSUME IInv, NEW w \in Workers, MarkCompleted(w)
    PROVE  IInv'
<1> DEFINE o == ord[w]
<1>1. pc[w] = "complete" /\ Working(w) /\ StepOK("complete", o)
    BY DEF IInv, Typed, MarkCompleted, Working, ProcsOK, WorkersOK
<1>2. ProcsOK' /\ AckedOK' /\ FaultsOK' /\ Moved(w, {"audit", "fail"})
    BY <1>1, ReplyMoves DEF IInv, Typed, MarkCompleted, Moved, Steps, Fulfilling, FaultsOK
<1>3. RowsOK'
    BY <1>1 DEF IInv, Typed, RowsOK, MarkCompleted, Working, Statuses, Delivered, grants, row, CompareAndSet, Touch
<1>4. GrantsOK'
    BY <1>1 DEF IInv, Typed, GrantsOK, MarkCompleted, Working, grants, CompareAndSet, Touch
<1>5. WorkersOK'
  <2> SUFFICES ASSUME NEW v \in Workers, pc'[v] # "idle"
               PROVE  StepOK(pc[v], ord[v])'
    BY DEF WorkersOK
  <2>1. CASE v = w
    BY <1>1, <1>2, <2>1 DEF IInv, Typed, RowsOK, GrantsOK, OrdersOK, OrderOK, MarkCompleted, Working, Moved,
        StepOK, Fulfilling, PaidSteps, PaidStatuses, Delivered, RefundStatuses,
        row, grants, CompareAndSet, Touch
  <2>2. CASE v # w
    <3>1. pc'[v] = pc[v] /\ ord'[v] = ord[v] /\ StepOK(pc[v], ord[v]) /\ ord[v] \in Orders
      BY <1>2, <2>2 DEF IInv, Typed, ProcsOK, WorkersOK, Moved
    <3>2. ord[v] = o => ~(pc[v] = "invoke" /\ pc[w] = "invoke")
                        /\ ~(pc[v] \in Critical /\ pc[w] \in Critical)
      BY <2>2 DEF IInv, Exclusive
    <3>3. QED
      BY <1>1, <3>1, <3>2 DEF IInv, Typed, RowsOK, GrantsOK, MarkCompleted, Working, StepOK, Critical,
        Fulfilling, PaidSteps, Delivered, RefundStatuses, row, grants, CompareAndSet, Touch
  <2>3. QED
    BY <2>1, <2>2
<1>6. Exclusive'
    BY <1>1, <1>2 DEF IInv, WorkersOK, StepOK, MarkCompleted, Exclusive, Moved, Critical, Fulfilling, Delivered,
        RefundStatuses, CompareAndSet, Touch
<1>7. OrdersOK'
    BY <1>1 DEF IInv, Typed, RowsOK, GrantsOK, OrdersOK, OrderOK, MarkCompleted, Working, StepOK, PaidSteps,
        PaidStatuses, Delivered, RefundStatuses, row, grants, Fulfilling, CompareAndSet, Touch
<1>8. QED
    BY <1>2, <1>3, <1>4, <1>5, <1>6, <1>7 DEF IInv, Typed

LEMMA AuditCompletedInv ==
    ASSUME IInv, NEW w \in Workers, AuditCompleted(w)
    PROVE  IInv'
<1> DEFINE o == ord[w]
<1>1. pc[w] = "audit" /\ Working(w) /\ StepOK("audit", o)
    BY DEF IInv, Typed, AuditCompleted, Working, ProcsOK, WorkersOK
<1>2. ProcsOK' /\ AckedOK' /\ FaultsOK' /\ Moved(w, {"idle"})
    BY <1>1, ReturnMoves, FaultCounts DEF IInv, Typed, AuditCompleted, Moved, Steps, Fulfilling, FaultsOK
<1>3. RowsOK'
    BY <1>1 DEF IInv, Typed, RowsOK, AuditCompleted, Working, Statuses, Delivered, grants, row
<1>4. GrantsOK'
    BY <1>1 DEF IInv, Typed, GrantsOK, AuditCompleted, Working, grants
<1>5. WorkersOK'
  <2> SUFFICES ASSUME NEW v \in Workers, pc'[v] # "idle"
               PROVE  StepOK(pc[v], ord[v])'
    BY DEF WorkersOK
  <2>1. CASE v = w
    BY <1>1, <1>2, <2>1 DEF IInv, Typed, RowsOK, GrantsOK, OrdersOK, OrderOK, AuditCompleted, Working, Moved,
        StepOK, Fulfilling, PaidSteps, PaidStatuses, Delivered, RefundStatuses,
        row, grants
  <2>2. CASE v # w
    <3>1. pc'[v] = pc[v] /\ ord'[v] = ord[v] /\ StepOK(pc[v], ord[v]) /\ ord[v] \in Orders
      BY <1>2, <2>2 DEF IInv, Typed, ProcsOK, WorkersOK, Moved
    <3>2. ord[v] = o => ~(pc[v] = "invoke" /\ pc[w] = "invoke")
                        /\ ~(pc[v] \in Critical /\ pc[w] \in Critical)
      BY <2>2 DEF IInv, Exclusive
    <3>3. QED
      BY <1>1, <3>1, <3>2 DEF IInv, Typed, RowsOK, GrantsOK, AuditCompleted, Working, StepOK, Critical,
        Fulfilling, PaidSteps, Delivered, RefundStatuses, row, grants
  <2>3. QED
    BY <2>1, <2>2
<1>6. Exclusive'
    BY <1>1, <1>2 DEF IInv, WorkersOK, StepOK, AuditCompleted, Exclusive, Moved, Critical, Fulfilling, Delivered,
        RefundStatuses
<1>7. OrdersOK'
    BY <1>1 DEF IInv, Typed, RowsOK, GrantsOK, OrdersOK, OrderOK, AuditCompleted, Working, StepOK, PaidSteps,
        PaidStatuses, Delivered, RefundStatuses, row, grants, Fulfilling
<1>8. QED
    BY <1>2, <1>3, <1>4, <1>5, <1>6, <1>7 DEF IInv, Typed

LEMMA MarkFailedInv ==
    ASSUME IInv, NEW w \in Workers, MarkFailed(w)
    PROVE  IInv'
<1> DEFINE o == ord[w]
<1>1. pc[w] = "fail" /\ Working(w) /\ StepOK("fail", o)
    BY DEF IInv, Typed, MarkFailed, Working, ProcsOK, WorkersOK
<1>2. ProcsOK' /\ AckedOK' /\ FaultsOK' /\ Moved(w, {"idle"})
    BY <1>1, ReturnMoves, FaultCounts DEF IInv, Typed, MarkFailed, Moved, Steps, Fulfilling, FaultsOK
<1>3. RowsOK'
    BY <1>1 DEF IInv, Typed, RowsOK, MarkFailed, Working, Statuses, Delivered, grants, row, CompareAndSet, Touch
<1>4. GrantsOK'
    BY <1>1 DEF IInv, Typed, GrantsOK, MarkFailed, Working, grants, CompareAndSet, Touch
<1>5. WorkersOK'
  <2> SUFFICES ASSUME NEW v \in Workers, pc'[v] # "idle"
               PROVE  StepOK(pc[v], ord[v])'
    BY DEF WorkersOK
  <2>1. CASE v = w
    BY <1>1, <1>2, <2>1 DEF IInv, Typed, RowsOK, GrantsOK, OrdersOK, OrderOK, MarkFailed, Working, Moved,
        StepOK, Fulfilling, PaidSteps, PaidStatuses, Delivered, RefundStatuses,
        row, grants, CompareAndSet, Touch
  <2>2. CASE v # w
    <3>1. pc'[v] = pc[v] /\ ord'[v] = ord[v] /\ StepOK(pc[v], ord[v]) /\ ord[v] \in Orders
      BY <1>2, <2>2 DEF IInv, Typed, ProcsOK, WorkersOK, Moved
    <3>2. ord[v] = o => ~(pc[v] = "invoke" /\ pc[w] = "invoke")
                        /\ ~(pc[v] \in Critical /\ pc[w] \in Critical)
      BY <2>2 DEF IInv, Exclusive
    <3>3. QED
      BY <1>1, <3>1, <3>2 DEF IInv, Typed, RowsOK, GrantsOK, MarkFailed, Working, StepOK, Critical,
        Fulfilling, PaidSteps, Delivered, RefundStatuses, row, grants, CompareAndSet, Touch
  <2>3. QED
    BY <2>1, <2>2
<1>6. Exclusive'
    BY <1>1, <1>2 DEF IInv, WorkersOK, StepOK, MarkFailed, Exclusive, Moved, Critical, Fulfilling, Delivered,
        RefundStatuses, CompareAndSet, Touch
<1>7. OrdersOK'
    BY <1>1 DEF IInv, Typed, RowsOK, GrantsOK, OrdersOK, OrderOK, MarkFailed, Working, StepOK, PaidSteps,
        PaidStatuses, Delivered, RefundStatuses, row, grants, Fulfilling, CompareAndSet, Touch
<1>8. QED
    BY <1>2, <1>3, <1>4, <1>5, <1>6, <1>7 DEF IInv, Typed

LEMMA ResetForRetryInv ==
    ASSUME IInv, NEW w \in Workers, ResetForRetry(w)
    PROVE  IInv'
<1> DEFINE o == ord[w]
<1>1. pc[w] = "reset" /\ Working(w) /\ StepOK("reset", o)
    BY DEF IInv, Typed, ResetForRetry, Working, ProcsOK, WorkersOK
<1>2. ProcsOK' /\ AckedOK' /\ FaultsOK' /\ Moved(w, {"exec", "idle"})
    BY <1>1, ReplyMoves, GotoMoves DEF IInv, Typed, ResetForRetry, Moved, Steps, Fulfilling, FaultsOK
<1>3. RowsOK'
    BY <1>1 DEF IInv, Typed, RowsOK, ResetForRetry, Working, Statuses, Delivered, grants, row, Touch, CanFulfill
<1>4. GrantsOK'
    BY <1>1 DEF IInv, Typed, GrantsOK, ResetForRetry, Working, grants, Touch, CanFulfill
<1>5. WorkersOK'
  <2> SUFFICES ASSUME NEW v \in Workers, pc'[v] # "idle"
               PROVE  StepOK(pc[v], ord[v])'
    BY DEF WorkersOK
  <2>1. CASE v = w
    BY <1>1, <1>2, <2>1 DEF IInv, Typed, RowsOK, GrantsOK, OrdersOK, OrderOK, ResetForRetry, Working, Moved,
        StepOK, Fulfilling, PaidSteps, PaidStatuses, Delivered, RefundStatuses,
        row, grants, Touch, CanFulfill
  <2>2. CASE v # w
    <3>1. pc'[v] = pc[v] /\ ord'[v] = ord[v] /\ StepOK(pc[v], ord[v]) /\ ord[v] \in Orders
      BY <1>2, <2>2 DEF IInv, Typed, ProcsOK, WorkersOK, Moved
    <3>2. ord[v] = o => ~(pc[v] = "invoke" /\ pc[w] = "invoke")
                        /\ ~(pc[v] \in Critical /\ pc[w] \in Critical)
      BY <2>2 DEF IInv, Exclusive
    <3>3. QED
      BY <1>1, <3>1, <3>2 DEF IInv, Typed, RowsOK, GrantsOK, ResetForRetry, Working, StepOK, Critical,
        Fulfilling, PaidSteps, Delivered, RefundStatuses, row, grants, Touch, CanFulfill
  <2>3. QED
    BY <2>1, <2>2
<1>6. Exclusive'
    BY <1>1, <1>2 DEF IInv, WorkersOK, StepOK, ResetForRetry, Exclusive, Moved, Critical, Fulfilling, Delivered,
        RefundStatuses, Touch, CanFulfill
<1>7. OrdersOK'
    BY <1>1 DEF IInv, Typed, RowsOK, GrantsOK, OrdersOK, OrderOK, ResetForRetry, Working, StepOK, PaidSteps,
        PaidStatuses, Delivered, RefundStatuses, row, grants, Fulfilling, Touch, CanFulfill
<1>8. QED
    BY <1>2, <1>3, <1>4, <1>5, <1>6, <1>7 DEF IInv, Typed

LEMMA QueryUpstreamInv ==
    ASSUME IInv, NEW w \in Workers, QueryUpstream(w)
    PROVE  IInv'
<1> DEFINE o == ord[w]
<1>1. pc[w] = "query" /\ Working(w) /\ StepOK("query", o)
    BY DEF IInv, Typed, QueryUpstream, Working, ProcsOK, WorkersOK
<1>2. ProcsOK' /\ AckedOK' /\ FaultsOK' /\ Moved(w, {"idle", "toPaid", "cancelUp", "close"})
    BY <1>1, ReturnMoves, GotoMoves, FaultCounts DEF IInv, Typed, QueryUpstream, Moved, Steps, Fulfilling, FaultsOK, NotPaid
<1>2a. pc'[w] = "toPaid" => ConfirmPasses(o)
    BY <1>1 DEF IInv, Typed, ProcsOK, QueryUpstream, NotPaid, Goto, Return, Leave
<1>3. RowsOK'
    BY <1>1 DEF IInv, Typed, RowsOK, QueryUpstream, Working, Statuses, Delivered, grants, row, Touch, ConfirmPasses
<1>4. GrantsOK'
    BY <1>1 DEF IInv, Typed, GrantsOK, QueryUpstream, Working, grants, Touch, ConfirmPasses
<1>5. WorkersOK'
  <2> SUFFICES ASSUME NEW v \in Workers, pc'[v] # "idle"
               PROVE  StepOK(pc[v], ord[v])'
    BY DEF WorkersOK
  <2>1. CASE v = w
    BY <1>1, <1>2, <1>2a, <2>1 DEF IInv, Typed, RowsOK, GrantsOK, OrdersOK, OrderOK, QueryUpstream, Working, Moved,
        StepOK, Fulfilling, PaidSteps, PaidStatuses, Delivered, RefundStatuses,
        row, grants, Touch, ConfirmPasses
  <2>2. CASE v # w
    <3>1. pc'[v] = pc[v] /\ ord'[v] = ord[v] /\ StepOK(pc[v], ord[v]) /\ ord[v] \in Orders
      BY <1>2, <2>2 DEF IInv, Typed, ProcsOK, WorkersOK, Moved
    <3>2. ord[v] = o => ~(pc[v] = "invoke" /\ pc[w] = "invoke")
                        /\ ~(pc[v] \in Critical /\ pc[w] \in Critical)
      BY <2>2 DEF IInv, Exclusive
    <3>3. QED
      BY <1>1, <3>1, <3>2 DEF IInv, Typed, RowsOK, GrantsOK, QueryUpstream, Working, StepOK, Critical,
        Fulfilling, PaidSteps, Delivered, RefundStatuses, row, grants, Touch, ConfirmPasses
  <2>3. QED
    BY <2>1, <2>2
<1>6. Exclusive'
    BY <1>1, <1>2 DEF IInv, WorkersOK, StepOK, QueryUpstream, Exclusive, Moved, Critical, Fulfilling, Delivered,
        RefundStatuses, Touch, ConfirmPasses
<1>7. OrdersOK'
    BY <1>1 DEF IInv, Typed, RowsOK, GrantsOK, OrdersOK, OrderOK, QueryUpstream, Working, StepOK, PaidSteps,
        PaidStatuses, Delivered, RefundStatuses, row, grants, Fulfilling, Touch, ConfirmPasses
<1>8. QED
    BY <1>2, <1>3, <1>4, <1>5, <1>6, <1>7 DEF IInv, Typed

LEMMA CancelUpstreamInv ==
    ASSUME IInv, NEW w \in Workers, CancelUpstream(w)
    PROVE  IInv'
<1> DEFINE o == ord[w]
<1>1. pc[w] = "cancelUp" /\ Working(w) /\ StepOK("cancelUp", o)
    BY DEF IInv, Typed, CancelUpstream, Working, ProcsOK, WorkersOK
<1>2. ProcsOK' /\ AckedOK' /\ FaultsOK' /\ Moved(w, {"idle", "close"})
    BY <1>1, ReturnMoves, GotoMoves DEF IInv, Typed, CancelUpstream, Moved, Steps, Fulfilling, FaultsOK, NotPaid
<1>3. RowsOK'
    BY <1>1 DEF IInv, Typed, RowsOK, CancelUpstream, Working, Statuses, Delivered, grants, row
<1>4. GrantsOK'
    BY <1>1 DEF IInv, Typed, GrantsOK, CancelUpstream, Working, grants
<1>5. WorkersOK'
  <2> SUFFICES ASSUME NEW v \in Workers, pc'[v] # "idle"
               PROVE  StepOK(pc[v], ord[v])'
    BY DEF WorkersOK
  <2>1. CASE v = w
    BY <1>1, <1>2, <2>1 DEF IInv, Typed, RowsOK, GrantsOK, OrdersOK, OrderOK, CancelUpstream, Working, Moved,
        StepOK, Fulfilling, PaidSteps, PaidStatuses, Delivered, RefundStatuses,
        row, grants
  <2>2. CASE v # w
    <3>1. pc'[v] = pc[v] /\ ord'[v] = ord[v] /\ StepOK(pc[v], ord[v]) /\ ord[v] \in Orders
      BY <1>2, <2>2 DEF IInv, Typed, ProcsOK, WorkersOK, Moved
    <3>2. ord[v] = o => ~(pc[v] = "invoke" /\ pc[w] = "invoke")
                        /\ ~(pc[v] \in Critical /\ pc[w] \in Critical)
      BY <2>2 DEF IInv, Exclusive
    <3>3. QED
      BY <1>1, <3>1, <3>2 DEF IInv, Typed, RowsOK, GrantsOK, CancelUpstream, Working, StepOK, Critical,
        Fulfilling, PaidSteps, Delivered, RefundStatuses, row, grants
  <2>3. QED
    BY <2>1, <2>2
<1>6. Exclusive'
    BY <1>1, <1>2 DEF IInv, WorkersOK, StepOK, CancelUpstream, Exclusive, Moved, Critical, Fulfilling, Delivered,
        RefundStatuses
<1>7. OrdersOK'
    BY <1>1 DEF IInv, Typed, RowsOK, GrantsOK, OrdersOK, OrderOK, CancelUpstream, Working, StepOK, PaidSteps,
        PaidStatuses, Delivered, RefundStatuses, row, grants, Fulfilling
<1>8. QED
    BY <1>2, <1>3, <1>4, <1>5, <1>6, <1>7 DEF IInv, Typed

LEMMA CloseOrderInv ==
    ASSUME IInv, NEW w \in Workers, CloseOrder(w)
    PROVE  IInv'
<1> DEFINE o == ord[w]
<1>1. pc[w] = "close" /\ Working(w) /\ StepOK("close", o)
    BY DEF IInv, Typed, CloseOrder, Working, ProcsOK, WorkersOK
<1>2. ProcsOK' /\ AckedOK' /\ FaultsOK' /\ Moved(w, {"idle"})
    BY <1>1, ReturnMoves DEF IInv, Typed, CloseOrder, Moved, Steps, Fulfilling, FaultsOK
<1>3. RowsOK'
    BY <1>1 DEF IInv, Typed, RowsOK, CloseOrder, Working, Statuses, Delivered, grants, row, CompareAndSet, Closable, FinalStatus, Touch
<1>4. GrantsOK'
    BY <1>1 DEF IInv, Typed, GrantsOK, CloseOrder, Working, grants, CompareAndSet, Closable, FinalStatus, Touch
<1>5. WorkersOK'
  <2> SUFFICES ASSUME NEW v \in Workers, pc'[v] # "idle"
               PROVE  StepOK(pc[v], ord[v])'
    BY DEF WorkersOK
  <2>1. CASE v = w
    BY <1>1, <1>2, <2>1 DEF IInv, Typed, RowsOK, GrantsOK, OrdersOK, OrderOK, CloseOrder, Working, Moved,
        StepOK, Fulfilling, PaidSteps, PaidStatuses, Delivered, RefundStatuses,
        row, grants, CompareAndSet, Closable, FinalStatus, Touch
  <2>2. CASE v # w
    <3>1. pc'[v] = pc[v] /\ ord'[v] = ord[v] /\ StepOK(pc[v], ord[v]) /\ ord[v] \in Orders
      BY <1>2, <2>2 DEF IInv, Typed, ProcsOK, WorkersOK, Moved
    <3>2. ord[v] = o => ~(pc[v] = "invoke" /\ pc[w] = "invoke")
                        /\ ~(pc[v] \in Critical /\ pc[w] \in Critical)
      BY <2>2 DEF IInv, Exclusive
    <3>3. QED
      BY <1>1, <3>1, <3>2 DEF IInv, Typed, RowsOK, GrantsOK, CloseOrder, Working, StepOK, Critical,
        Fulfilling, PaidSteps, Delivered, RefundStatuses, row, grants, CompareAndSet, Closable, FinalStatus, Touch
  <2>3. QED
    BY <2>1, <2>2
<1>6. Exclusive'
    BY <1>1, <1>2 DEF IInv, WorkersOK, StepOK, CloseOrder, Exclusive, Moved, Critical, Fulfilling, Delivered,
        RefundStatuses, CompareAndSet, Closable, FinalStatus, Touch
<1>7. OrdersOK'
    BY <1>1 DEF IInv, Typed, RowsOK, GrantsOK, OrdersOK, OrderOK, CloseOrder, Working, StepOK, PaidSteps,
        PaidStatuses, Delivered, RefundStatuses, row, grants, Fulfilling, CompareAndSet, Closable, FinalStatus, Touch
<1>8. QED
    BY <1>2, <1>3, <1>4, <1>5, <1>6, <1>7 DEF IInv, Typed

-----------------------------------------------------------------------------
(* Steps that change no row.                                               *)

LEMMA AlreadyProcessedInv ==
    ASSUME IInv, NEW w \in Workers, AlreadyProcessed(w)
    PROVE  IInv'
<1>1. pc[w] = "already" /\ Working(w) /\ StepOK("already", ord[w])
    BY DEF IInv, Typed, AlreadyProcessed, Working, ProcsOK, WorkersOK
<1>2. ProcsOK' /\ AckedOK' /\ FaultsOK' /\ Moved(w, {"exec", "idle"})
    BY <1>1, GotoMoves, ReturnMoves, FaultCounts
    DEF IInv, Typed, AlreadyProcessed, Moved, Steps, FaultsOK
<1>3. StepOK("exec", ord[w])
    BY <1>1 DEF StepOK, PaidSteps, Fulfilling
<1>4. QED
    BY <1>1, <1>2, <1>3, MoveInv DEF AlreadyProcessed, Critical, Fulfilling

LEMMA ExecuteFulfillmentInv ==
    ASSUME IInv, NEW w \in Workers, ExecuteFulfillment(w)
    PROVE  IInv'
<1>1. pc[w] = "exec" /\ Working(w) /\ StepOK("exec", ord[w])
    BY DEF IInv, Typed, ExecuteFulfillment, Working, ProcsOK, WorkersOK
<1>2. ProcsOK' /\ AckedOK' /\ FaultsOK' /\ Moved(w, {"lock", "idle"})
    BY <1>1, GotoMoves, ReturnMoves
    DEF IInv, Typed, ExecuteFulfillment, Moved, Steps, FaultsOK
<1>3. StepOK("lock", ord[w])
    BY <1>1 DEF StepOK, PaidSteps, Fulfilling
<1>4. QED
    BY <1>1, <1>2, <1>3, MoveInv DEF ExecuteFulfillment, Critical, Fulfilling

LEMMA LookupCodeInv ==
    ASSUME IInv, NEW w \in Workers, LookupCode(w)
    PROVE  IInv'
<1> DEFINE next == RedeemAction(code[ord[w]])
<1>1. pc[w] = "lookup" /\ Working(w) /\ StepOK("lookup", ord[w])
    BY DEF IInv, Typed, LookupCode, Working, ProcsOK, WorkersOK
<1>2. /\ next \in {"create", "redeem", "rebate"}
      /\ next = "rebate" => code[ord[w]] = "used"
    BY <1>1 DEF IInv, Typed, GrantsOK, RedeemAction, Working
<1>3. ProcsOK' /\ AckedOK' /\ FaultsOK' /\ Moved(w, {next, "create"})
    BY <1>1, <1>2, GotoMoves, FaultCounts
    DEF IInv, Typed, LookupCode, Moved, Steps, Fulfilling, FaultsOK
<1>4. StepOK("create", ord[w]) /\ StepOK(next, ord[w])
    BY <1>1, <1>2 DEF StepOK, PaidSteps, Fulfilling
<1>5. QED
    BY <1>1, <1>2, <1>3, <1>4, MoveInv DEF LookupCode, Critical, Fulfilling

LEMMA CheckSubscriptionInv ==
    ASSUME IInv, NEW w \in Workers, CheckSubscription(w)
    PROVE  IInv'
<1>1. pc[w] = "subcheck" /\ Working(w) /\ StepOK("subcheck", ord[w])
    BY DEF IInv, Typed, CheckSubscription, Working, ProcsOK, WorkersOK
\* the audit row exists only for a delivered order, this one is RECHARGING
<1>2. subAudit[ord[w]] = FALSE
    BY <1>1 DEF IInv, Typed, GrantsOK, OrdersOK, OrderOK, StepOK, Working, Fulfilling,
        Delivered, RefundStatuses
<1>3. ProcsOK' /\ AckedOK' /\ FaultsOK' /\ Moved(w, {"assign"})
    BY <1>1, <1>2, GotoMoves, FaultCounts
    DEF IInv, Typed, CheckSubscription, Moved, Steps, Fulfilling, FaultsOK
<1>4. StepOK("assign", ord[w])
    BY <1>1 DEF StepOK, PaidSteps, Fulfilling
<1>5. QED
    BY <1>1, <1>3, <1>4, MoveInv DEF CheckSubscription, Critical, Fulfilling

LEMMA StepFailsInv ==
    ASSUME IInv, NEW w \in Workers, StepFails(w)
    PROVE  IInv'
<1>1. Working(w) /\ StepOK(pc[w], ord[w]) /\ pc[w] # "invoke"
    BY DEF IInv, Typed, StepFails, Working, ProcsOK, WorkersOK, Fulfilling
<1>2. ProcsOK' /\ AckedOK' /\ FaultsOK'
      /\ Moved(w, IF pc[w] \in Fulfilling THEN {"fail"} ELSE {"idle"})
    BY <1>1, ErrorMoves, FaultCounts DEF IInv, Typed, StepFails
<1>3. pc[w] \in Fulfilling => StepOK("fail", ord[w])
    BY <1>1 DEF StepOK, PaidSteps, Fulfilling
<1>4. QED
    BY <1>1, <1>2, <1>3, MoveInv DEF StepFails, Critical, Fulfilling

LEMMA CrashInv ==
    ASSUME IInv, NEW w \in Workers, Crash(w)
    PROVE  IInv'
<1>1. Working(w)
    BY DEF IInv, Typed, ProcsOK, Crash, Working
<1>2. ProcsOK' /\ AckedOK' /\ FaultsOK' /\ Moved(w, {"idle"})
    BY LeaveMoves, FaultCounts DEF IInv, Typed, Crash, AckedOK
<1>3. QED
    BY <1>1, <1>2, MoveInv DEF Crash, Critical, Fulfilling

\* Every request but CreateOrder starts with a read.
LEMMA RequestInv ==
    ASSUME IInv, NEW w \in Workers, NEW o \in Orders, Request(w, o)
    PROVE  IInv'
<1>1. CASE CreateOrder(w, o)
    BY <1>1, CreateOrderInv
<1>2. CASE Webhook(w, o)
  <2>1. StepOK("toPaid", o)
    BY <1>2 DEF IInv, Typed, RowsOK, OrdersOK, OrderOK, Webhook, ConfirmPasses, StepOK, PaidSteps,
        Fulfilling
  <2>2. QED
    BY <1>2, <2>1, BeginInv DEF Webhook, Kinds, Steps, Critical, Fulfilling
<1>3. CASE RetryFulfillment(w, o)
  <2>1. StepOK("reset", o)
    BY <1>3 DEF IInv, Typed, RowsOK, OrdersOK, OrderOK, RetryFulfillment, CanFulfill, StepOK,
        PaidSteps, Fulfilling
  <2>2. QED
    BY <1>3, <2>1, BeginInv DEF RetryFulfillment, Kinds, Steps, Critical, Fulfilling
<1>4. ASSUME CancelOrder(w, o) \/ ExpireTimedOutOrder(w, o) \/ VerifyOrder(w, o)
      PROVE  IInv'
  <2>1. StepOK("query", o)
    BY <1>4 DEF CancelOrder, ExpireTimedOutOrder, VerifyOrder, StepOK, PaidSteps, Fulfilling
  <2>2. \E k \in Kinds : Begin(w, k, o, "query") /\ UNCHANGED <<row, upstream, acked, grants, faults>>
    BY <1>4 DEF CancelOrder, ExpireTimedOutOrder, VerifyOrder, Kinds
  <2>3. QED
    BY <2>1, <2>2, BeginInv DEF Steps, Critical, Fulfilling
<1>5. QED
    BY <1>1, <1>2, <1>3, <1>4 DEF Request

-----------------------------------------------------------------------------
(* Steps of the environment.                                               *)

LEMMA EnvironmentInv ==
    ASSUME IInv, NEW o \in Orders, Environment(o)
    PROVE  IInv'
<1>1. Typed'
  <2>1. RowsOK'
    BY DEF IInv, Typed, RowsOK, Environment, UserPays, DeadlinePasses, GracePasses, UserRedeems,
        WebhookBlindAck, RefundStarts, RefundEnds, Touch, row, Statuses, Delivered,
        RefundStatuses
  <2>2. GrantsOK'
    BY DEF IInv, Typed, GrantsOK, Environment, UserPays, DeadlinePasses, GracePasses,
        UserRedeems, UseCode, WebhookBlindAck, RefundStarts, RefundEnds, grants
  <2>3. ProcsOK' /\ AckedOK' /\ FaultsOK'
    BY FaultCounts DEF IInv, Typed, ProcsOK, AckedOK, FaultsOK, Environment, UserPays, DeadlinePasses,
        GracePasses, UserRedeems, WebhookBlindAck, RefundStarts, RefundEnds, procs
  <2>4. QED
    BY <2>1, <2>2, <2>3 DEF Typed
<1>2. UNCHANGED procs
    BY DEF Environment, UserPays, DeadlinePasses, GracePasses, UserRedeems,
        WebhookBlindAck, RefundStarts, RefundEnds
<1>3. WorkersOK'
  <2> SUFFICES ASSUME NEW w \in Workers, pc[w] # "idle"
               PROVE  StepOK(pc[w], ord[w])'
    BY <1>2 DEF WorkersOK, procs
  <2>1. StepOK(pc[w], ord[w]) /\ ord[w] \in Orders
    BY DEF IInv, Typed, ProcsOK, WorkersOK
  <2>2. QED
    BY <1>2, <2>1 DEF IInv, Typed, RowsOK, GrantsOK, StepOK, Environment, UserPays, DeadlinePasses,
        GracePasses, UserRedeems, UseCode, WebhookBlindAck, RefundStarts, RefundEnds, row,
        grants, procs, PaidSteps, Fulfilling, Delivered, RefundStatuses
<1>4. Exclusive'
    BY <1>2 DEF IInv, Exclusive, procs
<1>5. OrdersOK'
    BY DEF IInv, Typed, RowsOK, GrantsOK, OrdersOK, OrderOK, Environment, UserPays,
        DeadlinePasses, GracePasses, UserRedeems, UseCode, WebhookBlindAck, RefundStarts,
        RefundEnds, row, grants, PaidStatuses, Delivered, RefundStatuses
<1>6. QED
    BY <1>1, <1>3, <1>4, <1>5 DEF IInv

-----------------------------------------------------------------------------
(* The invariant and what follows from it.                                 *)

LEMMA InitInv == Init => IInv
BY FaultAssumption, OrderAssumption
DEF Init, IInv, Typed, RowsOK, GrantsOK, ProcsOK, AckedOK, FaultsOK, WorkersOK, Exclusive,
    OrdersOK, OrderOK, Statuses, Delivered, RefundStatuses, Steps, Kinds, PaidStatuses,
    Critical, Fulfilling

LEMMA NextInv == IInv /\ [Next]_vars => IInv'
<1> SUFFICES ASSUME IInv, [Next]_vars PROVE IInv'
    OBVIOUS
<1>1. ASSUME NEW o \in Orders, Environment(o) PROVE IInv'
    BY <1>1, EnvironmentInv
<1>2. ASSUME NEW w \in Workers, NEW o \in Orders, Request(w, o) PROVE IInv'
    BY <1>2, RequestInv
<1>3. ASSUME NEW w \in Workers, Progress(w) PROVE IInv'
    BY <1>3, InvokeProviderInv, InvokeProviderFailsInv, ToPaidInv, AlreadyProcessedInv,
        ExecuteFulfillmentInv, LockFulfillmentInv, LookupCodeInv, CreateCodeInv,
        RedeemCodeInv, ApplyRebateInv, CheckSubscriptionInv, AssignOrExtendInv,
        MarkCompletedInv, AuditCompletedInv, MarkFailedInv, ResetForRetryInv,
        QueryUpstreamInv, CancelUpstreamInv, CloseOrderInv DEF Progress
<1>4. ASSUME NEW w \in Workers, StepFails(w) \/ Crash(w) PROVE IInv'
    BY <1>4, StepFailsInv, CrashInv
<1>5. CASE UNCHANGED vars
    BY <1>5 DEF vars, IInv, Typed, RowsOK, GrantsOK, ProcsOK, AckedOK, FaultsOK, WorkersOK,
        StepOK, Exclusive, OrdersOK, OrderOK
<1>6. QED
    BY <1>1, <1>2, <1>3, <1>4, <1>5 DEF Next

\* The inductive invariant holds throughout.
THEOREM Invariance == Spec => []IInv
BY InitInv, NextInv, PTL DEF Spec

\* Every variable keeps its type, for any number of workers and failures.
THEOREM TypeCorrect == Spec => []TypeOK
<1>1. IInv => TypeOK
    BY TypeParts DEF IInv
<1>2. QED
    BY <1>1, Invariance, PTL

\* The compare-and-set to RECHARGING excludes a second fulfilment.
THEOREM OneFulfiller == Spec => []SoleFulfiller
<1>1. IInv => SoleFulfiller
    BY DEF IInv, Typed, ProcsOK, WorkersOK, StepOK, Exclusive, SoleFulfiller, InFulfilment,
        Critical, Fulfilling
<1>2. QED
    BY <1>1, Invariance, PTL

\* No interleaving, failure or retry credits an order twice.
THEOREM CreditedOnce == Spec => []CreditedAtMostOnce
<1>1. IInv => CreditedAtMostOnce
  <2> SUFFICES ASSUME IInv, NEW o \in Orders PROVE credited[o] <= 1
    BY DEF CreditedAtMostOnce
  <2>1. credited[o] = 0 \/ credited[o] = 1
    BY DEF IInv, OrdersOK, OrderOK
  <2>2. QED
    BY <2>1
<1>2. QED
    BY <1>1, Invariance, PTL

\* COMPLETED, and the refund statuses after it, mean delivered.
THEOREM CompletedDelivered == Spec => []CompletedIsDelivered
<1>1. IInv => CompletedIsDelivered
    BY DEF IInv, Typed, GrantsOK, OrdersOK, OrderOK, CompletedIsDelivered
<1>2. QED
    BY <1>1, Invariance, PTL

\* Credit, subscription and rebate all presuppose a payment in full.
THEOREM DeliveryPaid == Spec => []NoDeliveryUnpaid
<1>1. IInv => NoDeliveryUnpaid
    BY DEF IInv, Typed, GrantsOK, OrdersOK, OrderOK, NoDeliveryUnpaid
<1>2. QED
    BY <1>1, Invariance, PTL

\* The inviter's rebate is accrued once and after the credit.
THEOREM RebateOnce == Spec => []RebateAtMostOnce
<1>1. IInv => RebateAtMostOnce
  <2> SUFFICES ASSUME IInv, NEW o \in Orders
               PROVE  rebates[o] <= 1 /\ (rebates[o] = 1 => credited[o] >= 1)
    BY DEF RebateAtMostOnce
  <2>1. rebates[o] = 0 \/ (rebates[o] = 1 /\ credited[o] = 1)
    BY DEF IInv, Typed, GrantsOK, OrdersOK, OrderOK
  <2>2. QED
    BY <2>1
<1>2. QED
    BY <1>1, Invariance, PTL

-----------------------------------------------------------------------------
(* Action properties and the refinement.                                   *)

\* The changes of status there are.
Transitions ==
    {<<"none", "PENDING">>, <<"PENDING", "PAID">>, <<"CANCELLED", "PAID">>,
     <<"EXPIRED", "PAID">>, <<"PENDING", "CANCELLED">>, <<"PENDING", "EXPIRED">>,
     <<"PENDING", "FAILED">>, <<"CANCELLED", "FAILED">>, <<"EXPIRED", "FAILED">>,
     <<"PAID", "RECHARGING">>, <<"FAILED", "RECHARGING">>, <<"FAILED", "PAID">>,
     <<"RECHARGING", "COMPLETED">>, <<"RECHARGING", "FAILED">>,
     <<"COMPLETED", "REFUNDING">>, <<"REFUNDING", "REFUNDED">>,
     <<"REFUNDING", "COMPLETED">>}

StatusMoves ==
    \A o \in Orders :
        status'[o] = status[o] \/ <<status[o], status'[o]>> \in Transitions

LEMMA StatusGraphStep == IInv /\ [Next]_vars => StatusMoves
<1> SUFFICES ASSUME IInv, [Next]_vars PROVE StatusMoves
    OBVIOUS
<1> USE DEF IInv, Typed, RowsOK, StatusMoves, Transitions
<1>1. ASSUME NEW o \in Orders, Environment(o) PROVE StatusMoves
    BY <1>1 DEF Environment, UserPays, DeadlinePasses, GracePasses, UserRedeems,
        WebhookBlindAck, RefundStarts, RefundEnds, row
<1>2. ASSUME NEW w \in Workers, NEW o \in Orders, Request(w, o) PROVE StatusMoves
    BY <1>2 DEF Request, CreateOrder, Webhook, RetryFulfillment, CancelOrder,
        ExpireTimedOutOrder, VerifyOrder, row
<1>3. ASSUME NEW w \in Workers, InvokeProviderFails(w) PROVE StatusMoves
  <2>1. ord[w] \in Orders /\ StepOK("invoke", ord[w]) /\ OrderOK(ord[w])
    BY <1>3 DEF InvokeProviderFails, ProcsOK, WorkersOK, OrdersOK
  <2>2. status[ord[w]] \in {"PENDING", "CANCELLED", "EXPIRED", "FAILED"}
    BY <2>1 DEF StepOK, OrderOK, Statuses, PaidStatuses
  <2>3. QED
    BY <1>3, <2>1, <2>2 DEF InvokeProviderFails
<1>4. ASSUME NEW w \in Workers,
             ToPaid(w) \/ LockFulfillment(w) \/ ResetForRetry(w)
      PROVE  StatusMoves
    BY <1>4 DEF ToPaid, PayableNow, LockFulfillment, ResetForRetry, CanFulfill
<1>5. ASSUME NEW w \in Workers,
             MarkCompleted(w) \/ MarkFailed(w) \/ CloseOrder(w)
      PROVE  StatusMoves
    BY <1>5 DEF MarkCompleted, MarkFailed, CloseOrder, CompareAndSet, Closable, FinalStatus
<1>6. ASSUME NEW w \in Workers,
             \/ InvokeProvider(w) \/ AlreadyProcessed(w) \/ ExecuteFulfillment(w)
             \/ LookupCode(w) \/ CreateCode(w) \/ RedeemCode(w) \/ ApplyRebate(w)
             \/ CheckSubscription(w) \/ AssignOrExtend(w) \/ AuditCompleted(w)
             \/ QueryUpstream(w) \/ CancelUpstream(w) \/ StepFails(w) \/ Crash(w)
      PROVE  StatusMoves
  <2>1. UNCHANGED status
    BY <1>6 DEF InvokeProvider, AlreadyProcessed, ExecuteFulfillment, LookupCode, CreateCode,
        RedeemCode, ApplyRebate, CheckSubscription, AssignOrExtend, AuditCompleted,
        QueryUpstream, CancelUpstream, StepFails, Crash, row
  <2>2. QED
    BY <2>1
<1>7. CASE UNCHANGED vars
    BY <1>7 DEF vars
<1>8. QED
    BY <1>1, <1>2, <1>3, <1>4, <1>5, <1>6, <1>7 DEF Next, Progress

\* The status of an order moves along the edges of one graph: no race of webhooks,
\* retries, cancels, expiries and refunds makes another change of status.
THEOREM StatusGraph == Spec => [][StatusMoves]_vars
<1>1. IInv /\ [Next]_vars => [StatusMoves]_vars
    BY StatusGraphStep
<1>2. QED
    BY <1>1, Invariance, PTL DEF Spec

\* A cancel or an expiry never takes a confirmed payment back.
THEOREM ConfirmedStays == Spec => ConfirmedStaysConfirmed
<1>1. IInv /\ [Next]_vars => [\A o \in Orders : status[o] \in PaidStatuses =>
                                 status'[o] \in PaidStatuses \cup {"FAILED"}]_vars
  <2> SUFFICES ASSUME IInv, [Next]_vars, NEW o \in Orders, status[o] \in PaidStatuses
               PROVE  status'[o] \in PaidStatuses \cup {"FAILED"}
    OBVIOUS
  <2>1. status'[o] = status[o] \/ <<status[o], status'[o]>> \in Transitions
    BY StatusGraphStep DEF StatusMoves
  <2>2. QED
    BY <2>1 DEF Transitions, PaidStatuses, Delivered, RefundStatuses
<1>2. QED
    BY <1>1, Invariance, PTL DEF Spec, ConfirmedStaysConfirmed

\* No step leads from a completed order back into fulfilment.
THEOREM CompletedStays == Spec => CompletedIsFinal
<1>1. IInv /\ [Next]_vars =>
          [\A o \in Orders : status[o] \in Delivered => status'[o] \in Delivered]_vars
  <2> SUFFICES ASSUME IInv, [Next]_vars, NEW o \in Orders, status[o] \in Delivered
               PROVE  status'[o] \in Delivered
    OBVIOUS
  <2>1. status'[o] = status[o] \/ <<status[o], status'[o]>> \in Transitions
    BY StatusGraphStep DEF StatusMoves
  <2>2. QED
    BY <2>1 DEF Transitions, Delivered, RefundStatuses
<1>2. QED
    BY <1>1, Invariance, PTL DEF Spec, CompletedIsFinal

\* What OrderLedger sees of the four columns of one step.
LedgerSees(o) ==
    <<upstream[o] = "paid", credited[o], claim[o] # "none", status[o] \in Delivered>>

LEMMA LedgerStutters ==
    ASSUME \A o \in Balance : LedgerSees(o)' = LedgerSees(o)
    PROVE  UNCHANGED Ledger!vars
BY DEF LedgerSees, Ledger!vars

\* A step that only turns one order paid, granted, decided or closed is a step
\* of the ledger.
LEMMA LedgerPays ==
    ASSUME IInv, NEW a \in Orders, upstream[a] = "unpaid",
           upstream' = [upstream EXCEPT ![a] = "paid"],
           UNCHANGED <<credited, claim, status>>
    PROVE  [Ledger!Next]_Ledger!vars
<1>1. CASE a \in Balance
  <2>1. Ledger!Pay(a)
    BY <1>1 DEF IInv, Typed, RowsOK, Balance, Ledger!Pay
  <2>2. QED
    BY <1>1, <2>1 DEF Ledger!Next
<1>2. CASE a \notin Balance
    BY <1>2, LedgerStutters DEF IInv, Typed, RowsOK, LedgerSees, Balance
<1>3. QED
    BY <1>1, <1>2

LEMMA LedgerGrants ==
    ASSUME IInv, NEW a \in Orders, UseCode(a), UNCHANGED <<upstream, claim, status>>
    PROVE  [Ledger!Next]_Ledger!vars
<1>1. upstream[a] = "paid" /\ credited[a] = 0 /\ credited' = [credited EXCEPT ![a] = 1]
  <2>1. upstream[a] = "paid" /\ credited[a] = 0
    BY DEF IInv, OrdersOK, OrderOK, UseCode
  <2>2. QED
    BY <2>1 DEF UseCode
<1>2. CASE a \in Balance
  <2>1. Ledger!Grant(a)
    BY <1>1, <1>2 DEF IInv, Typed, GrantsOK, Balance, Ledger!Grant
  <2>2. QED
    BY <1>2, <2>1 DEF Ledger!Next
<1>3. CASE a \notin Balance
    BY <1>1, <1>3, LedgerStutters DEF IInv, Typed, GrantsOK, LedgerSees, Balance
<1>4. QED
    BY <1>2, <1>3

LEMMA LedgerDecides ==
    ASSUME IInv, NEW a \in Balance, NEW c \in {"APPLIED", "SKIPPED"},
           claim[a] = "none", claim' = [claim EXCEPT ![a] = c], code[a] = "used",
           UNCHANGED <<upstream, credited, status>>
    PROVE  [Ledger!Next]_Ledger!vars
<1>1. credited[a] = 1 /\ a \in Orders
    BY DEF IInv, OrdersOK, OrderOK, Balance
<1>2. Ledger!Decide(a)
    BY <1>1 DEF IInv, Typed, GrantsOK, Balance, Ledger!Decide
<1>3. QED
    BY <1>2 DEF Ledger!Next

LEMMA LedgerCloses ==
    ASSUME IInv, NEW a \in Orders, status[a] = "RECHARGING",
           status' = [status EXCEPT ![a] = "COMPLETED"],
           a \in Balance => claim[a] # "none",
           UNCHANGED <<upstream, credited, claim>>
    PROVE  [Ledger!Next]_Ledger!vars
<1>1. CASE a \in Balance
  <2>1. Ledger!Close(a)
    BY <1>1 DEF IInv, Typed, RowsOK, Balance, Delivered, RefundStatuses, Ledger!Close
  <2>2. QED
    BY <1>1, <2>1 DEF Ledger!Next
<1>2. CASE a \notin Balance
    BY <1>2, LedgerStutters DEF IInv, Typed, RowsOK, LedgerSees, Balance
<1>3. QED
    BY <1>1, <1>2

LEMMA LedgerSteps == IInv /\ [Next]_vars => [Ledger!Next]_Ledger!vars
<1> SUFFICES ASSUME IInv, [Next]_vars PROVE [Ledger!Next]_Ledger!vars
    OBVIOUS
<1>1. ASSUME NEW o \in Orders, UserPays(o) PROVE [Ledger!Next]_Ledger!vars
  <2>1. CASE upstream' = [upstream EXCEPT ![o] = "paid"]
    BY <1>1, <2>1, LedgerPays DEF UserPays, row, grants
  <2>2. CASE upstream' = [upstream EXCEPT ![o] = "mispaid"]
    BY <1>1, <2>2, LedgerStutters
    DEF IInv, Typed, RowsOK, UserPays, row, grants, LedgerSees, Balance
  <2>3. QED
    BY <1>1, <2>1, <2>2 DEF UserPays
<1>2. ASSUME NEW o \in Orders, UserRedeems(o) PROVE [Ledger!Next]_Ledger!vars
    BY <1>2, LedgerGrants DEF UserRedeems, row
<1>3. ASSUME NEW w \in Workers, RedeemCode(w) PROVE [Ledger!Next]_Ledger!vars
  <2>1. ord[w] \in Orders
    BY <1>3 DEF IInv, Typed, ProcsOK, RedeemCode
  <2>2. CASE UseCode(ord[w])
    BY <1>3, <2>1, <2>2, LedgerGrants DEF RedeemCode, row
  <2>3. CASE UNCHANGED credited
    BY <1>3, <2>3, LedgerStutters DEF RedeemCode, row, LedgerSees
  <2>4. QED
    BY <1>3, <2>2, <2>3 DEF RedeemCode
<1>4. ASSUME NEW w \in Workers, ApplyRebate(w) PROVE [Ledger!Next]_Ledger!vars
  <2>1. StepOK("rebate", ord[w]) /\ ord[w] \in Balance
    BY <1>4 DEF IInv, Typed, ProcsOK, WorkersOK, StepOK, ApplyRebate, Balance
  <2>2. CASE UNCHANGED claim
    BY <1>4, <2>2, LedgerStutters DEF ApplyRebate, row, LedgerSees
  <2>3. CASE ClaimFree(ord[w]) /\ ~UNCHANGED claim
    BY <1>4, <2>1, <2>3, LedgerDecides DEF ApplyRebate, ClaimFree, StepOK, row
  <2>4. QED
    BY <1>4, <2>2, <2>3 DEF ApplyRebate
<1>5. ASSUME NEW w \in Workers, MarkCompleted(w) PROVE [Ledger!Next]_Ledger!vars
  <2>1. StepOK("complete", ord[w]) /\ ord[w] \in Orders
    BY <1>5 DEF IInv, Typed, ProcsOK, WorkersOK, MarkCompleted
  <2>2. /\ status[ord[w]] = "RECHARGING"
        /\ ord[w] \in Balance => claim[ord[w]] # "none"
    BY <2>1 DEF StepOK, Balance, Fulfilling
  <2>3. QED
    BY <1>5, <2>1, <2>2, LedgerCloses DEF MarkCompleted, CompareAndSet, grants
\* every other step leaves the four columns as the ledger sees them
<1>6. ASSUME UNCHANGED <<credited, claim>>,
             \A o \in Orders : /\ upstream[o] = "paid" <=> upstream'[o] = "paid"
                               /\ status[o] \in Delivered <=> status'[o] \in Delivered
      PROVE  [Ledger!Next]_Ledger!vars
    BY <1>6, LedgerStutters DEF LedgerSees, Balance
<1>7. ASSUME NEW o \in Orders, DeadlinePasses(o) \/ GracePasses(o) \/ WebhookBlindAck(o)
                               \/ RefundStarts(o) \/ RefundEnds(o)
      PROVE  [Ledger!Next]_Ledger!vars
    BY <1>6, <1>7 DEF IInv, Typed, RowsOK, DeadlinePasses, GracePasses, WebhookBlindAck, RefundStarts,
        RefundEnds, row, grants, Delivered, RefundStatuses
<1>8. ASSUME NEW w \in Workers, NEW o \in Orders, Request(w, o)
      PROVE  [Ledger!Next]_Ledger!vars
    BY <1>6, <1>8 DEF IInv, Typed, RowsOK, Request, CreateOrder, Webhook, RetryFulfillment,
        CancelOrder, ExpireTimedOutOrder, VerifyOrder, row, grants, Delivered, RefundStatuses
<1>9. ASSUME NEW w \in Workers, InvokeProvider(w) \/ InvokeProviderFails(w)
      PROVE  [Ledger!Next]_Ledger!vars
  <2>1. StepOK("invoke", ord[w]) /\ OrderOK(ord[w]) /\ ord[w] \in Orders
    BY <1>9 DEF IInv, Typed, ProcsOK, WorkersOK, OrdersOK, InvokeProvider, InvokeProviderFails
  <2>2. QED
    BY <1>6, <1>9, <2>1 DEF IInv, Typed, RowsOK, InvokeProvider, InvokeProviderFails, StepOK, OrderOK,
        grants, Delivered, RefundStatuses, PaidStatuses
<1>10. ASSUME NEW w \in Workers, ToPaid(w) \/ LockFulfillment(w) \/ ResetForRetry(w)
       PROVE  [Ledger!Next]_Ledger!vars
    BY <1>6, <1>10 DEF IInv, Typed, RowsOK, ToPaid, PayableNow, LockFulfillment, ResetForRetry,
        CanFulfill, grants, Delivered, RefundStatuses
<1>11. ASSUME NEW w \in Workers, MarkFailed(w) \/ CloseOrder(w)
       PROVE  [Ledger!Next]_Ledger!vars
    BY <1>6, <1>11 DEF IInv, Typed, RowsOK, MarkFailed, CloseOrder, CompareAndSet, Closable,
        FinalStatus, grants, Delivered, RefundStatuses
<1>12. ASSUME NEW w \in Workers,
              \/ AlreadyProcessed(w) \/ ExecuteFulfillment(w) \/ LookupCode(w)
              \/ CreateCode(w) \/ CheckSubscription(w) \/ AssignOrExtend(w)
              \/ AuditCompleted(w) \/ QueryUpstream(w) \/ StepFails(w) \/ Crash(w)
       PROVE  [Ledger!Next]_Ledger!vars
  <2>1. UNCHANGED <<upstream, credited, claim, status>>
    BY <1>12 DEF AlreadyProcessed, ExecuteFulfillment, LookupCode, CreateCode, CheckSubscription,
        AssignOrExtend, AuditCompleted, QueryUpstream, StepFails, Crash, row, grants
  <2>2. QED
    BY <1>6, <2>1
<1>13. ASSUME NEW w \in Workers, CancelUpstream(w) PROVE [Ledger!Next]_Ledger!vars
    BY <1>6, <1>13 DEF IInv, Typed, RowsOK, CancelUpstream, row, grants
<1>14. CASE UNCHANGED vars
    BY <1>6, <1>14 DEF vars
<1>15. QED
    BY <1>1, <1>2, <1>3, <1>4, <1>5, <1>7, <1>8, <1>9, <1>10, <1>11, <1>12, <1>13, <1>14
    DEF Next, Environment, Progress

\* The order lifecycle implements the ledger: every step of it is a step of the
\* ledger or changes nothing the ledger sees.
THEOREM Refinement == Spec => ImplementsLedger
<1>1. Init => Ledger!Init
  <2> SUFFICES ASSUME Init PROVE Ledger!Init
    OBVIOUS
  <2>1. \A o \in Balance : /\ upstream[o] # "paid" /\ status[o] \notin Delivered
                            /\ credited[o] = 0 /\ claim[o] = "none"
    BY DEF Init, Delivered, RefundStatuses, Balance
  <2>2. [o \in Balance |-> upstream[o] = "paid"] = [o \in Balance |-> FALSE]
    BY <2>1
  <2>3. [o \in Balance |-> credited[o]] = [o \in Balance |-> 0]
    BY <2>1
  <2>4. [o \in Balance |-> claim[o] # "none"] = [o \in Balance |-> FALSE]
    BY <2>1
  <2>5. [o \in Balance |-> status[o] \in Delivered] = [o \in Balance |-> FALSE]
    <3>1. \A o \in Balance : (status[o] \in Delivered) = FALSE
      BY <2>1
    <3>2. QED
      BY <3>1, Zenon
  <2>6. QED
    BY <2>2, <2>3, <2>4, <2>5 DEF Ledger!Init
<1>2. QED
    BY <1>1, LedgerSteps, Invariance, PTL DEF Spec, ImplementsLedger, Ledger!Spec

-----------------------------------------------------------------------------
(***************************************************************************)
(* What a webhook is answered.  A worker that found the order not payable, *)
(* or made it PAID, deals with an order whose payment is recorded from     *)
(* then on.                                                                *)
(***************************************************************************)

Recorded == Statuses \ {"none", "PENDING", "CANCELLED"}

\* Steps behind toPaid, before the lock and fulfilment, and steps that no webhook
\* comes to.
BehindPaid == {"already", "exec", "lock", "reset"}
Asking     == {"invoke", "query", "cancelUp", "close"}

Heard(w) ==
    /\ pc[w] \in BehindPaid => status[ord[w]] \in Recorded
    /\ pc[w] \in Asking => kind[w] # "webhook"

AllHeard == \A w \in Workers : Heard(w)

LEMMA RecordedStays ==
    ASSUME IInv, [Next]_vars, NEW o \in Orders, status[o] \in Recorded
    PROVE  status'[o] \in Recorded
<1>1. status'[o] = status[o] \/ <<status[o], status'[o]>> \in Transitions
    BY StatusGraphStep DEF StatusMoves
<1>2. QED
    BY <1>1 DEF Transitions, Recorded, Statuses, Delivered, RefundStatuses

LEMMA HeardOfOne ==
    ASSUME IInv, AllHeard, [Next]_vars, NEW w \in Workers,
           \A v \in Workers \ {w} :
               pc'[v] = pc[v] /\ ord'[v] = ord[v] /\ kind'[v] = kind[v],
           Heard(w)'
    PROVE  AllHeard'
<1>1. ASSUME NEW v \in Workers, v # w PROVE Heard(v)'
  <2>1. Heard(v) /\ (pc[v] \in BehindPaid => ord[v] \in Orders)
    BY DEF AllHeard, IInv, Typed, ProcsOK, BehindPaid
  <2>2. QED
    BY <1>1, <2>1, RecordedStays DEF Heard
<1>2. QED
    BY <1>1 DEF AllHeard

LEMMA HeardGoto ==
    ASSUME IInv, AllHeard, [Next]_vars, NEW w \in Workers, NEW step \in Steps, Goto(w, step),
           step \in BehindPaid => status'[ord[w]] \in Recorded,
           step \in Asking => pc[w] \in Asking
    PROVE  AllHeard'
<1>1. /\ pc'[w] = step /\ UNCHANGED <<kind, ord>>
      /\ \A v \in Workers \ {w} : pc'[v] = pc[v]
    BY DEF Goto, IInv, Typed, ProcsOK
<1>2. Heard(w)'
    BY <1>1 DEF Heard, AllHeard
<1>3. QED
    BY <1>1, <1>2, HeardOfOne

LEMMA HeardLeave ==
    ASSUME IInv, AllHeard, [Next]_vars, NEW w \in Workers, Leave(w)
    PROVE  AllHeard'
<1>1. /\ pc'[w] = "idle"
      /\ \A v \in Workers \ {w} :
            pc'[v] = pc[v] /\ ord'[v] = ord[v] /\ kind'[v] = kind[v]
    BY DEF Leave, IInv, Typed, ProcsOK
<1>2. Heard(w)'
    BY <1>1 DEF Heard, BehindPaid, Asking
<1>3. QED
    BY <1>1, <1>2, HeardOfOne

LEMMA HeardBegin ==
    ASSUME IInv, AllHeard, [Next]_vars, NEW w \in Workers, NEW o \in Orders, NEW k,
           NEW step, Begin(w, k, o, step),
           step \in BehindPaid => status'[o] \in Recorded,
           step \in Asking => k # "webhook"
    PROVE  AllHeard'
<1>1. /\ pc'[w] = step /\ kind'[w] = k /\ ord'[w] = o
      /\ \A v \in Workers \ {w} :
            pc'[v] = pc[v] /\ ord'[v] = ord[v] /\ kind'[v] = kind[v]
    BY DEF Begin, IInv, Typed, ProcsOK
<1>2. Heard(w)'
    BY <1>1 DEF Heard
<1>3. QED
    BY <1>1, <1>2, HeardOfOne

LEMMA HeardError ==
    ASSUME IInv, AllHeard, [Next]_vars, NEW w \in Workers, Error(w)
    PROVE  AllHeard'
<1>1. "fail" \in Steps /\ "fail" \notin BehindPaid \cup Asking
    BY DEF Steps, BehindPaid, Asking
<1>2. QED
    BY <1>1, HeardGoto, HeardLeave DEF Error, Return

LEMMA HeardStep ==
    ASSUME IInv, AllHeard, [Next]_vars
    PROVE  AllHeard'
<1>0. ASSUME UNCHANGED procs PROVE AllHeard'
  <2>1. ASSUME NEW w \in Workers PROVE Heard(w)'
    <3>1. Heard(w) /\ (pc[w] \in BehindPaid => ord[w] \in Orders)
      BY DEF AllHeard, IInv, Typed, ProcsOK, BehindPaid
    <3>2. QED
      BY <1>0, <3>1, RecordedStays DEF Heard, procs
  <2>2. QED
    BY <2>1 DEF AllHeard
<1>1. ASSUME NEW o \in Orders, Environment(o) PROVE AllHeard'
    BY <1>0, <1>1 DEF Environment, UserPays, DeadlinePasses, GracePasses, UserRedeems,
        WebhookBlindAck, RefundStarts, RefundEnds
<1>2. ASSUME NEW w \in Workers, NEW o \in Orders, Request(w, o) PROVE AllHeard'
  <2>1. CASE RetryFulfillment(w, o)
    <3>1. Begin(w, "retry", o, "reset") /\ status'[o] \in Recorded
      BY <2>1 DEF RetryFulfillment, CanFulfill, Recorded, Statuses, row
    <3>2. QED
      BY <3>1, HeardBegin DEF Asking
  <2>2. CASE CreateOrder(w, o) \/ Webhook(w, o) \/ CancelOrder(w, o)
             \/ ExpireTimedOutOrder(w, o) \/ VerifyOrder(w, o)
    BY <2>2, HeardBegin DEF CreateOrder, Webhook, CancelOrder, ExpireTimedOutOrder,
        VerifyOrder, BehindPaid, Asking
  <2>3. QED
    BY <1>2, <2>1, <2>2 DEF Request
<1>3. ASSUME NEW w \in Workers, Progress(w) PROVE AllHeard'
  <2>0. Heard(w) /\ (pc[w] # "idle" => ord[w] \in Orders /\ status[ord[w]] \in Statuses \ {"none"})
    BY DEF AllHeard, IInv, Typed, ProcsOK, RowsOK, WorkersOK, StepOK
  <2>1. CASE InvokeProvider(w) \/ InvokeProviderFails(w) \/ AuditCompleted(w) \/ MarkFailed(w)
             \/ CloseOrder(w)
    BY <2>1, HeardLeave DEF InvokeProvider, InvokeProviderFails, AuditCompleted, MarkFailed,
        CloseOrder, Return
  <2>2. CASE ToPaid(w)
    <3>1. CASE Goto(w, "exec") /\ status' = [status EXCEPT ![ord[w]] = "PAID"]
      <4>1. status'[ord[w]] \in Recorded
        BY <2>0, <2>2, <3>1 DEF ToPaid, Recorded, Statuses, IInv, Typed, RowsOK
      <4>2. QED
        BY <3>1, <4>1, HeardGoto DEF Steps, Asking
    <3>2. CASE Goto(w, "already") /\ ~PayableNow(ord[w]) /\ UNCHANGED status
      <4>1. status'[ord[w]] \in Recorded
        BY <2>0, <2>2, <3>2 DEF ToPaid, PayableNow, Recorded
      <4>2. QED
        BY <3>2, <4>1, HeardGoto DEF Steps, Asking
    <3>3. QED
      BY <2>2, <3>1, <3>2, HeardError DEF ToPaid, Reply
  <2>3. CASE AlreadyProcessed(w) \/ ExecuteFulfillment(w)
    <3>1. status[ord[w]] \in Recorded /\ UNCHANGED status
      BY <2>0, <2>3 DEF AlreadyProcessed, ExecuteFulfillment, Heard, BehindPaid, row
    <3>2. \A step \in {"exec", "lock"} : Goto(w, step) => AllHeard'
      BY <3>1, HeardGoto DEF Steps, Asking
    <3>3. QED
      BY <2>3, <3>2, HeardLeave DEF AlreadyProcessed, ExecuteFulfillment, Return
  <2>4. CASE ResetForRetry(w)
    <3>1. status'[ord[w]] \in Recorded
      BY <2>0, <2>4, RecordedStays DEF ResetForRetry, Heard, BehindPaid
    <3>2. Goto(w, "exec") => AllHeard'
      BY <3>1, HeardGoto DEF Steps, Asking
    <3>3. QED
      BY <2>4, <3>2, HeardError DEF ResetForRetry, Reply
  <2>5. CASE LockFulfillment(w) \/ LookupCode(w) \/ CreateCode(w) \/ RedeemCode(w)
             \/ ApplyRebate(w) \/ CheckSubscription(w) \/ AssignOrExtend(w) \/ MarkCompleted(w)
    <3>1. \A step \in Fulfilling \cup {"audit"} : Goto(w, step) => AllHeard'
      BY HeardGoto DEF Steps, Fulfilling, BehindPaid, Asking
    <3>2. \A step \in Fulfilling \cup {"audit"} : Reply(w, step) => AllHeard'
      BY <3>1, HeardError DEF Reply
    <3>3. FirstStep(ord[w]) \in Fulfilling /\ RedeemAction(code[ord[w]]) \in Fulfilling
      <4>1. pc[w] # "idle"
        BY <2>5 DEF LockFulfillment, LookupCode, CreateCode, RedeemCode, ApplyRebate,
            CheckSubscription, AssignOrExtend, MarkCompleted
      <4>2. code[ord[w]] \in {"none", "unused", "used"}
        BY <2>0, <4>1 DEF IInv, Typed, GrantsOK
      <4>3. QED
        BY <4>2 DEF FirstStep, RedeemAction, Fulfilling
    <3>4. {"create", "redeem", "rebate", "complete", "assign"} \subseteq Fulfilling
      BY DEF Fulfilling
    <3>5. CASE LockFulfillment(w)
      BY <3>2, <3>3, <3>5, HeardLeave DEF LockFulfillment, Return
    <3>6. CASE LookupCode(w)
      BY <3>1, <3>3, <3>4, <3>6 DEF LookupCode
    <3>7. CASE CreateCode(w) \/ RedeemCode(w)
      BY <3>2, <3>4, <3>7, HeardError DEF CreateCode, RedeemCode
    <3>8. CASE ApplyRebate(w) \/ AssignOrExtend(w)
      BY <3>1, <3>2, <3>4, <3>8 DEF ApplyRebate, AssignOrExtend
    <3>9. CASE CheckSubscription(w)
      BY <3>1, <3>4, <3>9 DEF CheckSubscription
    <3>10. CASE MarkCompleted(w)
      BY <3>2, <3>10 DEF MarkCompleted
    <3>11. QED
      BY <2>5, <3>5, <3>6, <3>7, <3>8, <3>9, <3>10
  <2>6. CASE QueryUpstream(w) \/ CancelUpstream(w)
    <3>1. pc[w] \in Asking
      BY <2>6 DEF QueryUpstream, CancelUpstream, Asking
    <3>2. \A step \in {"toPaid", "cancelUp", "close"} : Goto(w, step) => AllHeard'
      BY <3>1, HeardGoto DEF Steps, BehindPaid
    <3>3. QED
      BY <2>6, <3>2, HeardLeave DEF QueryUpstream, CancelUpstream, NotPaid, Return
  <2>7. QED
    BY <1>3, <2>1, <2>2, <2>3, <2>4, <2>5, <2>6 DEF Progress
<1>4. ASSUME NEW w \in Workers, StepFails(w) \/ Crash(w) PROVE AllHeard'
    BY <1>4, HeardError, HeardLeave DEF StepFails, Crash
<1>5. CASE UNCHANGED vars
    BY <1>0, <1>5 DEF vars, procs
<1>6. QED
    BY <1>1, <1>2, <1>3, <1>4, <1>5 DEF Next

\* The only workers that answer 2xx to a webhook.
LEMMA AckedBy ==
    ASSUME IInv, AllHeard, [Next]_vars, NEW o \in Orders,
           ~acked[o], acked'[o], UNCHANGED faults
    PROVE  status[o] \in Recorded
<1>1. UNCHANGED acked => FALSE
    OBVIOUS
<1>2. ASSUME NEW w \in Workers, NEW ok, Return(w, ok)
      PROVE  ok /\ kind[w] = "webhook" /\ o = ord[w]
    BY <1>2, <1>1 DEF Return, IInv, Typed, AckedOK
<1>3. ASSUME NEW w \in Workers, Error(w) PROVE FALSE
    BY <1>1, <1>2, <1>3 DEF Error, Goto
<1>4. ASSUME NEW w \in Workers, NEW step, Reply(w, step) PROVE FALSE
    BY <1>1, <1>3, <1>4 DEF Reply, Goto
<1>5. ASSUME NEW k, Fault(k) PROVE FALSE
    BY <1>5 DEF Fault, IInv, Typed, FaultsOK
<1>6. ASSUME NEW a \in Orders, Environment(a) PROVE FALSE
    BY <1>1, <1>5, <1>6 DEF Environment, UserPays, DeadlinePasses, GracePasses, UserRedeems,
        WebhookBlindAck, RefundStarts, RefundEnds
<1>7. ASSUME NEW w \in Workers, NEW a \in Orders, Request(w, a) PROVE FALSE
    BY <1>1, <1>7 DEF Request, CreateOrder, Webhook, RetryFulfillment, CancelOrder,
        ExpireTimedOutOrder, VerifyOrder
<1>8. ASSUME NEW w \in Workers, Progress(w) PROVE status[o] \in Recorded
  <2>0. Heard(w) /\ WorkersOK
    BY DEF AllHeard, IInv
  <2>1. CASE InvokeProvider(w) \/ QueryUpstream(w) \/ CancelUpstream(w) \/ CloseOrder(w)
    <3>1. pc[w] \in Asking
      BY <2>1 DEF InvokeProvider, QueryUpstream, CancelUpstream, CloseOrder, Asking
    <3>2. \E ok : Return(w, ok)
      BY <1>1, <2>1 DEF InvokeProvider, QueryUpstream, CancelUpstream, CloseOrder, NotPaid, Goto
    <3>3. QED
      BY <1>2, <2>0, <3>1, <3>2 DEF Heard
  <2>2. CASE AlreadyProcessed(w) \/ ExecuteFulfillment(w) \/ LockFulfillment(w)
    <3>1. pc[w] \in BehindPaid
      BY <2>2 DEF AlreadyProcessed, ExecuteFulfillment, LockFulfillment, BehindPaid
    <3>2. \E ok : Return(w, ok)
      BY <1>1, <1>4, <2>2 DEF AlreadyProcessed, ExecuteFulfillment, LockFulfillment, Goto
    <3>3. QED
      BY <1>2, <2>0, <3>1, <3>2 DEF Heard
  <2>3. CASE AuditCompleted(w)
    <3>1. pc[w] = "audit" /\ \E ok : Return(w, ok)
      BY <2>3 DEF AuditCompleted
    <3>2. status[ord[w]] \in Delivered
      BY <2>0, <3>1 DEF WorkersOK, StepOK
    <3>3. QED
      BY <1>2, <3>1, <3>2 DEF Recorded, Statuses, Delivered, RefundStatuses
  <2>4. CASE InvokeProviderFails(w) \/ MarkFailed(w)
    BY <1>2, <2>4 DEF InvokeProviderFails, MarkFailed
  <2>5. CASE ToPaid(w) \/ LookupCode(w) \/ CreateCode(w) \/ RedeemCode(w) \/ ApplyRebate(w)
    BY <1>1, <1>3, <1>4, <2>5 DEF ToPaid, LookupCode, CreateCode, RedeemCode, ApplyRebate, Goto
  <2>6. CASE CheckSubscription(w) \/ AssignOrExtend(w) \/ MarkCompleted(w) \/ ResetForRetry(w)
    BY <1>1, <1>4, <2>6 DEF CheckSubscription, AssignOrExtend, MarkCompleted, ResetForRetry, Goto
  <2>7. QED
    BY <1>8, <2>1, <2>2, <2>3, <2>4, <2>5, <2>6 DEF Progress
<1>9. ASSUME NEW w \in Workers, StepFails(w) \/ Crash(w) PROVE FALSE
    BY <1>1, <1>3, <1>9 DEF StepFails, Crash
<1>10. QED
    BY <1>1, <1>6, <1>7, <1>8, <1>9 DEF Next, vars

\* A webhook is answered 2xx only for an order whose payment is recorded, or came after
\* the grace period; a read that fails and is answered with nil is the exception.
THEOREM AckedRecorded == Spec => AckedIsRecorded
<1>1. Init => AllHeard
    BY DEF Init, AllHeard, Heard, BehindPaid, Asking
<1>2. IInv /\ AllHeard /\ [Next]_vars => AllHeard'
    BY HeardStep
<1>3. IInv /\ AllHeard /\ [Next]_vars =>
          [\A o \in Orders : ~acked[o] /\ acked'[o] /\ UNCHANGED faults =>
                status[o] \notin {"none", "PENDING", "CANCELLED"}]_vars
    BY AckedBy DEF Recorded
<1>4. QED
    BY <1>1, <1>2, <1>3, Invariance, PTL DEF Spec, AckedIsRecorded

-----------------------------------------------------------------------------
(***************************************************************************)
(* A confirmed order is attended: it passes from hand to hand, under the   *)
(* lock of its status, until it is completed or failed.                    *)
(***************************************************************************)

Confirmed == {"PAID", "RECHARGING"}

\* Steps at which a worker has an order with status s in its hands.
Holds(p, s) ==
    \/ s = "PAID" /\ p \in {"exec", "lock"}
    \/ s = "RECHARGING" /\ p \in Critical

Attended ==
    \A o \in Orders : status[o] \in Confirmed =>
        \E w \in Workers : ord[w] = o /\ Holds(pc[w], status[o])

Excused == faults > 0 /\ FaultKinds \cap Abandoning # {}

\* The step of w takes each confirmed order into its hands, or had none of it.
HandsOver(w) ==
    \A o \in Orders : status'[o] \in Confirmed =>
        \/ ord[w] = o /\ ord'[w] = o /\ Holds(pc'[w], status'[o])
        \/ status'[o] = status[o] /\ (ord[w] = o => ~Holds(pc[w], status[o]))

LEMMA AttendedStill ==
    ASSUME Attended, NEW w \in Workers, HandsOver(w),
           \A v \in Workers \ {w} : pc'[v] = pc[v] /\ ord'[v] = ord[v]
    PROVE  Attended'
<1> SUFFICES ASSUME NEW o \in Orders, status'[o] \in Confirmed
             PROVE  \E v \in Workers : ord'[v] = o /\ Holds(pc'[v], status'[o])
    BY DEF Attended, Holds
<1>1. CASE ord[w] = o /\ ord'[w] = o /\ Holds(pc'[w], status'[o])
    BY <1>1
<1>2. CASE status'[o] = status[o] /\ (ord[w] = o => ~Holds(pc[w], status[o]))
  <2>1. PICK v \in Workers : ord[v] = o /\ Holds(pc[v], status[o])
    BY <1>2 DEF Attended
  <2>2. v # w
    BY <1>2, <2>1
  <2>3. QED
    BY <1>2, <2>1, <2>2
<1>3. QED
    BY <1>1, <1>2 DEF HandsOver

LEMMA OthersStay ==
    ASSUME ProcsOK, NEW w \in Workers,
           \/ \E step \in Steps : Goto(w, step)
           \/ Leave(w)
           \/ \E k \in Kinds, o \in Orders, step \in Steps : Begin(w, k, o, step)
    PROVE  \A v \in Workers \ {w} : pc'[v] = pc[v] /\ ord'[v] = ord[v]
BY DEF ProcsOK, Goto, Leave, Begin

LEMMA FaultExcuses ==
    ASSUME FaultsOK, NEW k \in Abandoning, Fault(k)
    PROVE  Excused'
BY DEF FaultsOK, Fault, Excused

LEMMA FaultsGrow ==
    ASSUME FaultsOK, [Next]_vars
    PROVE  Excused => Excused'
<1> DEFINE More == UNCHANGED faults \/ \E k : Fault(k)
<1>0. More => (Excused => Excused')
    BY DEF FaultsOK, Fault, Excused
<1> HIDE DEF More
<1>1. ASSUME NEW o \in Orders, Environment(o) PROVE More
    BY <1>1 DEF More, Environment, UserPays, DeadlinePasses, GracePasses, UserRedeems,
        WebhookBlindAck, RefundStarts, RefundEnds
<1>2. ASSUME NEW w \in Workers, NEW o \in Orders, Request(w, o) PROVE More
    BY <1>2 DEF More, Request, CreateOrder, Webhook, RetryFulfillment, CancelOrder,
        ExpireTimedOutOrder, VerifyOrder
<1>3. ASSUME NEW w \in Workers, Progress(w) PROVE More
    BY <1>3 DEF More, Progress, InvokeProvider, InvokeProviderFails, ToPaid, AlreadyProcessed,
        ExecuteFulfillment, LockFulfillment, LookupCode, CreateCode, RedeemCode, ApplyRebate,
        CheckSubscription, AssignOrExtend, MarkCompleted, AuditCompleted, MarkFailed,
        ResetForRetry, QueryUpstream, CancelUpstream, CloseOrder, Reply
<1>4. ASSUME NEW w \in Workers, StepFails(w) \/ Crash(w) PROVE More
    BY <1>4 DEF More, StepFails, Crash
<1>5. ASSUME UNCHANGED vars PROVE More
    BY <1>5 DEF More, vars
<1>6. QED
    BY <1>0, <1>1, <1>2, <1>3, <1>4, <1>5 DEF Next

\* Outside the lock a worker has no RECHARGING order in its hands, and no PAID
\* one before it locks.
LEMMA AttendedOutside ==
    ASSUME IInv, Attended, NEW w \in Workers, pc[w] \notin {"exec", "lock"} \cup Critical,
           \A v \in Workers \ {w} : pc'[v] = pc[v] /\ ord'[v] = ord[v],
           \A o \in Orders : status'[o] \in Confirmed => status'[o] = status[o]
    PROVE  Attended'
<1>1. HandsOver(w)
    BY DEF HandsOver, Holds
<1>2. QED
    BY <1>1, AttendedStill

\* A step that confirms, or locks, the order and keeps it in its hands.
LEMMA AttendedTaken ==
    ASSUME IInv, Attended, NEW w \in Workers, ord[w] \in Orders,
           NEW step \in Steps, Goto(w, step), NEW s,
           status' = [status EXCEPT ![ord[w]] = s], Holds(step, s),
           \A o \in Orders \ {ord[w]} : status'[o] = status[o]
    PROVE  Attended'
<1>1. pc'[w] = step /\ ord' = ord /\ status'[ord[w]] = s
    BY DEF Goto, IInv, Typed, ProcsOK, RowsOK
<1>2. HandsOver(w)
    BY <1>1 DEF HandsOver
<1>3. QED
    BY <1>2, OthersStay, AttendedStill DEF IInv, Typed

\* A step of fulfilment that does not end it.
LEMMA AttendedWithin ==
    ASSUME IInv, Attended, NEW w \in Workers, pc[w] \in Fulfilling,
           NEW step \in Critical, Goto(w, step), UNCHANGED status
    PROVE  Attended'
<1>1. pc'[w] = step /\ ord' = ord /\ step \in Steps
    BY DEF Goto, IInv, Typed, ProcsOK, Critical, Fulfilling, Steps
<1>2. ord[w] \in Orders /\ status[ord[w]] = "RECHARGING"
    BY DEF IInv, Typed, ProcsOK, WorkersOK, StepOK, Fulfilling
<1>3. HandsOver(w)
    BY <1>1, <1>2 DEF HandsOver, Holds
<1>4. QED
    BY <1>1, <1>3, OthersStay, AttendedStill DEF IInv, Typed

LEMMA AttendedProgress ==
    ASSUME IInv, Attended, NEW w \in Workers, Progress(w)
    PROVE  Attended' \/ Excused'
<1> DEFINE o == ord[w]
<1>0. /\ pc[w] # "idle" => o \in Orders /\ StepOK(pc[w], o)
      /\ ProcsOK /\ FaultsOK /\ status \in [Orders -> Statuses]
    BY DEF IInv, Typed, ProcsOK, WorkersOK, RowsOK
<1>l. "lost" \in Abandoning /\ "mark" \in Abandoning
    BY DEF Abandoning
<1>1. CASE InvokeProvider(w) \/ InvokeProviderFails(w) \/ AuditCompleted(w) \/ CloseOrder(w)
  <2>1. pc[w] \notin {"exec", "lock"} \cup Critical /\ Leave(w)
    BY <1>1 DEF InvokeProvider, InvokeProviderFails, AuditCompleted, CloseOrder, Return,
        Critical, Fulfilling
  <2>2. \A p \in Orders : status'[p] \in Confirmed => status'[p] = status[p]
    BY <1>0, <1>1 DEF InvokeProvider, InvokeProviderFails, AuditCompleted, CloseOrder,
        CompareAndSet, FinalStatus, Confirmed, row
  <2>3. QED
    BY <1>0, <2>1, <2>2, OthersStay, AttendedOutside
<1>2. CASE AlreadyProcessed(w) \/ QueryUpstream(w) \/ CancelUpstream(w)
  <2>1. pc[w] \notin {"exec", "lock"} \cup Critical /\ UNCHANGED status
    BY <1>2 DEF AlreadyProcessed, QueryUpstream, CancelUpstream, Critical, Fulfilling, row
  <2>2. Leave(w) \/ \E step \in Steps : Goto(w, step)
    BY <1>2 DEF AlreadyProcessed, QueryUpstream, CancelUpstream, NotPaid, Return, Steps
  <2>3. QED
    BY <1>0, <2>1, <2>2, OthersStay, AttendedOutside
<1>3. CASE ToPaid(w) \/ ResetForRetry(w)
  <2>1. pc[w] \in {"toPaid", "reset"} /\ o \in Orders
    BY <1>0, <1>3 DEF ToPaid, ResetForRetry
  <2>2. \/ status' = [status EXCEPT ![o] = "PAID"] /\ Reply(w, "exec")
        \/ UNCHANGED status /\ \E step \in {"already", "exec"} : Goto(w, step)
    BY <1>3 DEF ToPaid, ResetForRetry
  <2>3. CASE status' = [status EXCEPT ![o] = "PAID"] /\ Reply(w, "exec")
    <3>1. CASE Fault("lost")
      BY <1>0, <1>l, <3>1, FaultExcuses
    <3>2. CASE Goto(w, "exec")
      <4>1. Holds("exec", "PAID") /\ "exec" \in Steps
        BY DEF Holds, Steps
      <4>2. \A p \in Orders \ {o} : status'[p] = status[p]
        BY <1>0, <2>3
      <4>3. QED
        BY <2>1, <2>3, <3>2, <4>1, <4>2, AttendedTaken
    <3>3. QED
      BY <2>3, <3>1, <3>2 DEF Reply
  <2>4. CASE UNCHANGED status /\ \E step \in {"already", "exec"} : Goto(w, step)
    <3>1. \E step \in Steps : Goto(w, step)
      BY <2>4 DEF Steps
    <3>2. pc[w] \notin {"exec", "lock"} \cup Critical
      BY <2>1 DEF Critical, Fulfilling
    <3>3. QED
      BY <1>0, <2>4, <3>1, <3>2, OthersStay, AttendedOutside
  <2>5. QED
    BY <2>2, <2>3, <2>4
<1>4. CASE ExecuteFulfillment(w)
  <2>1. pc[w] = "exec" /\ UNCHANGED status
    BY <1>4 DEF ExecuteFulfillment, row
  <2>2. CASE Goto(w, "lock")
    <3>1. pc'[w] = "lock" /\ ord' = ord /\ "lock" \in Steps
      BY <1>0, <2>2 DEF Goto, ProcsOK, Steps
    <3>2. HandsOver(w)
      BY <2>1, <3>1 DEF HandsOver, Holds, Confirmed, Critical, Fulfilling
    <3>3. QED
      BY <1>0, <2>2, <3>1, <3>2, OthersStay, AttendedStill
  <2>3. CASE Leave(w) /\ ~CanFulfill(status[o])
    <3>1. HandsOver(w)
      BY <2>1, <2>3 DEF HandsOver, Holds, Confirmed, Critical, Fulfilling, CanFulfill
    <3>2. QED
      BY <1>0, <2>3, <3>1, OthersStay, AttendedStill
  <2>4. QED
    BY <1>4, <2>2, <2>3 DEF ExecuteFulfillment, Return
<1>5. CASE LockFulfillment(w)
  <2>1. pc[w] = "lock" /\ o \in Orders
    BY <1>0, <1>5 DEF LockFulfillment
  <2>2. CASE status' = [status EXCEPT ![o] = "RECHARGING"] /\ Reply(w, FirstStep(o))
    <3>1. CASE Fault("lost")
      BY <1>0, <1>l, <3>1, FaultExcuses
    <3>2. CASE Goto(w, FirstStep(o))
      <4>1. Holds(FirstStep(o), "RECHARGING") /\ FirstStep(o) \in Steps
        BY DEF Holds, FirstStep, Steps, Critical, Fulfilling
      <4>2. \A p \in Orders \ {o} : status'[p] = status[p]
        BY <1>0, <2>2
      <4>3. QED
        BY <2>1, <2>2, <3>2, <4>1, <4>2, AttendedTaken
    <3>3. QED
      BY <2>2, <3>1, <3>2 DEF Reply
  <2>3. CASE UNCHANGED status /\ Leave(w) /\ ~CanFulfill(status[o])
    <3>1. HandsOver(w)
      BY <2>1, <2>3 DEF HandsOver, Holds, Confirmed, Critical, Fulfilling, CanFulfill
    <3>2. QED
      BY <1>0, <2>3, <3>1, OthersStay, AttendedStill
  <2>4. QED
    BY <1>5, <2>2, <2>3 DEF LockFulfillment, Return
<1>6. CASE LookupCode(w) \/ CreateCode(w) \/ RedeemCode(w) \/ ApplyRebate(w)
           \/ CheckSubscription(w) \/ AssignOrExtend(w)
  <2>1. pc[w] \in Fulfilling /\ UNCHANGED status
    BY <1>6 DEF LookupCode, CreateCode, RedeemCode, ApplyRebate, CheckSubscription,
        AssignOrExtend, Fulfilling, row
  <2>2. RedeemAction(code[o]) \in Critical
    <3>1. code[o] \in {"none", "unused", "used"}
      BY <1>0, <2>1 DEF IInv, Typed, GrantsOK, Fulfilling
    <3>2. QED
      BY <3>1 DEF RedeemAction, Critical, Fulfilling
  <2>3. Error(w) => Goto(w, "fail")
    BY <2>1 DEF Error
  <2>4. {"create", "redeem", "rebate", "complete", "assign", "fail"} \subseteq Critical
    BY DEF Critical, Fulfilling
  <2>5. \E step \in Critical : Goto(w, step)
    BY <1>6, <2>2, <2>3, <2>4 DEF LookupCode, CreateCode, RedeemCode, ApplyRebate,
        CheckSubscription, AssignOrExtend, Reply
  <2>6. QED
    BY <2>1, <2>5, AttendedWithin
<1>7. CASE MarkCompleted(w) \/ MarkFailed(w)
  <2>1. pc[w] \in {"complete", "fail"} /\ o \in Orders /\ StepOK(pc[w], o)
    BY <1>0, <1>7 DEF MarkCompleted, MarkFailed
  <2>2. CASE Fault("mark")
    BY <1>0, <1>l, <2>2, FaultExcuses
  <2>3. CASE ~Fault("mark")
    <3>1. \/ CompareAndSet(o, {"RECHARGING"}, "COMPLETED")
          \/ CompareAndSet(o, {"RECHARGING"}, "FAILED")
      BY <1>7, <2>3 DEF MarkCompleted, MarkFailed
    <3>2. status[o] \in {"RECHARGING"} \cup Delivered
      BY <2>1 DEF StepOK, Fulfilling
    <3>3. /\ status'[o] \notin Confirmed
          /\ \A p \in Orders \ {o} : status'[p] = status[p]
      BY <1>0, <2>1, <3>1, <3>2 DEF CompareAndSet, Confirmed, Delivered, RefundStatuses
    <3>4. HandsOver(w)
      BY <3>3 DEF HandsOver
    <3>5. Leave(w) \/ \E step \in Steps : Goto(w, step)
      BY <1>7 DEF MarkCompleted, MarkFailed, Return, Reply, Error, Steps
    <3>6. QED
      BY <1>0, <3>4, <3>5, OthersStay, AttendedStill
  <2>4. QED
    BY <2>2, <2>3
<1>8. QED
    BY <1>1, <1>2, <1>3, <1>4, <1>5, <1>6, <1>7 DEF Progress

LEMMA AttendedStep ==
    ASSUME IInv, Attended, [Next]_vars
    PROVE  Attended' \/ Excused'
<1>0. ProcsOK /\ FaultsOK
    BY DEF IInv, Typed
<1>1. ASSUME NEW o \in Orders, Environment(o) PROVE Attended'
  <2>1. UNCHANGED procs /\ \A p \in Orders : status'[p] \in Confirmed => status'[p] = status[p]
    BY <1>1 DEF Environment, UserPays, DeadlinePasses, GracePasses, UserRedeems,
        WebhookBlindAck, RefundStarts, RefundEnds, Confirmed, IInv, Typed, RowsOK, row
  <2>2. QED
    BY <2>1 DEF Attended, procs
<1>2. ASSUME NEW w \in Workers, NEW o \in Orders, Request(w, o) PROVE Attended'
  <2>1. \E k \in Kinds, step \in Steps : Begin(w, k, o, step)
    BY <1>2 DEF Request, CreateOrder, Webhook, RetryFulfillment, CancelOrder,
        ExpireTimedOutOrder, VerifyOrder, Kinds, Steps
  <2>2. \A p \in Orders : status'[p] \in Confirmed => status'[p] = status[p]
    BY <1>2 DEF Request, CreateOrder, Webhook, RetryFulfillment, CancelOrder,
        ExpireTimedOutOrder, VerifyOrder, Confirmed, IInv, Typed, RowsOK, row
  <2>3. pc[w] \notin {"exec", "lock"} \cup Critical
    BY <2>1 DEF Begin, Critical, Fulfilling
  <2>4. QED
    BY <1>0, <2>1, <2>2, <2>3, OthersStay, AttendedOutside
<1>3. ASSUME NEW w \in Workers, Progress(w) PROVE Attended' \/ Excused'
    BY <1>3, AttendedProgress
<1>4. ASSUME NEW w \in Workers, StepFails(w) PROVE Attended' \/ Excused'
  <2>1. CASE Fault("db")
    BY <1>0, <2>1, FaultExcuses DEF Abandoning
  <2>2. CASE pc[w] \in Fulfilling
    <3>1. Goto(w, "fail") /\ UNCHANGED status /\ "fail" \in Critical
      BY <1>4, <2>2 DEF StepFails, Error, Critical, row
    <3>2. QED
      BY <2>2, <3>1, AttendedWithin
  <2>3. QED
    BY <1>4, <2>1, <2>2 DEF StepFails
<1>5. ASSUME NEW w \in Workers, Crash(w) PROVE Excused'
    BY <1>0, <1>5, FaultExcuses DEF Crash, Abandoning
<1>6. CASE UNCHANGED vars
    BY <1>6 DEF vars, Attended
<1>7. QED
    BY <1>1, <1>2, <1>3, <1>4, <1>5, <1>6 DEF Next

\* A PAID order is in the hands of a goroutine about to lock it and a RECHARGING one
\* in those of its fulfilment, through every race for the lock and every failure of a
\* step of doBalance and doSub; only an order row that cannot be written, a reply of
\* such a write that is lost and a crash leave it to itself.
THEOREM ConfirmedAttended == Spec => []ConfirmedIsAttended
<1>1. Init => Attended
    BY DEF Init, Attended, Confirmed
<1>2. IInv /\ (Attended \/ Excused) /\ [Next]_vars => (Attended \/ Excused)'
    BY AttendedStep, FaultsGrow DEF IInv, Typed
<1>3. Attended \/ Excused => ConfirmedIsAttended
    BY DEF Attended, Excused, ConfirmedIsAttended, Holds, Confirmed, InFulfilment, Critical
<1>4. QED
    BY <1>1, <1>2, <1>3, Invariance, PTL DEF Spec

-----------------------------------------------------------------------------
(***************************************************************************)
(* Extending twice.  The audit row does not prevent it, as a run shows, but *)
(* every extension after the first one follows a failure of its own.       *)
(***************************************************************************)

ExtensionsCostFaults == \A o \in Orders : extended[o] <= 1 + faults

Closed == {"RECHARGING"} \cup Delivered

\* Where the order will be extended, or its fulfilment has failed.
Reextends == {"subcheck", "assign", "fail"}

ExtendedOK ==
    /\ \A o \in Orders : /\ extended[o] <= 1 + faults
                         /\ o \notin SubOrders => extended[o] = 0
                         /\ status[o] \notin Closed => extended[o] <= faults
    /\ \A w \in Workers : pc[w] \in Reextends /\ status[ord[w]] = "RECHARGING" =>
                              extended[ord[w]] <= faults

LEMMA ExtendedByFault ==
    ASSUME IInv, IInv', ExtendedOK, faults' = faults + 1, UNCHANGED extended
    PROVE  ExtendedOK'
<1>1. faults \in Nat /\ faults' = faults + 1
    BY FaultAssumption DEF IInv, Typed, FaultsOK
<1>2. \A o \in Orders : extended[o] \in Nat
    BY DEF IInv, Typed, GrantsOK
<1>3. \A w \in Workers : pc'[w] \in Reextends => ord'[w] \in Orders
    BY DEF IInv, Typed, ProcsOK, Reextends
<1>4. QED
    BY <1>1, <1>2, <1>3 DEF ExtendedOK

\* A step without a fault that extends nothing.
LEMMA ExtendedKept ==
    ASSUME IInv, ExtendedOK, [Next]_vars, UNCHANGED <<extended, faults>>,
           \A o \in Orders : status[o] = "RECHARGING" /\ status'[o] \notin Closed =>
               extended[o] <= faults,
           \A v \in Workers :
               \/ pc'[v] = pc[v] /\ ord'[v] = ord[v]
               \/ pc'[v] \in Reextends => extended[ord'[v]] <= faults
    PROVE  ExtendedOK'
<1>1. ASSUME NEW o \in Orders, status'[o] \notin Closed PROVE extended[o] <= faults
  <2>1. status'[o] = status[o] \/ <<status[o], status'[o]>> \in Transitions
    BY StatusGraphStep DEF StatusMoves
  <2>2. status[o] \notin Closed \/ status[o] = "RECHARGING"
    BY <1>1, <2>1 DEF Transitions, Closed, Delivered, RefundStatuses
  <2>3. QED
    BY <1>1, <2>2 DEF ExtendedOK
<1>2. ASSUME NEW v \in Workers, pc[v] \in Reextends, status'[ord[v]] = "RECHARGING"
      PROVE  extended[ord[v]] <= faults
  <2>1. ord[v] \in Orders
    BY <1>2 DEF IInv, Typed, ProcsOK, Reextends
  <2>2. status'[ord[v]] = status[ord[v]] \/ <<status[ord[v]], status'[ord[v]]>> \in Transitions
    BY <2>1, StatusGraphStep DEF StatusMoves
  <2>3. status[ord[v]] = "RECHARGING" \/ status[ord[v]] \notin Closed
    BY <1>2, <2>2 DEF Transitions, Closed, Delivered, RefundStatuses
  <2>4. QED
    BY <1>2, <2>1, <2>3 DEF ExtendedOK
<1>3. QED
    BY <1>1, <1>2 DEF ExtendedOK

LEMMA ExtendedStep ==
    ASSUME IInv, IInv', ExtendedOK, [Next]_vars
    PROVE  ExtendedOK'
<1>. USE DEF Reextends
<1>1. /\ faults \in Nat /\ ProcsOK /\ AckedOK /\ status \in [Orders -> Statuses]
      /\ \A o \in Orders : extended[o] \in Nat
    BY FaultAssumption DEF IInv, Typed, FaultsOK, GrantsOK, RowsOK
<1>2. ASSUME NEW k, Fault(k), UNCHANGED extended PROVE ExtendedOK'
    BY <1>2, ExtendedByFault DEF Fault
\* A step that leaves the lock alone and does not lead into fulfilment.
<1>3. ASSUME UNCHANGED <<extended, faults>>,
             \A v \in Workers : \/ pc'[v] = pc[v] /\ ord'[v] = ord[v]
                                \/ pc'[v] \notin Reextends,
             \A o \in Orders : status[o] = "RECHARGING" => status'[o] \in Closed
      PROVE  ExtendedOK'
    BY <1>3, ExtendedKept
<1>4. ASSUME NEW w \in Workers, NEW step \in Steps \ Reextends, Goto(w, step),
             UNCHANGED <<extended, faults>>,
             \A o \in Orders : status[o] = "RECHARGING" => status'[o] \in Closed
      PROVE  ExtendedOK'
  <2>1. pc'[w] = step /\ \A v \in Workers \ {w} : pc'[v] = pc[v] /\ ord'[v] = ord[v]
    BY <1>1, <1>4 DEF Goto, ProcsOK
  <2>2. QED
    BY <1>3, <1>4, <2>1
<1>5. ASSUME NEW w \in Workers, Leave(w), UNCHANGED <<extended, faults>>,
             \A o \in Orders : status[o] = "RECHARGING" => status'[o] \in Closed
      PROVE  ExtendedOK'
  <2>1. pc'[w] = "idle" /\ \A v \in Workers \ {w} : pc'[v] = pc[v] /\ ord'[v] = ord[v]
    BY <1>1, <1>5 DEF Leave, ProcsOK
  <2>2. QED
    BY <1>3, <1>5, <2>1
<1>6. ASSUME NEW o \in Orders, Environment(o) PROVE ExtendedOK'
  <2>1. CASE WebhookBlindAck(o)
    BY <1>2, <2>1 DEF WebhookBlindAck, grants
  <2>2. CASE UserPays(o) \/ DeadlinePasses(o) \/ GracePasses(o) \/ UserRedeems(o)
             \/ RefundStarts(o) \/ RefundEnds(o)
    <3>1. UNCHANGED <<extended, faults, pc, ord>>
      BY <2>2 DEF UserPays, DeadlinePasses, GracePasses, UserRedeems, RefundStarts, RefundEnds,
          grants, procs
    <3>2. \A a \in Orders : status[a] = "RECHARGING" => status'[a] \in Closed
      BY <1>1, <2>2 DEF UserPays, DeadlinePasses, GracePasses, UserRedeems, RefundStarts,
          RefundEnds, row, Closed, Delivered, RefundStatuses
    <3>3. QED
      BY <1>3, <3>1, <3>2
  <2>3. QED
    BY <1>6, <2>1, <2>2 DEF Environment
<1>7. ASSUME NEW w \in Workers, NEW o \in Orders, Request(w, o) PROVE ExtendedOK'
  <2>1. UNCHANGED <<extended, faults>>
    BY <1>7 DEF Request, CreateOrder, Webhook, RetryFulfillment, CancelOrder,
        ExpireTimedOutOrder, VerifyOrder, grants
  <2>2. \A a \in Orders : status[a] = "RECHARGING" => status'[a] \in Closed
    BY <1>1, <1>7 DEF Request, CreateOrder, Webhook, RetryFulfillment, CancelOrder,
        ExpireTimedOutOrder, VerifyOrder, row, Closed
  <2>3. \E k : \E step \in {"invoke", "toPaid", "reset", "query"} : Begin(w, k, o, step)
    BY <1>7 DEF Request, CreateOrder, Webhook, RetryFulfillment, CancelOrder,
        ExpireTimedOutOrder, VerifyOrder
  <2>4. /\ pc'[w] \notin Reextends
        /\ \A v \in Workers \ {w} : pc'[v] = pc[v] /\ ord'[v] = ord[v]
    BY <1>1, <2>3 DEF Begin, ProcsOK
  <2>5. QED
    BY <1>3, <2>1, <2>2, <2>4
<1>8. ASSUME NEW w \in Workers, StepFails(w) \/ Crash(w) PROVE ExtendedOK'
    BY <1>2, <1>8 DEF StepFails, Crash, grants
<1>9. ASSUME NEW w \in Workers, Progress(w), ~AssignOrExtend(w), UNCHANGED faults
      PROVE  ExtendedOK'
  <2>0. /\ pc[w] # "idle" => ord[w] \in Orders /\ StepOK(pc[w], ord[w]) /\ OrderOK(ord[w])
        /\ \A k : ~Fault(k)
    BY <1>1, <1>9 DEF IInv, WorkersOK, OrdersOK, ProcsOK, Fault
  \* The loop through providers, payment and lock; none of it touches a locked order.
  <2>1. CASE InvokeProvider(w) \/ InvokeProviderFails(w) \/ AuditCompleted(w) \/ CloseOrder(w)
    <3>1. Leave(w) /\ UNCHANGED extended
      BY <2>1 DEF InvokeProvider, InvokeProviderFails, AuditCompleted, CloseOrder, Return, grants
    <3>2. CASE InvokeProviderFails(w)
      <4>1. ord[w] \in Orders /\ status[ord[w]] # "RECHARGING"
        BY <1>1, <2>0, <3>2 DEF InvokeProviderFails, StepOK, OrderOK, PaidStatuses
      <4>2. \A o \in Orders : status[o] = "RECHARGING" => status'[o] \in Closed
        BY <1>1, <3>2, <4>1 DEF InvokeProviderFails, Closed
      <4>3. QED
        BY <1>5, <1>9, <3>1, <4>2
    <3>3. CASE InvokeProvider(w) \/ AuditCompleted(w) \/ CloseOrder(w)
      <4>1. \A o \in Orders : status[o] = "RECHARGING" => status'[o] \in Closed
        BY <1>1, <3>3 DEF InvokeProvider, AuditCompleted, CloseOrder, CompareAndSet, Closable,
            Closed, row
      <4>2. QED
        BY <1>5, <1>9, <3>1, <4>1
    <3>4. QED
      BY <2>1, <3>2, <3>3
  <2>2. CASE ToPaid(w) \/ ResetForRetry(w) \/ AlreadyProcessed(w) \/ ExecuteFulfillment(w)
    <3>1. UNCHANGED extended /\ (Leave(w) \/ \E step \in {"exec", "already", "lock"} : Goto(w, step))
      BY <2>0, <2>2 DEF ToPaid, ResetForRetry, AlreadyProcessed, ExecuteFulfillment, Reply,
          Return, grants
    <3>2. \A o \in Orders : status[o] = "RECHARGING" => status'[o] \in Closed
      BY <1>1, <2>2 DEF ToPaid, PayableNow, ResetForRetry, CanFulfill, AlreadyProcessed,
          ExecuteFulfillment, Closed, row
    <3>3. QED
      BY <1>4, <1>5, <1>9, <3>1, <3>2 DEF Steps
  <2>3. CASE QueryUpstream(w) \/ CancelUpstream(w)
    <3>1. /\ UNCHANGED <<extended, status>>
          /\ Leave(w) \/ \E step \in {"toPaid", "cancelUp", "close"} : Goto(w, step)
      BY <2>0, <2>3 DEF QueryUpstream, CancelUpstream, NotPaid, Return, grants, row
    <3>2. QED
      BY <1>4, <1>5, <1>9, <3>1 DEF Steps, Closed
  \* The winner of the lock comes from a status that is not closed.
  <2>4. CASE LockFulfillment(w)
    <3>1. CASE Leave(w) /\ UNCHANGED status
      BY <1>5, <1>9, <2>4, <3>1 DEF LockFulfillment, Closed, grants
    <3>2. CASE /\ CanFulfill(status[ord[w]]) /\ Goto(w, FirstStep(ord[w]))
               /\ status' = [status EXCEPT ![ord[w]] = "RECHARGING"]
      <4>1. ord[w] \in Orders /\ UNCHANGED extended
        BY <2>0, <2>4 DEF LockFulfillment, grants
      <4>2. extended[ord[w]] <= faults
        BY <3>2, <4>1 DEF ExtendedOK, CanFulfill, Closed, Delivered, RefundStatuses
      <4>3. ord' = ord /\ \A v \in Workers \ {w} : pc'[v] = pc[v]
        BY <1>1, <3>2 DEF Goto, ProcsOK
      <4>4. \A o \in Orders : status[o] = "RECHARGING" => status'[o] \in Closed
        BY <3>2 DEF Closed
      <4>6. QED
        BY <1>9, <4>1, <4>2, <4>3, <4>4, ExtendedKept
    <3>3. QED
      BY <2>0, <2>4, <3>1, <3>2 DEF LockFulfillment, Reply, Return
  <2>5. CASE CheckSubscription(w)
    <3>1. /\ pc[w] = "subcheck" /\ UNCHANGED <<extended, status>>
          /\ Goto(w, IF subAudit[ord[w]] THEN "complete" ELSE "assign")
      BY <2>0, <2>5 DEF CheckSubscription, grants, row
    <3>2. status[ord[w]] = "RECHARGING" /\ ord[w] \in Orders
      BY <2>0, <3>1 DEF StepOK, Fulfilling
    <3>3. extended[ord[w]] <= faults
      BY <3>1, <3>2 DEF ExtendedOK
    <3>4. ord' = ord /\ \A v \in Workers \ {w} : pc'[v] = pc[v]
      BY <1>1, <3>1 DEF Goto, ProcsOK
    <3>6. \A o \in Orders : status[o] = "RECHARGING" => status'[o] \in Closed
      BY <3>1 DEF Closed
    <3>7. QED
      BY <1>9, <3>1, <3>3, <3>4, <3>6, ExtendedKept
  \* The code and the rebate of a balance order, which is never extended.
  <2>6. CASE LookupCode(w) \/ CreateCode(w) \/ RedeemCode(w) \/ ApplyRebate(w)
    <3>1. pc[w] \in {"lookup", "create", "redeem", "rebate"} /\ UNCHANGED <<extended, status>>
      BY <2>6 DEF LookupCode, CreateCode, RedeemCode, ApplyRebate, row, grants
    <3>2. ord[w] \in Orders \ SubOrders
      BY <2>0, <3>1 DEF StepOK
    <3>3. extended[ord[w]] <= faults
      BY <1>1, <3>2 DEF ExtendedOK
    <3>4. \E step : Goto(w, step)
      BY <2>0, <2>6, <3>1 DEF LookupCode, CreateCode, RedeemCode, ApplyRebate, Reply, Error,
          Fulfilling
    <3>5. ord' = ord /\ \A v \in Workers \ {w} : pc'[v] = pc[v]
      BY <1>1, <3>4 DEF Goto, ProcsOK
    <3>7. \A o \in Orders : status[o] = "RECHARGING" => status'[o] \in Closed
      BY <3>1 DEF Closed
    <3>8. QED
      BY <1>9, <3>1, <3>3, <3>5, <3>7, ExtendedKept
  <2>7. CASE MarkCompleted(w)
    <3>1. Goto(w, "audit") /\ UNCHANGED extended
      BY <2>0, <2>7 DEF MarkCompleted, Reply, grants
    <3>2. \A o \in Orders : status[o] = "RECHARGING" => status'[o] \in Closed
      BY <1>1, <2>7 DEF MarkCompleted, CompareAndSet, Closed, Delivered
    <3>3. QED
      BY <1>4, <1>9, <3>1, <3>2 DEF Steps
  \* A worker that marks the order FAILED met a failure of its own.
  <2>8. CASE MarkFailed(w)
    <3>1. /\ pc[w] = "fail" /\ Leave(w) /\ UNCHANGED extended
          /\ CompareAndSet(ord[w], {"RECHARGING"}, "FAILED")
      BY <2>0, <2>8 DEF MarkFailed, Return, grants
    <3>2. \A o \in Orders : status[o] = "RECHARGING" /\ status'[o] \notin Closed =>
              o = ord[w]
      BY <1>1, <3>1 DEF CompareAndSet, Closed
    <3>3. \A o \in Orders : status[o] = "RECHARGING" /\ status'[o] \notin Closed =>
              extended[o] <= faults
      BY <3>1, <3>2 DEF ExtendedOK
    <3>4. pc'[w] = "idle" /\ \A v \in Workers \ {w} : pc'[v] = pc[v] /\ ord'[v] = ord[v]
      BY <1>1, <3>1 DEF Leave, ProcsOK
    <3>6. QED
      BY <1>9, <3>1, <3>3, <3>4, ExtendedKept
  <2>9. QED
    BY <1>9, <2>1, <2>2, <2>3, <2>4, <2>5, <2>6, <2>7, <2>8 DEF Progress
<1>10. ASSUME NEW w \in Workers, Progress(w), ~AssignOrExtend(w), faults' # faults
       PROVE  ExtendedOK'
  <2>1. UNCHANGED extended /\ \E k : Fault(k)
    BY <1>10 DEF Progress, InvokeProvider, InvokeProviderFails, ToPaid, AlreadyProcessed,
        ExecuteFulfillment, LockFulfillment, LookupCode, CreateCode, RedeemCode, ApplyRebate,
        CheckSubscription, MarkCompleted, AuditCompleted, MarkFailed, ResetForRetry,
        QueryUpstream, CancelUpstream, CloseOrder, Reply, grants
  <2>2. QED
    BY <1>2, <2>1
\* The extension itself: a lost reply is a fault, and nobody else works on the order.
<1>11. ASSUME NEW w \in Workers, AssignOrExtend(w) PROVE ExtendedOK'
  <2>1. /\ pc[w] = "assign" /\ ord[w] \in Orders
        /\ status[ord[w]] = "RECHARGING" /\ ord[w] \in SubOrders
    BY <1>1, <1>11 DEF AssignOrExtend, ProcsOK, IInv, WorkersOK, StepOK, Fulfilling
  <2>2. extended[ord[w]] <= faults
    BY <2>1 DEF ExtendedOK
  <2>3. extended' = [extended EXCEPT ![ord[w]] = extended[ord[w]] + 1]
    BY <1>11 DEF AssignOrExtend
  <2>4. status' = status
    BY <1>11 DEF AssignOrExtend, row
  <2>5. \A o \in Orders : extended'[o] = IF o = ord[w] THEN extended[o] + 1 ELSE extended[o]
    BY <2>3 DEF IInv, Typed, GrantsOK
  <2>6. ASSUME NEW v \in Workers \ {w}, pc[v] \in Reextends PROVE ord[v] \in Orders \ {ord[w]}
    BY <1>1, <2>1, <2>6 DEF ProcsOK, IInv, Exclusive, Critical, Fulfilling
  <2>7. CASE Goto(w, "complete") /\ UNCHANGED faults
    <3>1. /\ pc'[w] = "complete" /\ ord' = ord
          /\ \A v \in Workers \ {w} : pc'[v] = pc[v]
      BY <1>1, <2>7 DEF Goto, ProcsOK
    <3>2. \A o \in Orders : /\ extended'[o] <= 1 + faults
                            /\ o \notin SubOrders => extended'[o] = 0
                            /\ status[o] \notin Closed => extended'[o] <= faults
      BY <1>1, <2>1, <2>2, <2>5 DEF ExtendedOK, Closed
    <3>3. \A v \in Workers : pc'[v] \in Reextends /\ status[ord[v]] = "RECHARGING" =>
                                  extended'[ord[v]] <= faults
      BY <2>5, <2>6, <3>1 DEF ExtendedOK
    <3>4. pc'[w] \notin Reextends
      BY <3>1
    <3>. HIDE DEF Reextends
    <3>5. QED
      BY <2>4, <2>7, <3>1, <3>2, <3>3, <3>4 DEF ExtendedOK
  <2>8. CASE Fault("lost")
    <3>1. faults' = faults + 1
      BY <2>8 DEF Fault
    <3>2. \A o \in Orders : /\ extended'[o] <= 1 + faults'
                            /\ o \notin SubOrders => extended'[o] = 0
                            /\ status[o] \notin Closed => extended'[o] <= faults'
      BY <1>1, <2>1, <2>2, <2>5, <3>1 DEF ExtendedOK, Closed
    <3>3. \A o \in Orders : extended'[o] <= faults'
      BY <1>1, <2>2, <2>5, <3>1 DEF ExtendedOK
    <3>4. \A v \in Workers : pc'[v] \in Reextends => ord'[v] \in Orders
      BY DEF IInv, Typed, ProcsOK
    <3>5. QED
      BY <2>4, <3>2, <3>3, <3>4 DEF ExtendedOK
  <2>9. QED
    BY <1>11, <2>7, <2>8 DEF AssignOrExtend, Reply
<1>12. CASE UNCHANGED vars
  <2>1. UNCHANGED <<status, extended, faults, pc, ord>>
    BY <1>12 DEF vars
  <2>2. QED
    BY <1>3, <2>1 DEF Closed
<1>13. QED
    BY <1>6, <1>7, <1>8, <1>9, <1>10, <1>11, <1>12 DEF Next, Progress

\* "Prevents double-extension on retry after markCompleted fails" (doSub) does not hold,
\* but without failures an order is extended once, and each further extension takes a
\* failure of its own.
THEOREM ExtensionsBounded == Spec => []ExtensionsCostFaults
<1>1. Init => ExtendedOK
    BY DEF Init, ExtendedOK, Reextends
<1>2. IInv /\ IInv' /\ ExtendedOK /\ [Next]_vars => ExtendedOK'
    BY ExtendedStep
<1>3. ExtendedOK => ExtensionsCostFaults
    BY DEF ExtendedOK, ExtensionsCostFaults
<1>4. QED
    BY <1>1, <1>2, <1>3, Invariance, PTL DEF Spec

=============================================================================
