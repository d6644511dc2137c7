-------------------------------- MODULE Refund --------------------------------
(***************************************************************************)
(* Refunding a completed payment order: the user's request, the admin's    *)
(* plan (PrepareRefund) and its execution (ExecuteRefund) with the balance *)
(* or subscription deduction, the provider's refund and the rollback.      *)
(*                                                                         *)
(* A worker is one HTTP request, of the user or of an admin; each database *)
(* statement or provider call is an action.  All orders belong to one      *)
(* user.  Fulfilment leaves these orders alone (see PaymentOrder).         *)
(***************************************************************************)
EXTENDS Integers

CONSTANTS
    Orders,
    SubOrders,   \* subscription orders; the others are balance orders
    NoOrder,
    NoTrade,     \* orders whose payment_trade_no is empty
    Workers,
    Price,       \* amount of every order; of a subscription, its days
    Balance,     \* what the user has at first
    FaultKinds,  \* the kinds of failure that may happen (see AllFaults)
    MaxFaults    \* bound: failures in one behaviour

\* db: a statement fails with no effect; lost: a statement or provider call
\* takes effect but reports an error; gw: the provider refuses; audit: an audit
\* row is not written; blind: a failed read of the audit log, taken as "no row";
\* crash: the request disappears.
AllFaults == {"db", "lost", "gw", "audit", "blind", "crash"}

ASSUME OrderAssumption ==
    SubOrders \subseteq Orders /\ NoTrade \subseteq Orders /\ NoOrder \notin Orders
ASSUME NumberAssumption ==
    Price \in Nat \ {0} /\ Balance \in Nat /\ MaxFaults \in Nat
ASSUME FaultAssumption == FaultKinds \subseteq AllFaults

VARIABLES
    status,    \* payment_orders.status
    balance,   \* of the user
    revoked,   \* orders whose subscription was revoked
    taken,     \* what the refunds of the order took and did not give back
    paidBack,  \* how often the provider paid the order back
    refunded,  \* payment_orders.refund_amount as a refund wrote it last
    rbFailed,  \* orders with a REFUND_ROLLBACK_FAILED audit row
    pc, plan,  \* of each request: next step and RefundPlan
    faults     \* failures so far: how many, and of which kinds

money == <<balance, revoked, taken, paidBack>>
vars  == <<status, money, refunded, rbFailed, pc, plan, faults>>

Refundable == {"COMPLETED", "REFUND_REQUESTED", "REFUND_FAILED"}
Refunded   == {"REFUNDED", "PARTIALLY_REFUNDED"}
Statuses   == {"REFUNDING"} \cup Refundable \cup Refunded

\* Steps between taking the REFUNDING lock and giving it up.
Refunding == {"deduct", "gateway", "mark", "rollback", "audit", "failed",
              "restore"}
Steps == {"idle", "request", "prepare", "lock"} \cup Refunding

\* seen is p.Order.Status, take is BalanceToDeduct or SubDaysToDeduct.
NoPlan == [order |-> NoOrder, seen |-> "COMPLETED", amount |-> 0, take |-> 0]

FaultLog == [count : 0..MaxFaults, kinds : SUBSET FaultKinds]

TypeOK ==
    /\ status   \in [Orders -> Statuses]
    /\ balance  \in Int
    /\ revoked  \subseteq Orders
    /\ taken    \in [Orders -> Int]
    /\ paidBack \in [Orders -> Nat]
    /\ refunded \in [Orders -> 0..Price]
    /\ rbFailed \subseteq Orders
    /\ pc       \in [Workers -> Steps]
    /\ plan     \in [Workers -> [order : Orders \cup {NoOrder}, seen : Statuses,
                                 amount : 0..Price, take : 0..Price]]
    /\ faults   \in FaultLog

Init ==
    /\ status   = [o \in Orders |-> "COMPLETED"]
    /\ balance  = Balance
    /\ revoked  = {}
    /\ taken    = [o \in Orders |-> 0]
    /\ paidBack = [o \in Orders |-> 0]
    /\ refunded = [o \in Orders |-> 0]
    /\ rbFailed = {}
    /\ pc       = [w \in Workers |-> "idle"]
    /\ plan     = [w \in Workers |-> NoPlan]
    /\ faults   = [count |-> 0, kinds |-> {}]

-----------------------------------------------------------------------------
Fault(k) ==
    /\ k \in FaultKinds /\ faults.count < MaxFaults
    /\ faults' = [count |-> faults.count + 1, kinds |-> faults.kinds \cup {k}]

Goto(w, step) == pc' = [pc EXCEPT ![w] = step] /\ UNCHANGED plan

Leave(w) ==
    /\ pc'   = [pc EXCEPT ![w] = "idle"]
    /\ plan' = [plan EXCEPT ![w] = NoPlan]

Order(w) == plan[w].order

Spend ==
    /\ balance > 0
    /\ balance' = balance - 1
    /\ UNCHANGED <<status, revoked, taken, paidBack, refunded, rbFailed, pc,
                   plan, faults>>

\* validateRefundRequest and the balance check of RequestRefund.
RequestRefund(w, o) ==
    /\ pc[w] = "idle"
    /\ o \notin SubOrders
    /\ status[o] = "COMPLETED" /\ balance >= Price
    /\ pc'   = [pc EXCEPT ![w] = "request"]
    /\ plan' = [plan EXCEPT ![w] = [NoPlan EXCEPT !.order = o]]
    /\ UNCHANGED <<status, money, refunded, rbFailed, faults>>

WriteRequest(w) ==
    LET o == Order(w) IN
    /\ pc[w] = "request"
    /\ IF status[o] = "COMPLETED"
       THEN /\ status' = [status EXCEPT ![o] = "REFUND_REQUESTED"]
            /\ refunded' = [refunded EXCEPT ![o] = Price]
       ELSE UNCHANGED <<status, refunded>>
    /\ Leave(w)
    /\ UNCHANGED <<money, rbFailed, faults>>

\* Mutant: more than the order's amount may be refunded.
PrepareRefund_AnyAmount(w, o, amount, deduct) ==
    /\ pc[w] = "idle"
    /\ status[o] \in Refundable
    /\ pc'   = [pc EXCEPT ![w] = IF deduct THEN "prepare" ELSE "lock"]
    /\ plan' = [plan EXCEPT ![w] = [order |-> o, seen |-> status[o],
                                    amount |-> 2 * amount, take |-> 0]]
    /\ UNCHANGED <<status, money, refunded, rbFailed, faults>>

\* PrepareRefund reads the order...
PrepareRefund(w, o, amount, deduct) ==
    /\ pc[w] = "idle"
    /\ status[o] \in Refundable
    /\ pc'   = [pc EXCEPT ![w] = IF deduct THEN "prepare" ELSE "lock"]
    /\ plan' = [plan EXCEPT ![w] = [order |-> o, seen |-> status[o],
                                    amount |-> amount, take |-> 0]]
    /\ UNCHANGED <<status, money, refunded, rbFailed, faults>>

\* ... and prepDeduct the balance or the subscription.  Without one, an admin
\* who does not force the refund ends here; a forced one deducts nothing.
PrepareDeduct(w) ==
    LET o == Order(w)
        Plan(take) == /\ plan' = [plan EXCEPT ![w].take = take]
                      /\ pc'   = [pc EXCEPT ![w] = "lock"]
    IN
    /\ pc[w] = "prepare"
    /\ \/ /\ o \notin SubOrders
          /\ Plan(IF balance < 0 THEN 0
                  ELSE IF balance < plan[w].amount THEN balance ELSE plan[w].amount)
          /\ UNCHANGED faults
       \/ /\ o \in SubOrders \ revoked
          /\ Plan(Price)
          /\ UNCHANGED faults
       \/ /\ o \in revoked
          /\ Plan(0) \/ Leave(w)
          /\ UNCHANGED faults
       \/ /\ Fault("db")
          /\ Plan(0) \/ Leave(w)
    /\ UNCHANGED <<status, money, refunded, rbFailed>>

-----------------------------------------------------------------------------
\* Mutant: the lock can also be taken from a refund in progress.
CanLock_AlsoRefunding(o) == status[o] \in Refundable \cup {"REFUNDING"}

CanLock(o) == status[o] \in Refundable

\* The compare-and-set to REFUNDING.
LockRefund(w) ==
    LET o == Order(w) IN
    /\ pc[w] = "lock"
    /\ IF CanLock(o)
       THEN /\ status' = [status EXCEPT ![o] = "REFUNDING"]
            /\ \/ Goto(w, "deduct") /\ UNCHANGED faults
               \/ Leave(w) /\ Fault("lost")
       ELSE Leave(w) /\ UNCHANGED <<status, faults>>
    /\ UNCHANGED <<money, refunded, rbFailed>>

\* Mutant: the audit log is not asked.
DeductedBefore_Never(o) == o \notin Orders

DeductedBefore(o) == o \in rbFailed

\* A previous refund deducted and failed to give back: nothing is deducted.
SkipDeduct(w) ==
    /\ pc[w] = "deduct"
    /\ \/ plan[w].take = 0
       \/ plan[w].take > 0 /\ DeductedBefore(Order(w))
    /\ plan' = [plan EXCEPT ![w].take = 0]
    /\ pc'   = [pc EXCEPT ![w] = "gateway"]
    /\ UNCHANGED <<status, money, refunded, rbFailed, faults>>

\* DeductBalance may make the balance negative.  A subscription is shortened,
\* or revoked when that would end it.
Deduct(o, take) ==
    /\ taken' = [taken EXCEPT ![o] = @ + take]
    /\ IF o \notin SubOrders
       THEN balance' = balance - take /\ UNCHANGED revoked
       ELSE /\ \/ revoked' = revoked \cup {o}
               \/ UNCHANGED revoked
            /\ UNCHANGED balance

TryDeduct(w) ==
    LET o == Order(w) IN
    /\ pc[w] = "deduct" /\ plan[w].take > 0
    /\ \/ /\ ~DeductedBefore(o) /\ o \notin revoked
          /\ Deduct(o, plan[w].take)
          /\ \/ Goto(w, "gateway") /\ UNCHANGED faults
             \/ Goto(w, "restore") /\ Fault("lost")
       \/ /\ DeductedBefore(o) /\ o \notin revoked
          /\ Fault("blind")
          /\ Deduct(o, plan[w].take)
          /\ Goto(w, "gateway")
       \/ /\ ~DeductedBefore(o)
          /\ IF o \in revoked THEN UNCHANGED faults ELSE Fault("db")
          /\ Goto(w, "restore")
          /\ UNCHANGED <<balance, revoked, taken>>
    /\ UNCHANGED <<status, paidBack, refunded, rbFailed>>

\* Mutant: a refused refund counts as done.
OnGatewayError_Ignored == "mark"

\* Where handleGwFail begins.
OnGatewayError == "rollback"

\* Every call carries a new request number, so the provider takes a repeated
\* call for another refund.
GatewayRefund(w) ==
    LET o == Order(w) IN
    /\ pc[w] = "gateway"
    /\ \/ /\ o \in NoTrade
          /\ Goto(w, "mark")
          /\ UNCHANGED <<paidBack, faults>>
       \/ /\ o \notin NoTrade
          /\ paidBack' = [paidBack EXCEPT ![o] = @ + 1]
          /\ \/ Goto(w, "mark") /\ UNCHANGED faults
             \/ Goto(w, OnGatewayError) /\ Fault("lost")
       \/ /\ o \notin NoTrade /\ Fault("gw")
          /\ Goto(w, OnGatewayError)
          /\ UNCHANGED paidBack
    /\ UNCHANGED <<status, balance, revoked, taken, refunded, rbFailed>>

\* markRefundOk asks for no status; its error leaves the order in REFUNDING.
MarkRefundOk(w) ==
    LET o == Order(w) IN
    /\ pc[w] = "mark"
    /\ \/ /\ status' = [status EXCEPT ![o] =
                IF plan[w].amount < Price THEN "PARTIALLY_REFUNDED" ELSE "REFUNDED"]
          /\ refunded' = [refunded EXCEPT ![o] = plan[w].amount]
          /\ UNCHANGED faults
       \/ UNCHANGED <<status, refunded>> /\ Fault("db")
    /\ Leave(w)
    /\ UNCHANGED <<money, rbFailed>>

-----------------------------------------------------------------------------
GiveBack(o, take) ==
    /\ taken' = [taken EXCEPT ![o] = @ - take]
    /\ balance' = IF o \in SubOrders THEN balance ELSE balance + take

\* RollbackRefund.  A revoked subscription is gone and cannot be extended.
RollbackRefund(w) ==
    LET o == Order(w)
        take == plan[w].take
    IN
    /\ pc[w] = "rollback"
    /\ \/ /\ take = 0
          /\ Goto(w, "restore")
          /\ UNCHANGED <<taken, balance, faults>>
       \/ /\ take > 0 /\ o \notin revoked
          /\ GiveBack(o, take)
          /\ \/ Goto(w, "restore") /\ UNCHANGED faults
             \/ Goto(w, "audit") /\ Fault("lost")
       \/ /\ take > 0 /\ o \in revoked
          /\ Goto(w, "audit")
          /\ UNCHANGED <<taken, balance, faults>>
       \/ /\ take > 0 /\ Fault("db")
          /\ Goto(w, "audit")
          /\ UNCHANGED <<taken, balance>>
    /\ UNCHANGED <<status, revoked, paidBack, refunded, rbFailed>>

WriteRollbackFailed(w) ==
    /\ pc[w] = "audit"
    /\ \/ rbFailed' = rbFailed \cup {Order(w)} /\ UNCHANGED faults
       \/ UNCHANGED rbFailed /\ Fault("audit")
    /\ Goto(w, "failed")
    /\ UNCHANGED <<status, money, refunded>>

\* handleGwFail after a failed rollback.
MarkRefundFailed(w) ==
    /\ pc[w] = "failed"
    /\ \/ /\ status' = [status EXCEPT ![Order(w)] = "REFUND_FAILED"]
          /\ UNCHANGED faults
       \/ UNCHANGED status /\ Fault("db")
    /\ Leave(w)
    /\ UNCHANGED <<money, refunded, rbFailed>>

\* Mutant: the status is restored from the row, which reads REFUNDING by now.
Restored_Current(seen) ==
    IF seen = "REFUND_REQUESTED" THEN "REFUND_REQUESTED" ELSE "REFUNDING"

\* restoreStatus goes by the status PrepareRefund saw.
Restored(seen) ==
    IF seen = "REFUND_REQUESTED" THEN "REFUND_REQUESTED" ELSE "COMPLETED"

RestoreStatus(w) ==
    /\ pc[w] = "restore"
    /\ \/ /\ status' = [status EXCEPT ![Order(w)] = Restored(plan[w].seen)]
          /\ UNCHANGED faults
       \/ UNCHANGED status /\ Fault("db")
    /\ Leave(w)
    /\ UNCHANGED <<money, refunded, rbFailed>>

\* The request disappears, or fails at a statement before the lock.
Crash(w) ==
    /\ pc[w] # "idle"
    /\ Fault("crash")
    /\ Leave(w)
    /\ UNCHANGED <<status, money, refunded, rbFailed>>

\* What a request does by itself once it has begun.
Continue(w) ==
    \/ WriteRequest(w) \/ PrepareDeduct(w) \/ LockRefund(w) \/ SkipDeduct(w)
    \/ TryDeduct(w) \/ GatewayRefund(w) \/ MarkRefundOk(w) \/ RollbackRefund(w)
    \/ WriteRollbackFailed(w) \/ MarkRefundFailed(w) \/ RestoreStatus(w)

Next ==
    \/ \E w \in Workers :
          \/ \E o \in Orders : RequestRefund(w, o)
          \/ \E o \in Orders, amount \in 1..Price, deduct \in BOOLEAN :
                PrepareRefund(w, o, amount, deduct)
          \/ Continue(w) \/ Crash(w)
    \/ Spend

Spec == Init /\ [][Next]_vars

-----------------------------------------------------------------------------
(* Properties.                                                             *)

\* One refund at a time works on an order, through retries, rollbacks and
\* stale plans: the unconditional status writes hit nobody else's refund.
OneRefund ==
    \A v, w \in Workers :
        v # w /\ pc[v] \in Refunding /\ pc[w] \in Refunding => Order(v) # Order(w)

\* While a refund is at work its order stays in REFUNDING.
WorkIsLocked ==
    \A w \in Workers : pc[w] \in Refunding => status[Order(w)] = "REFUNDING"

\* The converse too: an order is in REFUNDING only for a refund at work, unless
\* the request disappeared or the write that ends the refund or takes the lock
\* failed.  No refusal and no failed rollback strands an order there, where no
\* later request can lock it.
LockMeansWork ==
    /\ WorkIsLocked
    /\ \A o \in Orders :
          \/ status[o] # "REFUNDING"
          \/ \E w \in Workers : pc[w] \in Refunding /\ Order(w) = o
          \/ faults.kinds \cap {"db", "lost", "crash"} # {}

\* An order is only marked refunded when the provider has paid it back.
RefundedIsPaidBack ==
    \A o \in Orders \ NoTrade : status[o] \in Refunded => paidBack[o] >= 1

\* A reply that is lost, an audit row that is not written or not read: after
\* one of these the code cannot know what a refund has done already.
Misled == faults.kinds \cap {"lost", "audit", "blind"} # {}

\* The provider pays an order back once, through refusals, failed statements,
\* rollbacks, crashes and retries, unless the code was misled.
PaidBackOnce == Misled \/ \A o \in Orders : paidBack[o] <= 1

\* A refund retried after a failed rollback does not deduct a second time.
DeductedOnce == Misled \/ \A o \in Orders : taken[o] <= Price

\* Misled or not, the refunds of an order cost one payback and one deduction,
\* and at most its price once more for each failure.
LossesCostFaults ==
    \A o \in Orders :
        /\ taken[o] >= 0
        /\ Price * paidBack[o] + taken[o] <= Price * (2 + faults.count)

\* What RefundLedger calls the status of an order.
LedgerState(s) ==
    CASE s \in Refundable    -> "open"
      [] s = "REFUNDING"     -> "locked"
      [] s \in Refunded      -> "refunded"

Ledger == INSTANCE RefundLedger WITH
    state  <- [o \in Orders |-> LedgerState(status[o])],
    paid   <- paidBack,
    noted  <- rbFailed,
    misled <- Misled

\* The requests implement RefundLedger.
ImplementsRefundLedger == Ledger!Spec
==============================================================================
