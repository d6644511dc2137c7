--------------------------- MODULE OrderAdmission ---------------------------
(***************************************************************************)
(* The limits a new payment order has to pass: cancellations in a window,  *)
(* pending orders, and money paid in a day.  All rows belong to one user,  *)
(* the only rows the queries count.                                        *)
(*                                                                         *)
(* The checks and the insert are statements of one READ COMMITTED          *)
(* transaction: each sees what is committed when it runs, and no row is    *)
(* locked, so concurrent requests of the user interleave between them.     *)
(***************************************************************************)
EXTENDS Integers, FiniteSets, FiniteSetsExt

CONSTANTS
    Orders,
    NoOrder,
    Workers,      \* concurrent requests
    Amounts,      \* limitAmount of a request
    Fee,          \* what pay_amount adds to it
    MaxPending,   \* MaxPendingOrders
    DailyMax,     \* DailyLimit, 0 for none
    MaxCancels,   \* CancelRateLimitMax, 0 when the limit is off
    Faulty        \* may the cancel count, the audit log and the insert fail?

ASSUME LimitAssumption ==
    /\ MaxPending \in Nat \ {0} /\ DailyMax \in Nat /\ MaxCancels \in Nat
    /\ Amounts \subseteq Nat /\ Fee \in Nat /\ Faulty \in BOOLEAN
    /\ NoOrder \notin Orders
ASSUME WorkerAssumption == IsFiniteSet(Workers)

VARIABLES
    status,   \* PAID: counted as paid today; CLOSED: cancelled or expired; OVER:
              \* refunded, or paid before today
    price,    \* limitAmount of the order
    logged,   \* ORDER_CANCELLED audit rows of the user in the window
    unlogged, \* orders the user cancelled whose audit row is being written
    pc, ord   \* of each request: next step, the row it is about to insert

vars == <<status, price, logged, unlogged, pc, ord>>

Steps == {"idle", "cancels", "pending", "daily", "insert"}

TypeOK ==
    /\ status   \in [Orders -> {"none", "PENDING", "CLOSED", "PAID", "FAILED", "OVER"}]
    /\ price    \in [Orders -> Amounts \cup {0}]
    /\ logged   \in Nat
    /\ unlogged \subseteq Orders
    /\ pc       \in [Workers -> Steps]
    /\ ord      \in [Workers -> Orders \cup {NoOrder}]
    /\ \A w \in Workers : pc[w] = "idle" <=> ord[w] = NoOrder

Init ==
    /\ status   = [o \in Orders |-> "none"]
    /\ price    = [o \in Orders |-> 0]
    /\ logged   = 0
    /\ unlogged = {}
    /\ pc       = [w \in Workers |-> "idle"]
    /\ ord      = [w \in Workers |-> NoOrder]

-----------------------------------------------------------------------------
Pending == {o \in Orders : status[o] = "PENDING"}

\* What checkDailyLimit adds up: the pay_amount of balance orders, fee included.
UsedToday == MapThenSumSet(LAMBDA o : price[o] + Fee,
                           {o \in Orders : status[o] = "PAID"})

Goto(w, step) == pc' = [pc EXCEPT ![w] = step] /\ UNCHANGED ord

Refuse(w) ==
    /\ pc'  = [pc EXCEPT ![w] = "idle"]
    /\ ord' = [ord EXCEPT ![w] = NoOrder]

Request(w, o, a) ==
    /\ pc[w] = "idle"
    /\ status[o] = "none" /\ \A v \in Workers : ord[v] # o
    /\ price' = [price EXCEPT ![o] = a]
    /\ pc'  = [pc EXCEPT ![w] = "cancels"]
    /\ ord' = [ord EXCEPT ![w] = o]
    /\ UNCHANGED <<status, logged, unlogged>>

TooManyCancels == MaxCancels > 0 /\ logged >= MaxCancels

\* A count that fails lets the request through.
CheckCancelRateLimit(w) ==
    /\ pc[w] = "cancels"
    /\ \/ (~TooManyCancels \/ Faulty) /\ Goto(w, "pending")
       \/ TooManyCancels /\ Refuse(w)
    /\ UNCHANGED <<status, price, logged, unlogged>>

\* Mutant: one more is let in.
TooManyPending_OffByOne == Cardinality(Pending) > MaxPending

TooManyPending == Cardinality(Pending) >= MaxPending

CheckPendingLimit(w) ==
    /\ pc[w] = "pending"
    /\ IF TooManyPending THEN Refuse(w) ELSE Goto(w, "daily")
    /\ UNCHANGED <<status, price, logged, unlogged>>

\* The request counts without the fee, and pending orders do not count.
CheckDailyLimit(w) ==
    /\ pc[w] = "daily"
    /\ IF DailyMax > 0 /\ UsedToday + price[ord[w]] > DailyMax
       THEN Refuse(w) ELSE Goto(w, "insert")
    /\ UNCHANGED <<status, price, logged, unlogged>>

\* The insert and the commit; when one fails there is no order.
InsertOrder(w) ==
    /\ pc[w] = "insert"
    /\ \/ status' = [status EXCEPT ![ord[w]] = "PENDING"]
       \/ Faulty /\ UNCHANGED status
    /\ Refuse(w)
    /\ UNCHANGED <<price, logged, unlogged>>

-----------------------------------------------------------------------------
(* What happens to orders later (see PaymentOrder), as far as it counts.   *)

\* CancelOrder by the user; its audit row is a later statement.
UserCancels(o) ==
    /\ status[o] = "PENDING"
    /\ status' = [status EXCEPT ![o] = "CLOSED"]
    /\ unlogged' = unlogged \cup {o}
    /\ UNCHANGED <<price, logged, pc, ord>>

WriteAuditLog(o) ==
    /\ o \in unlogged
    /\ unlogged' = unlogged \ {o}
    /\ \/ logged' = logged + 1
       \/ Faulty /\ UNCHANGED logged
    /\ UNCHANGED <<status, price, pc, ord>>

WindowPasses ==
    /\ logged > 0
    /\ logged' = 0
    /\ UNCHANGED <<status, price, unlogged, pc, ord>>

\* Expiry, an admin's cancellation, or a provider that refuses the order.
SystemCloses(o) ==
    /\ status[o] = "PENDING"
    /\ status' = [status EXCEPT ![o] = "CLOSED"]
    /\ UNCHANGED <<price, logged, unlogged, pc, ord>>

\* toPaid, also from CANCELLED and EXPIRED, and the retry of a failed order.
Pay(o) ==
    /\ status[o] \in {"PENDING", "CLOSED", "FAILED"}
    /\ status' = [status EXCEPT ![o] = "PAID"]
    /\ UNCHANGED <<price, logged, unlogged, pc, ord>>

\* A failed fulfilment; a refund or a new day.
NoLongerCounts(o) ==
    /\ status[o] = "PAID"
    /\ \E s \in {"FAILED", "OVER"} : status' = [status EXCEPT ![o] = s]
    /\ UNCHANGED <<price, logged, unlogged, pc, ord>>

Next ==
    \/ \E w \in Workers :
          \/ \E o \in Orders, a \in Amounts : Request(w, o, a)
          \/ CheckCancelRateLimit(w) \/ CheckPendingLimit(w)
          \/ CheckDailyLimit(w) \/ InsertOrder(w)
    \/ \E o \in Orders :
          \/ UserCancels(o) \/ WriteAuditLog(o) \/ SystemCloses(o)
          \/ Pay(o) \/ NoLongerCounts(o)
    \/ WindowPasses

Spec == Init /\ [][Next]_vars

-----------------------------------------------------------------------------
\* The user never has more pending orders than the limit, and each further
\* concurrent request can pass the count at most once before the others insert.
PendingOvershoot ==
    Cardinality(Pending) <= MaxPending + Cardinality(Workers) - 1
==============================================================================
