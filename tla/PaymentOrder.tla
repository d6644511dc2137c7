---------------------------- MODULE PaymentOrder ----------------------------
(***************************************************************************)
(* The life of a payment order: creation, payment at the provider, webhook *)
(* confirmation, fulfilment (balance credit or subscription), cancelling,  *)
(* expiry, active verification and admin retry.                            *)
(*                                                                         *)
(* A worker is one goroutine: a webhook request, a user or admin request,  *)
(* or the expiry job at work on one order.  Every database statement or    *)
(* transaction and every provider call is one action, so workers           *)
(* interleave between any two of them, as they do on several replicas.     *)
(***************************************************************************)
EXTENDS Integers

CONSTANTS
    Orders,      \* payment_orders rows
    SubOrders,   \* those with order_type = subscription; the others are balance
    Workers,     \* goroutines handling a request or a job iteration
    NoOrder,     \* the order of an idle worker
    FaultKinds,  \* the kinds of failure that may happen (see AllFaults)
    MaxFaults    \* bound: failures in one behaviour

\* op: a step of doBalance or doSub fails with no effect (database, rate limit,
\* inactive group); db: the same for a statement on the order row; lost: a call
\* takes effect but reports an error; query: the provider's query fails; blind:
\* a failed read that the code answers with nil; mark: the update inside
\* markFailed fails; crash: the goroutine disappears.
AllFaults == {"op", "db", "lost", "query", "blind", "mark", "crash"}

ASSUME OrderAssumption == SubOrders \subseteq Orders /\ NoOrder \notin Orders
ASSUME FaultAssumption == FaultKinds \subseteq AllFaults /\ MaxFaults \in Nat

VARIABLES
    status,    \* payment_orders.status, "none" before the row exists
    paidAt,    \* paid_at IS NOT NULL
    timedOut,  \* expires_at <= now
    fresh,     \* updated_at >= now - paymentGraceMinutes
    upstream,  \* the trade at the provider
    acked,     \* a webhook delivery for the order was answered 2xx
    code,      \* the redeem code row of a balance order
    credited,  \* how many times the order's amount was added to the balance
    extended,  \* how many times a subscription was assigned or extended
    claim,     \* the AFFILIATE_REBATE_* claim row of the order
    rebates,   \* how many times the inviter's rebate was accrued
    subAudit,  \* the SUBSCRIPTION_SUCCESS audit row exists
    pc, kind, ord,  \* of each worker: next step, what it runs, on which order
    faults

row    == <<status, paidAt, timedOut, fresh>>
grants == <<code, credited, extended, claim, rebates, subAudit>>
procs  == <<pc, kind, ord>>
vars   == <<status, paidAt, timedOut, fresh, upstream, acked, code, credited,
            extended, claim, rebates, subAudit, pc, kind, ord, faults>>

-----------------------------------------------------------------------------
RefundStatuses == {"REFUNDING", "REFUNDED"}
Delivered      == {"COMPLETED"} \cup RefundStatuses
Statuses       == {"none", "PENDING", "PAID", "RECHARGING", "EXPIRED",
                   "CANCELLED", "FAILED"} \cup Delivered

\* Steps between taking the RECHARGING lock and giving it up.
Fulfilling == {"lookup", "create", "redeem", "rebate", "subcheck", "assign",
               "complete"}
Steps == {"idle", "invoke", "toPaid", "already", "exec", "lock", "reset",
          "query", "cancelUp", "close", "audit", "fail"} \cup Fulfilling
Kinds == {"none", "create", "webhook", "retry", "cancel", "expire", "verify"}

TypeOK ==
    /\ status   \in [Orders -> Statuses]
    /\ paidAt   \in [Orders -> BOOLEAN]
    /\ timedOut \in [Orders -> BOOLEAN]
    /\ fresh    \in [Orders -> BOOLEAN]
    /\ upstream \in [Orders -> {"none", "unpaid", "paid", "mispaid", "closed"}]
    /\ acked    \in [Orders -> BOOLEAN]
    /\ code     \in [Orders -> {"none", "unused", "used"}]
    /\ credited \in [Orders -> Nat]
    /\ extended \in [Orders -> Nat]
    /\ claim    \in [Orders -> {"none", "APPLIED", "SKIPPED"}]
    /\ rebates  \in [Orders -> Nat]
    /\ subAudit \in [Orders -> BOOLEAN]
    /\ pc       \in [Workers -> Steps]
    /\ kind     \in [Workers -> Kinds]
    /\ ord      \in [Workers -> Orders \cup {NoOrder}]
    /\ \A w \in Workers : pc[w] # "idle" => ord[w] \in Orders
    /\ faults   \in 0..MaxFaults

Init ==
    /\ status   = [o \in Orders |-> "none"]
    /\ paidAt   = [o \in Orders |-> FALSE]
    /\ timedOut = [o \in Orders |-> FALSE]
    /\ fresh    = [o \in Orders |-> TRUE]
    /\ upstream = [o \in Orders |-> "none"]
    /\ acked    = [o \in Orders |-> FALSE]
    /\ code     = [o \in Orders |-> "none"]
    /\ credited = [o \in Orders |-> 0]
    /\ extended = [o \in Orders |-> 0]
    /\ claim    = [o \in Orders |-> "none"]
    /\ rebates  = [o \in Orders |-> 0]
    /\ subAudit = [o \in Orders |-> FALSE]
    /\ pc       = [w \in Workers |-> "idle"]
    /\ kind     = [w \in Workers |-> "none"]
    /\ ord      = [w \in Workers |-> NoOrder]
    /\ faults   = 0

-----------------------------------------------------------------------------
(* Control flow of a worker.                                               *)

Fault(k) == k \in FaultKinds /\ faults < MaxFaults /\ faults' = faults + 1

\* Mutant: the request is started without binding its order.
Begin_Unbound(w, k, o, step) ==
    /\ pc[w] = "idle"
    /\ pc'   = [pc EXCEPT ![w] = step]
    /\ kind' = [kind EXCEPT ![w] = k]
    /\ UNCHANGED ord

Begin(w, k, o, step) ==
    /\ pc[w] = "idle"
    /\ pc'   = [pc EXCEPT ![w] = step]
    /\ kind' = [kind EXCEPT ![w] = k]
    /\ ord'  = [ord EXCEPT ![w] = o]

Goto(w, step) ==
    /\ pc' = [pc EXCEPT ![w] = step]
    /\ UNCHANGED <<kind, ord, acked>>

Leave(w) ==
    /\ pc'   = [pc EXCEPT ![w] = "idle"]
    /\ kind' = [kind EXCEPT ![w] = "none"]
    /\ ord'  = [ord EXCEPT ![w] = NoOrder]

\* handleNotify answers 2xx exactly when HandlePaymentNotification returned
\* nil; the other callers swallow the result.
Return(w, ok) ==
    /\ Leave(w)
    /\ acked' = IF ok /\ kind[w] = "webhook"
                THEN [acked EXCEPT ![ord[w]] = TRUE] ELSE acked

\* Mutant: fulfilment returns its error without markFailed.
Error_NotMarked(w) == Return(w, FALSE)

\* An error inside doBalance or doSub goes through markFailed; elsewhere it is
\* returned at once.
Error(w) == IF pc[w] \in Fulfilling THEN Goto(w, "fail") ELSE Return(w, FALSE)

\* The call took effect; its reply may still be lost.
Reply(w, step) ==
    \/ Goto(w, step) /\ UNCHANGED faults
    \/ Fault("lost") /\ Error(w)

\* updated_at moves with every update of the row.
Touch(o) == fresh' = [fresh EXCEPT ![o] = TRUE]

\* UPDATE ... SET status = to WHERE status IN from, the row count ignored.
CompareAndSet(o, from, to) ==
    IF status[o] \in from
    THEN status' = [status EXCEPT ![o] = to] /\ Touch(o)
    ELSE UNCHANGED <<status, fresh>>

-----------------------------------------------------------------------------
(* Creating the order and paying it.                                       *)

CreateOrder(w, o) ==
    /\ status[o] = "none"
    /\ status' = [status EXCEPT ![o] = "PENDING"]
    /\ Begin(w, "create", o, "invoke")
    /\ UNCHANGED <<paidAt, timedOut, fresh, upstream, acked, grants, faults>>

\* invokeProvider succeeded: only now does the user hold something to pay.
InvokeProvider(w) ==
    /\ pc[w] = "invoke"
    /\ upstream' = [upstream EXCEPT ![ord[w]] = "unpaid"]
    /\ Touch(ord[w])
    /\ Return(w, TRUE)
    /\ UNCHANGED <<status, paidAt, timedOut, grants, faults>>

\* invokeProvider failed: FAILED is written whatever the status is by now.
InvokeProviderFails(w) ==
    /\ pc[w] = "invoke"
    /\ status' = [status EXCEPT ![ord[w]] = "FAILED"]
    /\ Touch(ord[w])
    /\ Return(w, FALSE)
    /\ UNCHANGED <<paidAt, timedOut, upstream, grants, faults>>

UserPays(o) ==
    /\ upstream[o] = "unpaid"
    /\ \E u \in {"paid", "mispaid"} : upstream' = [upstream EXCEPT ![o] = u]
    /\ UNCHANGED <<row, acked, grants, procs, faults>>

DeadlinePasses(o) ==
    /\ status[o] = "PENDING" /\ ~timedOut[o]
    /\ timedOut' = [timedOut EXCEPT ![o] = TRUE]
    /\ UNCHANGED <<status, paidAt, fresh, upstream, acked, grants, procs, faults>>

GracePasses(o) ==
    /\ status[o] = "EXPIRED" /\ fresh[o]
    /\ fresh' = [fresh EXCEPT ![o] = FALSE]
    /\ UNCHANGED <<status, paidAt, timedOut, upstream, acked, grants, procs, faults>>

-----------------------------------------------------------------------------
(* Confirming the payment.                                                 *)

\* Mutant: confirmPayment does not compare the amount.
ConfirmPasses_AnyAmount(o) == upstream[o] \in {"paid", "mispaid"}

\* confirmPayment's provider, metadata and amount checks: they compare the
\* notification with columns of the order that never change.
ConfirmPasses(o) == upstream[o] = "paid"

\* A delivery that fails the checks is answered 500 and changes nothing.
Webhook(w, o) ==
    /\ upstream[o] \in {"paid", "mispaid"}
    /\ ConfirmPasses(o)
    /\ Begin(w, "webhook", o, "toPaid")
    /\ UNCHANGED <<row, upstream, acked, grants, faults>>

\* A failed read in GetWebhookProviders or at the top of confirmPayment is
\* answered 2xx although nothing was done.
WebhookBlindAck(o) ==
    /\ upstream[o] \in {"paid", "mispaid"}
    /\ Fault("blind")
    /\ acked' = [acked EXCEPT ![o] = TRUE]
    /\ UNCHANGED <<row, upstream, grants, procs>>

\* Mutant: toPaid only accepts PENDING orders.
PayableNow_OnlyPending(o) == status[o] = "PENDING"

PayableNow(o) == \/ status[o] \in {"PENDING", "CANCELLED"}
                 \/ status[o] = "EXPIRED" /\ fresh[o]

ToPaid(w) ==
    LET o == ord[w] IN
    /\ pc[w] = "toPaid"
    /\ \/ /\ PayableNow(o)
          /\ status' = [status EXCEPT ![o] = "PAID"]
          /\ paidAt' = [paidAt EXCEPT ![o] = TRUE]
          /\ Touch(o)
          /\ Reply(w, "exec")
       \/ /\ ~PayableNow(o)
          /\ Goto(w, "already")
          /\ UNCHANGED <<status, paidAt, fresh, faults>>
    /\ UNCHANGED <<timedOut, upstream, grants>>

AlreadyProcessed(w) ==
    LET s == status[ord[w]] IN
    /\ pc[w] = "already"
    /\ \/ s = "FAILED" /\ Goto(w, "exec") /\ UNCHANGED faults
       \/ s \in {"PAID", "RECHARGING"} /\ Return(w, FALSE) /\ UNCHANGED faults
       \/ s \notin {"FAILED", "PAID", "RECHARGING"} /\ Return(w, TRUE) /\ UNCHANGED faults
       \/ Fault("blind") /\ Return(w, TRUE)
    /\ UNCHANGED <<row, upstream, grants>>

-----------------------------------------------------------------------------
(* Fulfilment.                                                             *)

\* Mutant: the lock can be taken over from a running fulfilment.
CanFulfill_AlsoLocked(s) == s \in {"PAID", "FAILED", "RECHARGING"}

CanFulfill(s) == s \in {"PAID", "FAILED"}

ExecuteFulfillment(w) ==
    LET s == status[ord[w]] IN
    /\ pc[w] = "exec"
    /\ \/ CanFulfill(s) /\ Goto(w, "lock")
       \/ ~CanFulfill(s) /\ Return(w, s = "COMPLETED")
    /\ UNCHANGED <<row, upstream, grants, faults>>

FirstStep(o) == IF o \in SubOrders THEN "subcheck" ELSE "lookup"

\* The compare-and-set to RECHARGING.  The loser returns nil.
LockFulfillment(w) ==
    LET o == ord[w] IN
    /\ pc[w] = "lock"
    /\ \/ /\ CanFulfill(status[o])
          /\ status' = [status EXCEPT ![o] = "RECHARGING"]
          /\ Touch(o)
          /\ Reply(w, FirstStep(o))
       \/ /\ ~CanFulfill(status[o])
          /\ Return(w, TRUE)
          /\ UNCHANGED <<status, fresh, faults>>
    /\ UNCHANGED <<paidAt, timedOut, upstream, grants>>

\* Mutant: an existing code is taken as redeemed.
RedeemAction_ExistsMeansUsed(c) == IF c = "none" THEN "create" ELSE "rebate"

\* resolveRedeemAction: a failed lookup counts as "no code".
RedeemAction(c) == CASE c = "none"   -> "create"
                     [] c = "unused" -> "redeem"
                     [] c = "used"   -> "rebate"

LookupCode(w) ==
    /\ pc[w] = "lookup"
    /\ \/ Goto(w, RedeemAction(code[ord[w]])) /\ UNCHANGED faults
       \/ Goto(w, "create") /\ Fault("op")
    /\ UNCHANGED <<row, upstream, grants>>

\* redeem_codes.code is unique: creating an existing code is an error.
CreateCode(w) ==
    LET o == ord[w] IN
    /\ pc[w] = "create"
    /\ \/ /\ code[o] = "none"
          /\ code' = [code EXCEPT ![o] = "unused"]
          /\ Reply(w, "redeem")
       \/ /\ code[o] # "none"
          /\ Error(w)
          /\ UNCHANGED <<code, faults>>
    /\ UNCHANGED <<row, upstream, credited, extended, claim, rebates, subAudit>>

\* Mutant: Use without its WHERE status = 'unused'.
UseCode_Unguarded(o) ==
    /\ code[o] # "none"
    /\ code' = [code EXCEPT ![o] = "used"]
    /\ credited' = [credited EXCEPT ![o] = @ + 1]

\* Redeem's transaction: Use (unused -> used) together with UpdateBalance.
UseCode(o) ==
    /\ code[o] = "unused"
    /\ code' = [code EXCEPT ![o] = "used"]
    /\ credited' = [credited EXCEPT ![o] = @ + 1]

\* A reply lost after the commit covers the failing re-read at its end.
RedeemCode(w) ==
    LET o == ord[w] IN
    /\ pc[w] = "redeem"
    /\ \/ UseCode(o) /\ Reply(w, "rebate")
       \/ code[o] # "unused" /\ Error(w) /\ UNCHANGED <<code, credited, faults>>
    /\ UNCHANGED <<row, upstream, extended, claim, rebates, subAudit>>

\* The owner of the code may redeem it through the public endpoint as well.
UserRedeems(o) ==
    /\ UseCode(o)
    /\ UNCHANGED <<row, upstream, acked, extended, claim, rebates, subAudit,
                   procs, faults>>

\* tryClaimAffiliateRebateAudit inserts only when no claim row exists.
ClaimFree(o) == claim[o] = "none"

\* One transaction: claim the audit row, accrue, settle the row.
ApplyRebate(w) ==
    LET o == ord[w] IN
    /\ pc[w] = "rebate"
    /\ \/ /\ ClaimFree(o)
          /\ \/ /\ claim' = [claim EXCEPT ![o] = "APPLIED"]
                /\ rebates' = [rebates EXCEPT ![o] = @ + 1]
             \/ /\ claim' = [claim EXCEPT ![o] = "SKIPPED"]
                /\ UNCHANGED rebates
          /\ Reply(w, "complete")
       \/ /\ ~ClaimFree(o)
          /\ Goto(w, "complete")
          /\ UNCHANGED <<claim, rebates, faults>>
    /\ UNCHANGED <<row, upstream, code, credited, extended, subAudit>>

\* Mutant: the audit check inverted.
CheckSubscription_Inverted(w) ==
    /\ pc[w] = "subcheck"
    /\ Goto(w, IF subAudit[ord[w]] THEN "assign" ELSE "complete")
    /\ UNCHANGED <<row, upstream, grants, faults>>

\* doSub's guard; a failed hasAuditLog counts as "no row", an inactive group is
\* an error (StepFails).
CheckSubscription(w) ==
    /\ pc[w] = "subcheck"
    /\ \/ /\ Goto(w, IF subAudit[ord[w]] THEN "complete" ELSE "assign")
          /\ UNCHANGED faults
       \/ Goto(w, "assign") /\ Fault("op")
    /\ UNCHANGED <<row, upstream, grants>>

AssignOrExtend(w) ==
    /\ pc[w] = "assign"
    /\ extended' = [extended EXCEPT ![ord[w]] = @ + 1]
    /\ Reply(w, "complete")
    /\ UNCHANGED <<row, upstream, code, credited, claim, rebates, subAudit>>

MarkCompleted(w) ==
    /\ pc[w] = "complete"
    /\ CompareAndSet(ord[w], {"RECHARGING"}, "COMPLETED")
    /\ Reply(w, "audit")
    /\ UNCHANGED <<paidAt, timedOut, upstream, grants>>

\* writeAuditLog: a failing insert is only logged.
AuditCompleted(w) ==
    /\ pc[w] = "audit"
    /\ \/ /\ subAudit' = [subAudit EXCEPT ![ord[w]] = ord[w] \in SubOrders \/ @]
          /\ UNCHANGED faults
       \/ Fault("op") /\ UNCHANGED subAudit
    /\ Return(w, TRUE)
    /\ UNCHANGED <<row, upstream, code, credited, extended, claim, rebates>>

\* Mutant: markFailed overwrites whatever status the order has.
MarkFailed_Unguarded(w) ==
    /\ pc[w] = "fail"
    /\ status' = [status EXCEPT ![ord[w]] = "FAILED"]
    /\ Touch(ord[w])
    /\ Return(w, FALSE)
    /\ UNCHANGED <<paidAt, timedOut, upstream, grants, faults>>

\* RECHARGING -> FAILED; an error of this update is only logged.
MarkFailed(w) ==
    /\ pc[w] = "fail"
    /\ \/ CompareAndSet(ord[w], {"RECHARGING"}, "FAILED") /\ UNCHANGED faults
       \/ Fault("mark") /\ UNCHANGED <<status, fresh>>
    /\ Return(w, FALSE)
    /\ UNCHANGED <<paidAt, timedOut, upstream, grants>>

-----------------------------------------------------------------------------
(* Admin retry.                                                            *)

RetryFulfillment(w, o) ==
    /\ paidAt[o] /\ CanFulfill(status[o])
    /\ Begin(w, "retry", o, "reset")
    /\ UNCHANGED <<row, upstream, acked, grants, faults>>

\* The row count of the reset is ignored: fulfilment is tried either way.
ResetForRetry(w) ==
    LET o == ord[w] IN
    /\ pc[w] = "reset"
    /\ \/ /\ CanFulfill(status[o])
          /\ status' = [status EXCEPT ![o] = "PAID"]
          /\ Touch(o)
          /\ Reply(w, "exec")
       \/ /\ ~CanFulfill(status[o])
          /\ Goto(w, "exec")
          /\ UNCHANGED <<status, fresh, faults>>
    /\ UNCHANGED <<paidAt, timedOut, upstream, grants>>

-----------------------------------------------------------------------------
(* Cancelling, expiring and verifying: all three ask the provider first.   *)

CancelOrder(w, o) ==
    /\ status[o] = "PENDING"
    /\ Begin(w, "cancel", o, "query")
    /\ UNCHANGED <<row, upstream, acked, grants, faults>>

ExpireTimedOutOrder(w, o) ==
    /\ status[o] = "PENDING" /\ timedOut[o]
    /\ Begin(w, "expire", o, "query")
    /\ UNCHANGED <<row, upstream, acked, grants, faults>>

\* VerifyOrderByOutTradeNo and GetPublicOrderByResumeToken.
VerifyOrder(w, o) ==
    /\ status[o] \in {"PENDING", "EXPIRED"}
    /\ Begin(w, "verify", o, "query")
    /\ UNCHANGED <<row, upstream, acked, grants, faults>>

\* What follows when checkPaid does not report already_paid.
NotPaid(w) == IF kind[w] = "verify" THEN Return(w, TRUE) ELSE Goto(w, "close")

\* checkPaid's query.  On "paid" a new trade number may be persisted, which
\* refreshes updated_at; a payment the checks refuse is still already_paid.
QueryUpstream(w) ==
    LET o == ord[w] IN
    /\ pc[w] = "query"
    /\ \/ /\ upstream[o] \in {"paid", "mispaid"}
          /\ \/ Touch(o)
             \/ UNCHANGED fresh
          /\ IF ConfirmPasses(o) THEN Goto(w, "toPaid") ELSE Return(w, TRUE)
          /\ UNCHANGED faults
       \/ /\ upstream[o] \notin {"paid", "mispaid"}
          /\ Goto(w, "cancelUp")
          /\ UNCHANGED <<fresh, faults>>
       \/ /\ Fault("query")
          /\ NotPaid(w)
          /\ UNCHANGED fresh
    /\ UNCHANGED <<status, paidAt, timedOut, upstream, grants>>

\* CancelPayment is best effort, and a no-op for a provider that is not
\* cancelable or a trade that does not exist or was paid in the meantime.
CancelUpstream(w) ==
    LET o == ord[w] IN
    /\ pc[w] = "cancelUp"
    /\ \/ /\ upstream[o] = "unpaid"
          /\ upstream' = [upstream EXCEPT ![o] = "closed"]
       \/ UNCHANGED upstream
    /\ NotPaid(w)
    /\ UNCHANGED <<row, grants, faults>>

FinalStatus(k) == IF k = "expire" THEN "EXPIRED" ELSE "CANCELLED"

\* Mutant: the update of cancelCore accepts an order that was paid meanwhile.
Closable_AlsoPaid == {"PENDING", "PAID"}

Closable == {"PENDING"}

CloseOrder(w) ==
    /\ pc[w] = "close"
    /\ CompareAndSet(ord[w], Closable, FinalStatus(kind[w]))
    /\ Return(w, TRUE)
    /\ UNCHANGED <<paidAt, timedOut, upstream, grants, faults>>

-----------------------------------------------------------------------------
(* Failures and the refund workflow, which owns an order once it completed. *)

\* The call of the worker's next step fails without effect.
StepFails(w) ==
    /\ \/ pc[w] \in {"toPaid", "exec", "lock", "reset", "close"} /\ Fault("db")
       \/ pc[w] \in Fulfilling \ {"lookup"} /\ Fault("op")
    /\ Error(w)
    /\ UNCHANGED <<row, upstream, grants>>

\* A panic, a killed process, or (at "invoke") a failed FAILED update, whose
\* error is discarded.
Crash(w) ==
    /\ pc[w] # "idle"
    /\ Fault("crash")
    /\ Leave(w)
    /\ UNCHANGED <<row, upstream, acked, grants>>

RefundStarts(o) ==
    /\ status[o] = "COMPLETED"
    /\ status' = [status EXCEPT ![o] = "REFUNDING"]
    /\ Touch(o)
    /\ UNCHANGED <<paidAt, timedOut, upstream, acked, grants, procs, faults>>

RefundEnds(o) ==
    /\ status[o] = "REFUNDING"
    /\ \E s \in {"REFUNDED", "COMPLETED"} : status' = [status EXCEPT ![o] = s]
    /\ Touch(o)
    /\ UNCHANGED <<paidAt, timedOut, upstream, acked, grants, procs, faults>>

-----------------------------------------------------------------------------
Environment(o) ==
    \/ UserPays(o) \/ DeadlinePasses(o) \/ GracePasses(o) \/ UserRedeems(o)
    \/ WebhookBlindAck(o) \/ RefundStarts(o) \/ RefundEnds(o)

Request(w, o) ==
    \/ CreateOrder(w, o) \/ Webhook(w, o) \/ RetryFulfillment(w, o)
    \/ CancelOrder(w, o) \/ ExpireTimedOutOrder(w, o) \/ VerifyOrder(w, o)

\* The step a running goroutine takes next.
Progress(w) ==
    \/ InvokeProvider(w) \/ InvokeProviderFails(w)
    \/ ToPaid(w) \/ AlreadyProcessed(w) \/ ExecuteFulfillment(w)
    \/ LockFulfillment(w) \/ LookupCode(w) \/ CreateCode(w) \/ RedeemCode(w)
    \/ ApplyRebate(w) \/ CheckSubscription(w) \/ AssignOrExtend(w)
    \/ MarkCompleted(w) \/ AuditCompleted(w) \/ MarkFailed(w)
    \/ ResetForRetry(w) \/ QueryUpstream(w) \/ CancelUpstream(w)
    \/ CloseOrder(w)

Next ==
    \/ \E o \in Orders : Environment(o)
    \/ \E w \in Workers, o \in Orders : Request(w, o)
    \/ \E w \in Workers : Progress(w) \/ StepFails(w) \/ Crash(w)

Spec == Init /\ [][Next]_vars

\* A started goroutine keeps running, and a provider redelivers a webhook until
\* it is answered 2xx.  Strong fairness: the server starts a goroutine for every
\* request, so a delivery never waits for another one to end.
Redeliver(o) == ~acked[o] /\ \E w \in Workers : Webhook(w, o)

Fairness ==
    /\ \A w \in Workers : WF_vars(Progress(w))
    /\ \A o \in Orders : SF_vars(Redeliver(o))

FairSpec == Spec /\ Fairness

-----------------------------------------------------------------------------
(* Properties.                                                             *)

InFulfilment(w, o) == ord[w] = o /\ pc[w] \in Fulfilling \cup {"fail"}

\* At most one goroutine is between LockFulfillment and the end of fulfilment
\* of an order, and while it runs the row says RECHARGING: the compare-and-set
\* in ExecuteBalanceFulfillment and ExecuteSubscriptionFulfillment is a lock.
SoleFulfiller ==
    \A v, w \in Workers, o \in Orders :
        /\ InFulfilment(v, o) /\ InFulfilment(w, o) => v = w
        /\ ord[w] = o /\ pc[w] \in Fulfilling => status[o] = "RECHARGING"

\* doBalance adds the amount of an order to the user's balance at most once,
\* through webhooks, retries, lost replies and crashes, whoever redeems.
CreditedAtMostOnce == \A o \in Orders : credited[o] <= 1

\* COMPLETED means delivered: a balance order was credited exactly once and its
\* rebate decided, a subscription order was assigned.
CompletedIsDelivered ==
    \A o \in Orders : status[o] \in Delivered =>
        IF o \in SubOrders THEN extended[o] >= 1
        ELSE credited[o] = 1 /\ claim[o] # "none"

\* Nothing is delivered for an order that was not paid in full at its provider:
\* confirmPayment's checks guard every path into fulfilment.
NoDeliveryUnpaid ==
    \A o \in Orders :
        credited[o] + extended[o] + rebates[o] > 0 => upstream[o] = "paid"

\* The inviter's rebate is accrued at most once per order, and only for an
\* order that was credited, however often doBalance is run again.
RebateAtMostOnce ==
    \A o \in Orders :
        rebates[o] <= 1 /\ (rebates[o] = 1 => credited[o] >= 1)

PaidStatuses == {"PAID", "RECHARGING"} \cup Delivered

\* A confirmed payment is never taken back by a cancel or by the expiry job
\* that had read the order as PENDING: cancelCore's guard is in its update.
ConfirmedStaysConfirmed ==
    [][\A o \in Orders : status[o] \in PaidStatuses =>
          status'[o] \in PaidStatuses \cup {"FAILED"}]_vars

\* An order that completed never returns to a status from which it would be
\* fulfilled again (the comment in markFailed).
CompletedIsFinal ==
    [][\A o \in Orders : status[o] \in Delivered => status'[o] \in Delivered]_vars

\* The provider is told to stop redelivering only when the payment has been
\* recorded or came after the grace period; a failed read that the code answers
\* with nil (a step that counts a fault) is the exception.
AckedIsRecorded ==
    [][\A o \in Orders : ~acked[o] /\ acked'[o] /\ UNCHANGED faults =>
          status[o] \notin {"none", "PENDING", "CANCELLED"}]_vars

\* A payment in full is eventually delivered; the exceptions are a payment
\* after the grace period and, if a step of fulfilment failed, FAILED, from
\* which an admin can retry.
PaidIsDelivered ==
    \A o \in Orders :
        upstream[o] = "paid" ~>
            \/ credited[o] + extended[o] > 0
            \/ status[o] = "EXPIRED" /\ ~fresh[o]
            \/ faults > 0 /\ status[o] = "FAILED"

\* An order does not stay PAID or RECHARGING while its goroutines run and only
\* steps of doBalance and doSub fail: markFailed ends RECHARGING.
NeverStuck ==
    \A o \in Orders : status[o] \in {"PAID", "RECHARGING"} ~>
                          status[o] \notin {"PAID", "RECHARGING"}

\* The failures that a goroutine may leave an order in PAID or RECHARGING by.
Abandoning == {"db", "lost", "mark", "crash"}

\* A confirmed order is in somebody's hands until it is settled: some goroutine
\* is about to lock a PAID order, and fulfils a RECHARGING one or is about to
\* mark it FAILED, whatever steps of doBalance and doSub fail and whoever lost
\* the race for the lock.
ConfirmedIsAttended ==
    \/ faults > 0 /\ FaultKinds \cap Abandoning # {}
    \/ \A o \in Orders :
          /\ status[o] = "PAID" => \E w \in Workers : ord[w] = o /\ pc[w] \in {"exec", "lock"}
          /\ status[o] = "RECHARGING" => \E w \in Workers : InFulfilment(w, o)

\* What the order promises: paid, then granted, then its rebate decided, then
\* closed, each once (balance orders).
Balance == Orders \ SubOrders

Ledger == INSTANCE OrderLedger WITH
    Accounts <- Balance,
    paid     <- [o \in Balance |-> upstream[o] = "paid"],
    granted  <- [o \in Balance |-> credited[o]],
    decided  <- [o \in Balance |-> claim[o] # "none"],
    closed   <- [o \in Balance |-> status[o] \in Delivered]

\* The order lifecycle implements OrderLedger.
ImplementsLedger == Ledger!Spec

-----------------------------------------------------------------------------
(* A comment of the code that the code does not keep: a run refutes it.    *)

\* "Prevents double-extension on retry after markCompleted fails" (doSub).
ExtendedAtMostOnce == \A o \in Orders : extended[o] <= 1

=============================================================================
