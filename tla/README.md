# Verification of the Pixel gateway backend

Pixel (`src/backend`) is an AI API gateway: it authenticates API keys, schedules
requests on upstream accounts, bills them, and sells balance and subscriptions
through payment providers. This directory holds TLA+ models of the parts in
which money or exclusivity depends on the order of concurrent steps, the TLC
runs that check them and the TLAPS proofs about them.

Contents: [inventory](#1-inventory), [modules](#2-modules-and-the-code),
[runs](#3-runs), [proofs](#4-proofs), [where code and documents
disagree](#5-findings-and-observations), [what is left out](#6-what-is-not-modelled),
[plan](#7-plan).

## 1. Inventory

Paths are relative to `src/backend/internal/`. The server runs as several
goroutines, and may run as several replicas, over one PostgreSQL and one Redis.
Almost nothing holds a mutex across two database statements: exclusion is by
conditional `UPDATE ... WHERE status = ...`, by unique keys, and by rows or
Redis keys used as locks.

| Component | State | Operations | Hard behaviour | What makes it correct |
|---|---|---|---|---|
| Payment orders (`service/payment_order*.go`, `payment_fulfillment.go`, webhook handler) | `payment_orders` row, redeem code, audit rows, the trade at the provider | create, webhook, verify, cancel, expire, fulfil, admin retry | duplicate, late and concurrent webhooks; expiry and cancel racing a payment; a failure between any two statements | credited once, only when paid; a confirmed payment is never taken back; COMPLETED means delivered |
| Refunds (`service/payment_refund.go`) | order status, balance or subscription, audit rows, the provider's refund | request, plan, deduct, provider call, roll back, mark | stale plans; provider call between two local writes; failed rollback and retry | one refund at a time; REFUNDED means paid back; one deduction, one payout |
| Order admission (`payment_order.go`, `payment_order_lifecycle.go`) | order rows of a user, audit rows of cancellations | check cancel rate, pending count, daily sum, insert | check-then-insert without a lock | how far a limit can be exceeded |
| Idempotency coordinator (`service/idempotency.go`, `repository/idempotency_repo.go`) | `idempotency_records` row per key | claim, reclaim, replay, store result, clean up | reclaim after a read, expiry during execution, crash while processing | one execution at a time, one success per row, replays of the own response |
| System operation lock (`service/system_operation_lock_service.go`) | one row of the same table, a renewal goroutine | acquire, renew, release | lease expiry during an update or restart | one operation at a time, covered by its lease |
| Redeem, promo codes, affiliate rebates | code rows, rebate balances | redeem, create, delete, freeze, withdraw | delete between read and use | used once |
| Subscriptions | expiry, usage windows | assign, extend, revoke, reset | read-modify-write of the expiry | no extension lost |
| Concurrency slots and wait queues (`service/concurrency_service.go`, `repository/concurrency_cache.go`, `handler/gateway_helper.go`) | Redis sorted sets, wait counters | acquire, release, wait, startup cleanup | TTL expiry of live slots, crashed processes, several instances, lost replies, disconnecting clients | never more than the limit, no leaked slot, exact counters |
| Failover loop (`handler/failover_loop.go`, `handler/gateway_handler.go`) | counters and excluded accounts of one request | select, queue, call, retry, switch, fall back | each exit of the loop has to give back what it holds | the loop ends; nothing stays held |
| OAuth token refresh (`service/oauth_refresh_api.go`, `token_refresh_service.go`, `claude_token_provider.go`, `token_cache_invalidator.go`) | account credentials, a Redis lock, a mutex per process, a cached access token | refresh, retry, recover from a race, invalidate, mark the account | single-use refresh tokens, lock without owner, write of the answer failing | the last valid refresh token is kept; a live account is not disabled |
| User message queue (`service/user_msg_queue_service.go`) | a Redis lock per account | enqueue, release, orphan cleanup | TTL of the lock against a long request | one message at a time |
| Scheduler snapshot and outbox | outbox rows, watermark, Redis buckets | write event, poll, rebuild | ids drawn before commit | every change eventually reaches the buckets |
| Usage billing and its cache (`repository/usage_billing_repo.go`, `service/billing_cache_service.go`) | balance, claims of request IDs and their archive, Redis copy, a circuit breaker | check, charge, cache, deduct, invalidate, edit | asynchronous cache writes in any order, a full channel, whole-row updates | charged once, no change forgotten by the cache, nobody shut out for good |
| WebSocket pool, worker pool, auth cache, rate limits | in-memory or Redis | lease, sweep, invalidate, count | sweeps against leases | see `PROJECT.json` |
| Request transformation, CRUD, sign-in, monitoring, frontend | — | — | data conversion and I/O | not modelled |

Interactions. A webhook confirms an order and fulfils it in the same request.
Fulfilment of a balance order creates and redeems a redeem code and claims an
affiliate rebate; that of a subscription order assigns or extends a
subscription. The expiry job, a cancel and a verification all ask the provider
first and may therefore confirm the order themselves. A refund starts from a
COMPLETED order. A request passes the user's wait queue and slot, the billing
check, the selection of an account with its queue and slot, the token provider and the
upstream; its usage is charged afterwards by another goroutine. Redeemed codes and
payments add to the same balance. The idempotency coordinator wraps user and admin POST
requests; the system lock is built on the same repository statements.

The hazards that follow from this, each at its line and with the properties
aimed at it, are the `hazards` of `PROJECT.json`.

## 2. Modules and the code

In every component module a *worker* is one goroutine (an HTTP request, or one
iteration of a job on one order), `pc[w]` names the statement it executes next,
and every database statement, transaction or provider call is one action, so
that workers interleave between any two of them. A failure is a disjunct of the
action it hits, guarded by `Fault(kind)`: `FaultKinds` says which kinds may
happen, `MaxFaults` how many in one behaviour. The kinds distinguish a statement
that fails without effect (`db`, `op`), one that takes effect and reports an
error (`lost`: connection lost, context cancelled after commit), a failed provider
call (`query`, `gw`), a best-effort write that is dropped (`audit`, `mark`), a
failed read the code takes for an answer (`blind`), and a goroutine that
disappears (`crash`).

**`PaymentOrder`** — the lifecycle. `status`, `paidAt`, `timedOut` and `fresh`
are the columns of the row (the two times reduced to the comparisons the code
makes), `upstream` is the provider's trade, `code`, `claim` and `subAudit` the
rows fulfilment writes, `credited`, `extended`, `rebates` count what was given.
`CreateOrder`, `Webhook`, `CancelOrder`, `ExpireTimedOutOrder`, `VerifyOrder`
and `RetryFulfillment` start a worker; `ToPaid`, `LockFulfillment`,
`LookupCode`, `RedeemCode`, `ApplyRebate`, `AssignOrExtend`, `MarkCompleted`,
`MarkFailed`, `QueryUpstream`, `CloseOrder` and the rest are its statements, in
the order of the code. The user's payment, the passing of the two deadlines, a
refund and the user redeeming the code by hand are environment steps.

**`OrderLedger`** — what a balance order promises: paid, then granted, then its
rebate decided, then closed, each once. `PaymentOrder` implements it under the
mapping at the end of that module (`ImplementsLedger`).

**`Refund`** — `RequestRefund` and `WriteRequest` are the user's request;
`PrepareRefund` and `PrepareDeduct` make the admin's plan, from a status and a
balance that may have changed when `LockRefund` takes the order into REFUNDING;
then `SkipDeduct` or `TryDeduct`, `GatewayRefund`, and either `MarkRefundOk` or
`RollbackRefund`, `WriteRollbackFailed`, `MarkRefundFailed`, `RestoreStatus`.
`taken` is what was deducted and not given back, `paidBack` counts the
provider's payouts. `Spend` lets the user spend the balance meanwhile.

**`RefundLedger`** — what refunding promises: an order is locked, its books (paid back,
deducted, noted) change only under the lock, and the lock ends in one of two ways: `Finish`,
once the provider has paid, or `Release`, with nothing deducted that was not noted. A step
knows the books when it changes them (`Relying`): a deduction follows no other one and no
payback, a payback follows no payback. Once a fault has misled the code about its own
effects (`Misled`), only the locking and "refunded means paid back" are left. `Refund`
implements it under the mapping at the end of that module (`ImplementsRefundLedger`).

**`OrderAdmission`** — the four statements of `CreateOrder`'s transaction that
check limits and insert, for one user, and what later happens to the rows they
count. `READ COMMITTED` lets each statement see what the others committed.

**`IdempotencyStore`** — the table and its statements, as the SQL has them: what
the `WHERE` asks for and which columns the `SET` leaves alone (`Reclaim` keeps
the fingerprint, `MarkSucceeded` asks only for the id). Used by the next two.

**`Idempotency`** — `Execute` of the coordinator. `t0` is the one reading of the
clock at the start of a request, which all its later comparisons use. `wins`
counts the successful executions since the key's row was new or had expired.
`body` names the payload whose response is stored; `readable` is whether the
stored text still decodes after it was cut to the maximal length.

**`OnceOnly`** — what an idempotency key promises: it is free, running, abandoned or
answered; only a free key whose operation has had no effect is claimed, the operation
takes effect once, and only while it runs, and an answered key stays so. `Idempotency`
implements it while `clock <= TTL`, that is until the first row can expire
(`ImplementsOnce`). The mapping (`KeyState`) takes a `failed_retryable` row for a free key,
and a row in `processing` for running if a request executes under it, for abandoned if
none does: its claim was lost, its request crashed, or its result could not be stored.

**`SystemLock`** — `Acquire`, the renewal goroutine (`renewBy` is its next run)
and `Release`. A renewal already on its way when the lock is released still runs.

**`ConcurrencyCache`** — the Redis keys behind the limits, each operator one script:
a set of slots and a wait counter per user and account. A slot whose score is too old
is removed at the moment it lapses, since from then on no script counts it.

**`Failover`** — `FailoverState`: excluded accounts, retries and switches of a request.

**`Gateway`** composes the two: `Messages`, from the wait queue of the user to the end
of the call. `pc[r]` is the step of the handler; `userSlot` and `slot` are what its
release functions would remove. `Arrive` to `LeaveUserQueue` are the user's queue and
slot, `TryAcquire`, `PlanWait`, `Hydrated`, `NotHydrated`, `GiveBack` and
`NoneAvailable` the selection, `QueueForAccount` to `LeaveAccountQueue` the account's,
`EndCall` the release and the decision what comes next. `ReleaseOnDone` is the callback
of `wrapReleaseOnDone`, which runs beside the handler once the client is gone.
`SlotLapses` and `WaitExpires` are the TTLs, `Crash`, `Start` and
`CleanupStaleProcessSlots` the life of a process, one script at a time. The load
figures by which accounts are ordered are read without a lock and may be old when they are
used, so any candidate may be tried (`TryAcquire`) or queued for (`PlanWait`).

**`TokenRefresh`** — `RefreshIfNeeded` (`LockLocal` to `Unlock`) as called by the
background service of each process (`Check`, the retries in `AfterRefresh`,
`ClearTempUnschedulable`, `InvalidateToken`, `SyncScheduler`, `Mark`) and by
`GetAccessToken` (`GetCached`, `CheckTokenVersion`, `SetAccessToken`). The n-th token is
the number n; `live` is the one the provider accepts, `due` says which are about to
expire. A call that uses the context of a request fails once its client is gone
(`Fails`); the background service has no such context.

**`CircuitBreaker`** — `billingCircuitBreaker`, a record changed under its mutex, as
operators on it.

**`UsageBilling`** — the balance of a user in balance mode. `Check` to `Report` are
`CheckBillingEligibility`, with the load shared by all who wait for it (`Deliver`);
`Serve`, `Apply`, `Finalize` are the recording of a usage; `Write` a worker of the
cache pool, which takes the tasks as a set because ten workers take them from one
channel; `Redeem`, `ReadUser`, `UpdateUser`, `InvalidateUserBalance` those who change the
balance otherwise; `Archive` the cleanup of claims. A cached amount carries, as a ghost, the
set of changes it reflects (`knows`).

The ghosts of these three modules (`cut`, `leaks`, `drifted`; `exposed`, `lost`,
`misjudged`, `outrun`; `excused`, `clobbered`) record which fault or race has already
taken away what a property promises. They are written by the actions where that
happens and read by no guard, so they restrict no behaviour.

The `*Proofs` modules hold the theorems of the component they extend (section 4); nothing
else extends them. The `MC*` modules add only symmetry sets and state constraints. Symmetry is over workers, and over
orders payloads or accounts where no property singles one out; no liveness run uses it.

## 3. Runs

| Run | Checks | Instance | Distinct states |
|---|---|---|---|
| `payment_safety` | types, one fulfiller, delivered when COMPLETED, nothing delivered unpaid, no way back, acknowledged webhooks are recorded, refinement of `OrderLedger` (with it one credit, one rebate) | one order, of balance or of a subscription (`OneOrder`), 3 workers, any 2 failures | 1.0 M |
| `payment_liveness` | a confirmed order is in somebody's hands; a payment is delivered or retryable; no order stuck | 1 order, 2 workers, 1 `op` or `query` failure, fairness | 41 k |
| `idempotency` | types, one executor, replays are own, one success per live row, refinement of `OnceOnly` | 1 key, 2 payloads, 3 requests, clock to 5 with TTL 3 and lock 2, 3 failures including `late` | 1.2 M |
| `system_lock_short` | one operation, covered by the lease | 3 requests, clock to 6, lease 3, TTL 4, 2 failures, `Short` | 0.7 M |
| `refund` | types, one refund, REFUNDING exactly while a refund works, refinement of `RefundLedger` (with it one payback, one deduction, REFUNDED means paid back), what failures can cost | a balance order and a subscription order without trade number, 2 requests, any 2 failures | 2.2 M |
| `admission_overshoot` | the pending limit is exceeded by at most the other concurrent requests | 4 orders, 3 requests, limit 1 | 75 k |
| `gateway` | limits are kept, no slot forgotten, counters exact, failing over ends, no handler waits on another one | 3 requests of one user with limit 2 on 2 accounts with limit 1, wait queues of 1, 1 switch, 1 retry, 2 processes, 1 fault of any kind | 0.5 M |
| `token_refresh` | how many refresh at once, the live token is kept, only dead accounts are disabled, no old token is cached, the row moves forward, an expiring token is renewed or its account marked | 2 processes, 2 services, 1 request, 2 tokens, 2 attempts, 1 fault of any kind and then 1 more lapse of the lock (`LaterKinds`), fairness | 0.27 M |
| `usage_billing` | the balance is a sum, no change is forgotten, a cached amount is covered, breaker probes are outstanding, a user with money is served | 2 requests with one request ID, 1 top-up, 1 edit, 1 cache worker and 1 place, 1 fault of any kind, fairness | 0.45 M |

Three more runs are expected to find a violation, see section 5. A `TypeOK` stands in
every module; the runs whose line says "types" check it, and it is proved for every module.
That an order is credited once and its rebate accrued once is proved, and part of
`ImplementsLedger`; one payback, one deduction and "REFUNDED means paid back" are proved, and
part of `ImplementsRefundLedger`. Each property of
a passing run has a mutant in `PROJECT.json`: a plausible bug in one definition
under which TLC finds the property violated.

**Why the bounds are enough.** Orders do not share state in `PaymentOrder`, so
one order shows everything that can happen to one (the constraint `OneOrder` lets it be
of either type). Three workers let a third goroutine arrive while two others are in a
race; two failures give "a step failed, and then the handling of the failure failed". In
`Refund` the orders share the user's balance, so there are two, of both types, one
with and one without a call of the provider. The clock of the idempotency run goes far enough
for a row to be created, expire, and be reclaimed; the clock of the lock run covers two
leases. In `Gateway` two requests of a user fit and the third has to wait, each
account serves one of them, and the constraint `Bounds` lets one of the requests go
beyond its first account (the others see its effects on the slots), and lets two requests
meet a second instance. In `TokenRefresh` the
second token is the first one that the code itself has written (with a version), two
services and a request make three that may meet in a refresh, on one process and
on two. In `UsageBilling` one request ID for two requests is the case that matters
for the claim, two requests are enough to join a load or to race the breaker, and the
pool holds two tasks, in its channel and in a worker's hands.

**Deadlock.** The cfg files of `PaymentOrder`, `Refund`, `OrderAdmission`, `Gateway`,
`TokenRefresh` and `UsageBilling` turn the deadlock check off: an order that is
delivered or closed, a user who has used up the finite set of orders, or requests that are
all done leave nothing to do. What deadlock would hide is stated instead: `NeverStuck`
in `Gateway` and in `PaymentOrder`, and the liveness properties. The other runs check it.

**What a property excuses.** `SingleExecutor` of the idempotency coordinator asks
nothing once a request was `late`: it claimed its row after the processing timeout or
ran past it, neither of which the code prevents. `OneSuccess` speaks of the time
until the first TTL is over. `Short`
(`system_lock_short`): an operation ends within its first lease; without it
`system_lock_renewed` fails. `AckedIsRecorded` asks nothing of a handler whose
read failed (`blind`), which does lose the delivery. `ConfirmedIsAttended` asks nothing
where a statement on the order row fails, is lost or a goroutine disappears
(`Abandoning`), and `LockMeansWork` nothing of REFUNDING after such a failure: then the order
does stay behind. `ImplementsRefundLedger` asks little after a lost reply, a lost audit row
or a failed read (`Misled`): a provider that pays and whose answer is lost is asked again.
How much that can cost is what `LossesCostFaults` says. `WithinLimit`
leaves out requests whose client is gone and those whose slot others removed (TTL, a
starting instance); `NoSlotForgotten` allows as many slots as faults have left behind.
`OneRefresher` allows one more worker for each refresh that never had the lock or
outlived it. `NothingForgotten` allows what a fault or a balance read earlier has
overtaken, `CachedIsCovered` what is still to be deducted besides, `BalanceIsSum` what an
update of the whole row has overwritten. Each excuse
is a hazard of `PROJECT.json` at its line.

**Fairness** (`payment_liveness`). Weak fairness of each worker's steps: the Go
scheduler runs a started goroutine, and a database or provider call returns, with
a result or an error. Strong fairness
of redelivery while a webhook is not acknowledged: providers redeliver until they
get a 2xx, and the server gives every delivery its own goroutine, so that a
delivery does not wait for a worker of the model to be free. Nothing is assumed
about users, admins or the expiry job.

**Fairness** (`token_refresh`). Weak fairness of each service, whose loop runs on a
ticker, of each request once it has begun, and of the TTL of the lock. That the lock ever
becomes free of requests is an assumption of `DueIsRefreshed` itself.

**Fairness** (`usage_billing`). Weak fairness of each request (`MoneyIsServed` is about
a user who keeps asking), of the pool's workers, of an invalidation that was started, of
the TTL of the cached balance and of the breaker's timeout. A deduction renews the TTL,
but a user who is refused makes no deductions.

## 4. Proofs

Every safety and action property of a passing run is proved, for every number of orders,
workers, requests, keys, accounts and failures. The proofs assume the `ASSUME`s of the
modules (the special values are not members of the sets, numbers are numbers; the
accounts of `Gateway`, the request IDs and top-ups of `UsageBilling` and the concurrent
requests of `OrderAdmission` are finite sets). Four theorems
have hypotheses of their own:

- `RunsAlone` (`Idempotency`) takes `LockTime <= TTL`, and `LeaseExcludes`,
  `ShortIsCovered` and `ShortExcludes` (`SystemLock`) take `Lease <= TTL`. The defaults are
  30 s against 24 h and against 1 h; the validation of the configuration
  (`config/config.go:2204`) asks only that each is positive. With a longer lock the cleanup
  job deletes a row that is still held.
- `ShortIsCovered` and `ShortExcludes` take `Short`, without which `system_lock_renewed`
  finds the violation. `LeaseExcludes` does not: that a lease which covers its holder
  excludes everybody else holds for operations of any length.

A property is seldom inductive by itself. What each proof adds:

**`PaymentOrderProofs`**: types, `SoleFulfiller`, `CreditedAtMostOnce`,
`CompletedIsDelivered`, `NoDeliveryUnpaid`, `RebateAtMostOnce`, `AckedIsRecorded`,
`ConfirmedIsAttended`, the action properties `ConfirmedStaysConfirmed`, `CompletedIsFinal` and
`StatusMoves` (the graph of all status changes, from which the other two follow), and
`ImplementsLedger`.
That an order is credited once
depends on the code row, whose use depends on the lock, whose meaning depends on
where every worker is. `IInv` is `Typed`, `WorkersOK` (what holds of an order
while a worker is about to take a given step on it: the row is RECHARGING during
fulfilment, the code is used before the rebate, the payment was checked before
PAID), `Exclusive` (two workers are never both creating or both fulfilling the same
order) and `OrdersOK` (how the row, the code, the claim and the counters of an order
agree). A lemma per action shows that it keeps `IInv`; the theorems follow from
it, and the refinement from `IInv` and the action lemmas.

`AckedIsRecorded` is about answers given long after the row was read. It needs that a
recorded order stays recorded (`RecordedStays`, from the graph of the status changes) and
`AllHeard`: a handler past the update to PAID works on a recorded order, and no webhook
ever reaches a step that asks the provider.

`ConfirmedIsAttended` is the invariant behind `NeverStuck`. A PAID order has a goroutine
about to lock it and a RECHARGING one a goroutine that fulfils it or is about to mark it
FAILED (`Attended`). A step of one goroutine can take that away only from the order it
works on, so after each action a confirmed order is in the hands of the goroutine that
moved, or has its old status and was not in them before (`HandsOver`), or a fault that
`Abandoning` names excuses it. The loser of the race for the lock may go away because the winner is
still there: `Exclusive` says who holds RECHARGING.

`ExtensionsBounded` replaces the comment that `payment_extended_twice` refutes by what is
true: an order is extended at most once more than there were failures
(`ExtensionsCostFaults`). `ExtendedOK` keeps one extension in reserve wherever an order can
still be extended: before the lock, and at the steps from which fulfilment extends or fails.

**`RefundProofs`**: types (with the bounds of planned and recorded amounts),
`OneRefund`, `LockMeansWork` with its half `WorkIsLocked`, `RefundedIsPaidBack`,
`PaidBackOnce`, `DeductedOnce`, `LossesCostFaults`, `ImplementsRefundLedger` and the action
property `OnlyLedgerMoves`. The status writes after the lock
are unconditional in the code, so the invariant has to show that nobody else's
order is hit: `OneRefund` and `WorkIsLocked` are inductive only together, and
`RefundedIsPaidBack` needs `MarkIsPaid`, that a worker about to mark an order saw
the provider pay. The converse in `LockMeansWork` is `Attended`: whoever leaves the refunding
steps has written another status, or a failure in `Stranding` has happened, and failures
are never forgotten.

The properties of the form "once, unless `Misled`" rest on
`Accounts`, which holds until the code is misled: an order that can be refunded has not
been paid back and nothing is deducted for it that no audit row tells of (`Books`), and a
refund at work knows, at each of its steps, whether it has deducted and has been paid
(`Progress`). A step of another request keeps it because that one works on another order.
The refinement uses the same invariant: what `RefundLedger` lets a step rely on is what
`Progress` says at that step, so each action is one step of the ledger on its order, or none.

`LossesCostFaults` holds misled or not. `Misled` excuses more than one failure can do, so it
needs a count: what a refund has cost so far and may still cost at its step (`Spends`)
stays within its order's price times two, plus the price for each failure (`Costs`); when
an order can be refunded again, whatever is still spent has a failure or the note of a failed
rollback to show for it.

`RefundMovesAsAssumed` joins the two models of an order. `PaymentOrder` takes refunds for
steps of its environment (`RefundStarts`, `RefundEnds`); the theorem says that every status
write of `Refund` is such a step or none, if the statuses `PaymentOrder` does not
distinguish (those that can be refunded, the two refunded ones) are taken together.

**`OrderAdmissionProofs`**: types and `PendingOvershoot`. Whoever passed the count saw
fewer orders than the limit; each order inserted since then came from a request that had
passed too. So what grows is not the number of pending orders but that number plus the
requests between the count and the insert, and it stays below limit plus requests (`Room`).

**`IdempotencyProofs`**: types, `ReplayIsOwn`, `SingleExecutor`, `OneSuccess`,
`ImplementsOnce` and its consequence `SuccessIsKept`. The updates by id do not ask who
holds the row, so the argument is about ids: they are never used again, a row keeps its fingerprint for as long as it keeps its id, and
a request that remembers an id has seen (or written) its own fingerprint under it
(`RequestOK`). Hence a stored response carries the fingerprint of its row (`RowOK`).
For exclusion the steps are sorted into kinds (`Kinds`: one that claims, reads, runs,
stores, or drops out), and the proof is done once per kind. `Hold` says that the row of an
executor is `processing`, has the id it remembers, expires a TTL after its `t0`, and that
nobody else executes with that key. It is kept as long as nobody steals the row (`NoSteal`).
Two reasons forbid the theft: while `clock <= TTL` no row can have expired, however late a
request is (`Early`, for `OneSuccess` and the refinement); and while no request was late,
a row that changed hands after a request had read it has a lock later than that request's
clock, which its reclaim statement refuses (`ReadOK` in `Timely`, for `SingleExecutor`).
The refinement (`ServesOnce`) also needs what the count of successes is at each point
(`WinsOK`: none for a row that can be claimed and for a request that has yet to succeed,
one for a request about to store its success). `Early` has it; each kind of step is then
one step of `OnceOnly` on the request's key and none on another (`OneKey`, `OnceKind`).

**`SystemLockProofs`**: types (whatever the times), `OneOperation`, `HolderIsCovered`. With rows whose lease
ends before they expire (`LeaseWithinTTL`) and which the one who operates holds under the
id it remembers (`Owned`), a new operation begins only when the lease of the old one is over; a holder
covered by its lease has then ended. So `OneOperation` follows from `HolderIsCovered`
(`LeaseExcludes`). That one is proved from `FirstLease`: until a holder releases, its row
has at least the lease it was given first.

**`UsageBillingProofs`**: types (with the bound of the pool and the counts of the
breaker), `BalanceIsSum`, `ProbeOutstanding`, `NothingForgotten`, `CachedIsCovered`. The
balance needs
only that claims and top-ups are finite sets, from which charges take one element at a
time. `NothingForgotten` speaks of the cached amount; inductive is `NoneForgotten`,
the same of every amount still on its way there: those read by a load, those in a
task of the pool, in its channel or in a worker's hands. The same copies are the subject of
`CopiesWorth`: until a change is overwritten, each amount, wherever it is, is at most what
the changes it knows of sum to (a load takes both from the row at one moment, a deduction
adds to what is known and takes off the amount). With `NoneForgotten` the changes it does not know are
charges still to be deducted or excused, and top-ups, which only make the amount too low:
hence `CachedIsCovered`.

**`TokenRefreshProofs`**: types, `LiveTokenIsKept`, `DisabledOnlyWhenDead`,
`NoStaleTokenCached`, the action property `StoredMovesForward`, and `OneRefresher`. The
first five are about data and do not use the lock. Each worker's knowledge of tokens
(`OwnOK`) is compared with the row: what it has read is not newer than what is stored, and
a refresh is attempted only with a token that is due, hence old. Therefore only the worker
who refreshes with the stored token gets an answer, the newest token is in one hand until
it is written (`Persisting`), and an account is condemned only when nobody holds a
token that works (`Doomed`). This holds however many locks lapse; what the lock prevents is
several refreshes at a time. A worker is uncovered when it works without the key in Redis
being its own. A release deletes the key whoever holds it, so one loss of the lock could
uncover one worker after another; but whoever deletes another's key was uncovered and is
done, so the uncovered are never more than the losses (`Exposure`).

**`GatewayProofs`**: types, `WithinLimit`, `CountersAreExact`, `NoSlotForgotten`,
`BoundedAttempts`. The limit is about
handlers, the script counts ids in Redis. What connects them is `HeldOK`: each handler
that `WithinLimit` counts on a key has its own lease in the set of that key. So handlers
map one to one into a set whose size the script bounds (`HoldersFit`). To keep `HeldOK`, a
step of one request must leave the leases of the others alone (`OthersKeep`), and that
of a cleanup must record what it cuts. `CountersAreExact` is inductive with the
finiteness of the counted sets (`CountsOK`): no path out of a queue misses its
decrement or does it twice, and one that a fault lets do so is in `drifted`.

`NoSlotForgotten` counts the ids in Redis that belong to no step (`Strays`). Each step of a
handler either takes no id out of use, or takes one and removes it, or counts a leak
(`StrayStep`); a step that ends with another account must have dropped the first one
(`StraysDropped`). A crash makes strays of all ids of its requests at once, and the leaks
it counts are as many by a bijection (`CrashStrays`).
`BoundedAttempts` follows from what the calls have used up: each was paid for by a switch
or by one of the retries spent, except the one that is still going on (`Paid`), and there
are `MaxSameAccountRetries` retries for each account (`SpentBounded`, the cardinality of a
product). Starting over after a 503 clears the excluded accounts but not what was spent.
The types need that a new id can always be found: the strays a live request has left
behind have each cost a fault (`FewStrays`), so among two ids more than there may be faults
one is unused (`FreshExists`, a pigeonhole).

**Only model-checked**: the liveness properties `PaidIsDelivered`, `NeverStuck` of
`PaymentOrder`, `DueIsRefreshed` and `MoneyIsServed` (fairness is out of the prover's
reach), and `NeverStuck` of `Gateway`, which is about `ENABLED`. The properties of the three
runs that expect a violation are false.

## 5. Findings and observations

Runs that refute a statement of the repository:

- `payment_extended_twice`: after the subscription was extended and the update in
  `markCompleted` failed, a retry extends it again; the audit row that should
  prevent this is only written after that update. The comment promises
  "Prevents double-extension on retry after markCompleted fails."
  (`service/payment_fulfillment.go:347`).
- `idempotency_aba`: two retries that read the same expired row both reclaim it, one
  after the other, because the row is back in the status they read. The test
  expects "concurrent same-key requests should execute business side-effect once"
  (`service/idempotency_test.go:392`).
- `system_lock_renewed`: a reclaimed lock row keeps the fingerprint of its first
  holder, so the renewal of every later holder matches no row and gives up; the
  test expects "locked_until should be renewed while lock is held"
  (`service/system_operation_lock_service_test.go:65`).

Further behaviours of the models that a reader of the documents may not expect
(each follows from the actions named; no run is kept for them):

- A fulfilment that fails together with its `markFailed`, or whose process dies,
  leaves the order RECHARGING, which no webhook and no admin retry takes up
  (`MarkFailed`, `Crash`; cf. `src/docs/PAYMENT.md:252`).
- An order that became PAID and whose next read or lock statement failed is not
  fulfilled by later webhooks; an admin has to retry (`AlreadyProcessed`; cf.
  `PAYMENT.md:214`, "no manual intervention needed").
- Verifying an unpaid order closes its trade at the provider and leaves it PENDING
  (`CancelUpstream`; cf. `PAYMENT.md:247`).
- A row left in `processing` is refused until its TTL is over; the processing
  timeout only computes `retry_after` (`Decide`; cf.
  `src/deploy/config.example.yaml:694`).
- The limits on pending orders, on the daily sum and on cancellations are checked
  on creation only, without a lock, and ignore what is pending (`OrderAdmission`;
  cf. `PAYMENT.md:63`, `:65`, `:94`).
- A refund whose rollback and whose audit row both failed deducts again on retry
  (`WriteRollbackFailed`; cf. the comment at `service/payment_refund.go:284`), and
  a retry that skipped the deduction and is refused again reports "rolled back"
  with the first deduction still taken (`RollbackRefund`; `payment_refund.go:368`).
- A refund restored by `restoreStatus` gets the status its plan saw: a user's request
  made in between is gone (`RestoreStatus`; `payment_refund.go:409`).
- A stored response longer than the maximal length is cut inside its JSON; its
  replays then fail to decode (`readable`; `idempotency.go:456`).
- When the account cannot be loaded after its slot was taken, nothing releases the
  slot: it stays until its TTL (`NotHydrated`; `gateway_service.go:2740`).
- A client that disconnects frees its slots at once, but the upstream call goes on
  without it to read the usage: the account then serves more calls than its limit
  (`ReleaseOnDone`; `gateway_helper.go:194`, `gateway_service.go:8262`).
- When the provider has answered with a new refresh token and the write of it
  fails, no copy remains, and the next refresh is refused as invalid
  (`lost` in `TokenRefresh`; `oauth_refresh_api.go:150`).
- A request may cache an old access token if the row changes after its version
  check (`outrun`; `claude_token_provider.go:163`), and the invalidation of the cache
  may come before that write.
- An edit of a user's profile writes the whole row it has read, the balance included,
  over charges and payments made meanwhile (`clobbered`; `user_repo.go:216`).
- The billing breaker counts a user who does not exist as a failure of the
  database (`billing_cache_service.go:791`), and a success that began before it
  opened closes it (`:953`).
- Each deduction renews the TTL of the cached balance, so that a cached amount
  which is too high stays as long as the user spends (`billing_cache.go:81`).

## 6. What is not modelled

- Request transformation, pricing, CRUD, sign-in, monitoring, frontend: data and
  I/O with hardly any control that interleaves.
- Building and signing provider requests, choosing a provider instance, currency
  conversion; the provider is its trade's state.
- A redeem code of an order deleted by an admin; subscriptions beyond single
  assign, extend and revoke steps.
- Idempotent requests without a key, and the fail-open variant of the admin helper
  (no route uses it): neither touches the table.
- What update, rollback and restart do while they hold the system lock.
- In `Gateway`: the user message queue, RPM and session limits, the load figures that
  order the candidates, sticky sessions (which only change the order of candidates),
  and handlers other than `Messages`, which have the same loop.
- In `TokenRefresh`: the token providers of the other platforms, whose calls of
  `RefreshIfNeeded` are the same; the project ID and privacy calls after a refresh.
- In `UsageBilling`: users with a subscription and the cache of its usage, rate limits of
  API keys, the settlement with the owner of a shared account, stopping the pool, and the
  profile edits, whose read and whole-row write have the shape of `ReadUser` and
  `UpdateUser`.
- The components marked `not_modelled` in `PROJECT.json`, some of which are planned.

## 7. Plan

Done: payments (`OrderLedger`, `PaymentOrder`, `RefundLedger`, `Refund`, `OrderAdmission`), idempotency
(`IdempotencyStore`, `Idempotency`, `OnceOnly`, `SystemLock`), the gateway's limits
(`ConcurrencyCache`, `Failover`, `Gateway`), `TokenRefresh`, and billing
(`CircuitBreaker`, `UsageBilling`).

Next modules, in this order:

1. `Subscription` — read-modify-write of the expiry by fulfilments and refunds,
   composed with the grants of `PaymentOrder` and the deductions of `Refund`.
2. `MessageQueue` — the lock of an account's serial queue, its TTL and its orphan cleanup.
3. `SchedulerOutbox` — ids drawn before commit, the watermark, and liveness under the
   periodic rebuild.

Where runs have to be shared, runs of one module with compatible bounds are merged.

Next proofs: the invariants of those modules. Each safety, action and refinement property of
the present runs is proved but `NeverStuck` of `Gateway`; an abstract specification of its limits,
as `OrderLedger`, `RefundLedger` and `OnceOnly` are for payments, refunds and retries, would
say little more than `WithinLimit` does.
