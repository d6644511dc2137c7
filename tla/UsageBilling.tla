---------------------------- MODULE UsageBilling ----------------------------
(***************************************************************************)
(* The balance of one user: checked against a Redis cache before a request *)
(* is forwarded, charged in one transaction after it, topped up and edited *)
(* by others meanwhile.  The cache is filled and decremented by a pool of  *)
(* workers that take tasks from a bounded channel, and so in any order.    *)
(*                                                                         *)
(* Every request costs 1.  A usage record is known by the request ID the   *)
(* upstream gave, and nothing prevents the upstream from giving one twice. *)
(***************************************************************************)
EXTENDS Integers, FiniteSets, CircuitBreaker

CONSTANTS
    Requests, NoRequest,
    CacheWriters, \* number of workers of the cache write pool
    Ids,          \* request IDs of the upstream
    TopUps,       \* redeemed codes and adjustments by an administrator, each of 1
    None,
    Initial,      \* balance at first
    MaxWrites,    \* cacheWriteBufferSize
    FaultKinds,
    MaxFaults     \* bound on the number of faults

ASSUME BillingAssumption ==
    /\ IsFiniteSet(Ids) /\ IsFiniteSet(TopUps) /\ Ids \cap TopUps = {}
    /\ NoRequest \notin Requests /\ None \notin Ids \cup TopUps
    /\ Initial \in Int /\ MaxFaults \in Nat
    /\ CacheWriters \in Nat \ {0} /\ MaxWrites \in Nat \ {0}

\* What changes the balance.
Changes == Ids \cup TopUps

VARIABLES
    balance,    \* users.balance
    dedup,      \* usage_billing_dedup
    archive,    \* usage_billing_dedup_archive
    added,      \* top-ups made
    edit,       \* an update of the whole user row under way
    clearing,   \* invalidations of the cached balance under way, after a top-up
    cached,     \* billing:balance in Redis
    writes,     \* tasks in cacheWriteChan and in the hands of its workers
    breaker,
    loader,     \* request that loads the balance for all, in balanceLoadSF
    loaded,     \* what it has read
    pc, charge, \* step of each request, and the request ID of its usage
    clobbered,  \* (ghost) an update of the row has overwritten a change
    excused,    \* (ghost) changes the cache missed by a fault or a race
    faults

database == <<balance, dedup, archive, added, edit>>
memory   == <<writes, breaker, loader, loaded>>
locals   == <<pc, charge>>
vars     == <<database, clearing, cached, memory, locals, clobbered, excused, faults>>

\* A balance in the cache or on its way to it: the amount, and (ghost) the
\* changes it reflects.
Entries == [amount: Int, knows: SUBSET Changes]
Missing == [amount |-> 0, knows |-> {None}]
Tasks   == [kind: {"set"}, entry: Entries] \cup [kind: {"deduct"}, id: Ids]
NoEdit  == [copy |-> 0, topUp |-> None, step |-> "none"]

TypeOK ==
    /\ balance \in Int
    /\ dedup \subseteq Ids /\ archive \subseteq Ids
    /\ added \subseteq TopUps /\ clearing \subseteq added
    /\ edit \in [copy: Int, topUp: TopUps \cup {None}, step: {"none", "read", "done"}]
    /\ cached \in Entries \cup {Missing}
    /\ writes \subseteq Tasks /\ Cardinality(writes) <= MaxWrites + CacheWriters
    /\ breaker \in BreakerStates
    /\ loader \in Requests \cup {NoRequest} /\ loaded \in Entries \cup {Missing}
    /\ pc \in [Requests -> {"idle", "read", "load", "join", "fill", "admit", "refuse",
                            "fail", "serve", "apply", "finalize"}]
    /\ charge \in [Requests -> Ids \cup {None}]
    /\ clobbered \in BOOLEAN /\ excused \subseteq Changes
    /\ faults \in 0 .. MaxFaults

Init ==
    /\ balance = Initial /\ dedup = {} /\ archive = {} /\ added = {}
    /\ edit = NoEdit /\ clearing = {}
    /\ cached = Missing
    /\ writes = {} /\ breaker = Closed
    /\ loader = NoRequest /\ loaded = Missing
    /\ pc = [r \in Requests |-> "idle"]
    /\ charge = [r \in Requests |-> None]
    /\ clobbered = FALSE /\ excused = {} /\ faults = 0

-----------------------------------------------------------------------------
Goto(r, step) == pc' = [pc EXCEPT ![r] = step]

Fault(kind) == kind \in FaultKinds /\ faults < MaxFaults /\ faults' = faults + 1

\* The balance in the database, and the changes it reflects.
Current == [amount |-> balance, knows |-> dedup \cup archive \cup added]

\* Balances read from the database and on their way to the cache.
Underway == {t.entry : t \in {u \in writes : u.kind = "set"}} \cup ({loaded} \ {Missing})

\* A change told to the cache is lost on the balances that arrive there later.
Told(change) ==
    IF \E e \in Underway : change \notin e.knows THEN {change} ELSE {}

\* cacheWriteChan is full, or not, depending on how many tasks workers have taken.
Full    == Cardinality(writes) >= MaxWrites
NotFull == Cardinality(writes) < MaxWrites + CacheWriters

Enqueue(task) == NotFull /\ writes' = writes \cup {task}

-----------------------------------------------------------------------------
(* CheckBillingEligibility, balance mode.                                  *)

Check(r) ==
    /\ pc[r] = "idle"
    /\ breaker' = AfterAllow(breaker)
    /\ IF Allow(breaker) THEN Goto(r, "read") ELSE UNCHANGED pc
    /\ UNCHANGED <<database, clearing, cached, writes, loader, loaded,
                   charge, clobbered, excused, faults>>

Verdict(amount) == IF amount > 0 THEN "admit" ELSE "refuse"

\* A cached balance is taken; otherwise one request loads it for all that wait.
ReadCache(r) ==
    /\ pc[r] = "read"
    /\ \/ /\ cached # Missing
          /\ Goto(r, Verdict(cached.amount))
          /\ UNCHANGED <<loader, faults>>
       \/ /\ IF cached = Missing THEN UNCHANGED faults ELSE Fault("redis")
          /\ IF loader = NoRequest
             THEN loader' = r /\ Goto(r, "load")
             ELSE Goto(r, "join") /\ UNCHANGED loader
    /\ UNCHANGED <<database, clearing, cached, writes, breaker, loaded, charge,
                   clobbered, excused>>

\* The loader's result goes to everybody who has joined it.
Deliver(step) ==
    /\ pc' = [r \in Requests |-> IF r = loader \/ pc[r] = "join" THEN step ELSE pc[r]]
    /\ loader' = NoRequest /\ loaded' = Missing

LoadBalance(r) ==
    /\ pc[r] = "load"
    /\ \/ /\ loaded' = Current /\ Goto(r, "fill")
          /\ UNCHANGED <<loader, faults>>
       \/ /\ Fault("db") /\ Deliver("fail")
    /\ UNCHANGED <<database, clearing, cached, writes, breaker, charge, clobbered,
                   excused>>

\* A full channel drops the task.
FillCache(r) ==
    /\ pc[r] = "fill"
    /\ \/ Enqueue([kind |-> "set", entry |-> loaded])
       \/ Full /\ UNCHANGED writes
    /\ Deliver(Verdict(loaded.amount))
    /\ UNCHANGED <<database, clearing, cached, breaker, charge, clobbered, excused,
                   faults>>

Report_RefusedSilently(r) ==
    /\ \/ pc[r] = "admit" /\ breaker' = OnSuccess(breaker) /\ Goto(r, "serve")
       \/ pc[r] = "refuse" /\ UNCHANGED breaker /\ Goto(r, "idle")
       \/ pc[r] = "fail" /\ breaker' = OnFailure(breaker) /\ Goto(r, "idle")
    /\ UNCHANGED <<database, clearing, cached, writes, loader, loaded, charge, clobbered,
                   excused, faults>>

Report(r) ==
    /\ \/ /\ pc[r] \in {"admit", "refuse"}
          /\ breaker' = OnSuccess(breaker)
          /\ Goto(r, IF pc[r] = "admit" THEN "serve" ELSE "idle")
       \/ /\ pc[r] = "fail"
          /\ breaker' = OnFailure(breaker) /\ Goto(r, "idle")
    /\ UNCHANGED <<database, clearing, cached, writes, loader, loaded, charge, clobbered,
                   excused, faults>>

-----------------------------------------------------------------------------
(* RecordUsage, in a worker of the usage record pool.                      *)

\* The upstream answers.  The usage is handed to the pool, which drops it when
\* its queue is full, or runs it at once.
Serve(r) ==
    /\ pc[r] = "serve"
    /\ \/ /\ \E i \in Ids : charge' = [charge EXCEPT ![r] = i]
          /\ Goto(r, "apply") /\ UNCHANGED faults
       \/ Fault("full") /\ Goto(r, "idle") /\ UNCHANGED charge
    /\ UNCHANGED <<database, clearing, cached, memory, clobbered, excused>>

Return(r) == Goto(r, "idle") /\ charge' = [charge EXCEPT ![r] = None]

Claims_NotArchived(id) == id \notin dedup

Claims(id) == id \notin dedup /\ id \notin archive

\* One transaction: the claim of the request ID and all that follows from it.
Apply(r) ==
    /\ pc[r] = "apply"
    /\ \/ /\ Claims(charge[r])
          /\ dedup' = dedup \cup {charge[r]} /\ balance' = balance - 1
          /\ \/ Goto(r, "finalize") /\ UNCHANGED <<charge, excused, faults>>
             \/ Fault("lost") /\ Return(r) /\ excused' = excused \cup {charge[r]}
       \/ /\ ~Claims(charge[r])
          /\ Return(r) /\ UNCHANGED <<dedup, balance, excused, faults>>
       \/ /\ Fault("db")
          /\ Return(r) /\ UNCHANGED <<dedup, balance, excused>>
    /\ UNCHANGED <<archive, added, edit, clearing, cached, memory, clobbered>>

\* Mutant: the script renews the expiry with the balance it found.
Deduct_KeepsAmount(id) ==
    \/ /\ cached' = IF cached = Missing THEN Missing
                    ELSE [cached EXCEPT !.knows = cached.knows \cup {id}]
       /\ excused' = excused \cup Told(id) /\ UNCHANGED faults
    \/ /\ Fault("redis")
       /\ excused' = excused \cup {id} /\ UNCHANGED cached

\* DeductUserBalance: a script that leaves an absent key absent.
Deduct(id) ==
    \/ /\ cached' = IF cached = Missing THEN Missing
                    ELSE [amount |-> cached.amount - 1, knows |-> cached.knows \cup {id}]
       /\ excused' = excused \cup Told(id) /\ UNCHANGED faults
    \/ /\ Fault("redis")
       /\ excused' = excused \cup {id} /\ UNCHANGED cached

Finalize_Dropped(r) ==
    /\ pc[r] = "finalize"
    /\ \/ Enqueue([kind |-> "deduct", id |-> charge[r]])
       \/ Full /\ UNCHANGED writes
    /\ Return(r)
    /\ UNCHANGED <<database, clearing, cached, breaker, loader, loaded, clobbered, excused,
                   faults>>

\* QueueDeductBalance: a deduction that finds the channel full is made at once.
Finalize(r) ==
    /\ pc[r] = "finalize"
    /\ \/ /\ Enqueue([kind |-> "deduct", id |-> charge[r]])
          /\ UNCHANGED <<cached, excused, faults>>
       \/ Full /\ Deduct(charge[r]) /\ UNCHANGED writes
    /\ Return(r)
    /\ UNCHANGED <<database, clearing, breaker, loader, loaded, clobbered>>

-----------------------------------------------------------------------------
(* The cache write pool.                                                   *)

Write(task) ==
    /\ task \in writes
    /\ \/ /\ task.kind = "set"
          /\ \/ cached' = task.entry /\ UNCHANGED faults
             \/ Fault("redis") /\ UNCHANGED cached
          /\ UNCHANGED excused
       \/ task.kind = "deduct" /\ Deduct(task.id)
    /\ writes' = writes \ {task}
    /\ UNCHANGED <<database, clearing, breaker, loader, loaded, locals, clobbered>>

-----------------------------------------------------------------------------
(* Others who change the user.                                             *)

\* A redeemed code or a payment adds to the balance, and clears the cache later.
Redeem(topUp) ==
    /\ topUp \notin added
    /\ added' = added \cup {topUp} /\ balance' = balance + 1
    /\ clearing' = clearing \cup {topUp}
    /\ UNCHANGED <<dedup, archive, edit, cached, memory, locals, clobbered, excused,
                   faults>>

\* UpdateUserBalance by an administrator, which refuses to leave a debt.  A change
\* of the profile does the same, without a top-up.  Bound: one edit.
ReadUser(topUp) ==
    /\ edit.step = "none" /\ topUp \notin added /\ balance + 1 >= 0
    /\ edit' = [copy |-> balance, topUp |-> topUp, step |-> "read"]
    /\ UNCHANGED <<balance, dedup, archive, added, clearing, cached, memory, locals,
                   clobbered, excused, faults>>

\* userRepository.Update writes every column of the row, as it was read.  (Each
\* top-up is made once.)
UpdateUser ==
    /\ edit.step = "read" /\ edit.topUp \notin added
    /\ clobbered' = (clobbered \/ balance # edit.copy)
    /\ balance' = edit.copy + 1
    /\ added' = added \cup {edit.topUp} /\ clearing' = clearing \cup {edit.topUp}
    /\ edit' = [NoEdit EXCEPT !.step = "done"]
    /\ UNCHANGED <<dedup, archive, cached, memory, locals, excused, faults>>

InvalidateUserBalance(change) ==
    /\ change \in clearing
    /\ clearing' = clearing \ {change}
    /\ \/ /\ cached' = Missing /\ excused' = excused \cup Told(change)
          /\ UNCHANGED faults
       \/ /\ Fault("redis") /\ excused' = excused \cup {change}
          /\ UNCHANGED cached
    /\ UNCHANGED <<database, memory, locals, clobbered>>

\* CleanupUsageBillingDedup moves old claims in one statement.
Archive(id) ==
    /\ id \in dedup
    /\ dedup' = dedup \ {id} /\ archive' = archive \cup {id}
    /\ UNCHANGED <<balance, added, edit, clearing, cached, memory, locals, clobbered,
                   excused, faults>>

CacheLapses ==
    /\ cached # Missing
    /\ cached' = Missing
    /\ UNCHANGED <<database, clearing, memory, locals, clobbered, excused, faults>>

ResetTimeout ==
    /\ breaker.state = "open" /\ ~breaker.elapsed
    /\ breaker' = [breaker EXCEPT !.elapsed = TRUE]
    /\ UNCHANGED <<database, clearing, cached, writes, loader, loaded, locals,
                   clobbered, excused, faults>>

\* Deductions and invalidations that were only in memory are lost with it.
Unfinished ==
    clearing \cup {charge[r] : r \in {q \in Requests : pc[q] = "finalize"}}
             \cup {t.id : t \in {u \in writes : u.kind = "deduct"}}

Crash ==
    /\ Fault("crash")
    /\ excused' = excused \cup Unfinished
    /\ clearing' = {} /\ edit' = NoEdit
    /\ writes' = {} /\ breaker' = Closed /\ loader' = NoRequest /\ loaded' = Missing
    /\ pc' = [r \in Requests |-> "idle"]
    /\ charge' = [r \in Requests |-> None]
    /\ UNCHANGED <<balance, dedup, archive, added, cached, clobbered>>

-----------------------------------------------------------------------------
Request(r) ==
    \/ Check(r) \/ ReadCache(r) \/ LoadBalance(r) \/ FillCache(r) \/ Report(r) \/ Serve(r)
    \/ Apply(r) \/ Finalize(r)

Next ==
    \/ \E r \in Requests : Request(r)
    \/ \E t \in writes : Write(t)
    \/ \E t \in TopUps : Redeem(t) \/ ReadUser(t) \/ InvalidateUserBalance(t)
    \/ UpdateUser
    \/ \E i \in Ids : Archive(i)
    \/ CacheLapses \/ ResetTimeout \/ Crash

\* Redis, the pool and the clock do their part, and clients keep asking.
Fairness ==
    /\ \A r \in Requests : WF_vars(Request(r))
    /\ WF_vars(\E t \in writes : Write(t))
    /\ \A t \in TopUps : WF_vars(InvalidateUserBalance(t))
    /\ WF_vars(CacheLapses) /\ WF_vars(ResetTimeout)

Spec == Init /\ [][Next]_vars /\ Fairness

-----------------------------------------------------------------------------
\* The balance is what was there, plus the top-ups, minus one charge for each
\* request ID that was ever claimed, as long as no update of the whole row has
\* overwritten a change made since the row was read.
BalanceIsSum ==
    balance = Initial + Cardinality(added) - Cardinality(dedup \cup archive) \/ clobbered

\* A cached balance reflects every change, or the deduction or invalidation for
\* the change is still to come, or it has failed, or it overtook a balance that
\* had been read before the change: no change is dropped for a full channel.
NothingForgotten ==
    cached = Missing \/
    dedup \cup archive \cup added \subseteq cached.knows \cup Unfinished \cup excused

\* So the cached balance, which admits requests, is above the real one by no more
\* than the charges whose deductions are still to come, have failed or overtook
\* it, as long as no change was overwritten.
CachedIsCovered ==
    cached = Missing \/ clobbered \/
    cached.amount <= balance + Cardinality((Unfinished \cup excused) \cap Ids)

\* The breaker lets no request through in the half-open state only while one that
\* it has let through is about to report, and so to close or to open it.
ProbeOutstanding ==
    breaker.state = "half-open" /\ breaker.remaining = 0 =>
        \E r \in Requests :
            pc[r] \in {"read", "load", "join", "fill", "admit", "refuse", "fail"}

\* A user with money is served in the end: neither an outdated balance in the
\* cache nor the breaker shuts him out for good.
MoneyIsServed ==
    balance > 0 ~> (balance <= 0 \/ \E r \in Requests : pc[r] = "serve")
==============================================================================
