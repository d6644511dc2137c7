------------------------------- MODULE Gateway -------------------------------
(***************************************************************************)
(* How the gateway lets a request through to an upstream account: the      *)
(* user's wait queue and slot, the choice of an account, its wait queue    *)
(* and slot, the upstream call, and the failover to another account.       *)
(*                                                                         *)
(* Requests of one user are served by several processes that share only    *)
(* the Redis keys of ConcurrencyCache.  A process may crash, and one that  *)
(* starts removes the slots of all the others.                             *)
(***************************************************************************)
EXTENDS Failover

CONSTANTS
    Processes,
    User,
    NoAccount,
    Limit,       \* Concurrency of the user and of every account
    MaxWait,     \* CalculateMaxWait, MaxWaiting
    FaultKinds,  \* the faults that may happen
    MaxFaults    \* bound on their number

Keys == Accounts \cup {User}

\* The id of an attempt: generateRequestID numbers the attempts of a process, here
\* a request takes the first number it does not use.
Ids == Requests \X (Nat \ {0})

ASSUME GatewayAssumption ==
    /\ Limit \in [Keys -> Nat \ {0}] /\ MaxWait \in [Keys -> Nat]
    /\ User \notin Accounts /\ NoAccount \notin Keys /\ Processes # {}
    /\ MaxFaults \in Nat

VARIABLES
    slots, waiting,
    pc,         \* where the handler of each request is
    home,       \* the process that serves it, whose prefix its ids have
    userSlot,   \* userReleaseFunc: the id it would release, 0 once it has run
    account,    \* the selected account
    slot,       \* accountReleaseFunc: likewise
    tried,      \* accounts the current selection has refused
    fallback,   \* fallbackUsed: the request moved to the fallback group
    gone,       \* requests whose context is cancelled
    process,    \* life of each process
    attempts,   \* (ghost) upstream calls since NewFailoverState
    cut,        \* (ghost) <<r, k>>: others removed the slot r holds on k
    leaks,      \* (ghost) slots a fault has left behind
    drifted,    \* (ghost) keys whose wait counter a fault has falsified
    faults

local   == <<tried, fallback, failoverVars>>
leases  == <<userSlot, account, slot>>
ghosts  == <<attempts, cut, leaks, drifted>>
vars == <<slots, waiting, pc, home, leases, local, gone, process, ghosts, faults>>

INSTANCE ConcurrencyCache

Steps == {"new", "user", "leave", "admitted", "select", "picked", "refused",
          "queue", "await", "granted", "quit", "call", "answered", "finish",
          "done", "dead"}

TypeOK ==
    /\ CacheTypeOK /\ FailoverTypeOK
    /\ pc       \in [Requests -> Steps]
    /\ home     \in [Requests -> Processes]
    /\ userSlot \in [Requests -> Nat]
    /\ account  \in [Requests -> Accounts \cup {NoAccount}]
    /\ slot     \in [Requests -> Nat]
    /\ tried    \in [Requests -> SUBSET Accounts]
    /\ fallback \in [Requests -> BOOLEAN]
    /\ gone     \subseteq Requests
    /\ process  \in [Processes -> {"off", "accounts", "users", "accountWaits",
                                 "userWaits", "up", "down"}]
    /\ attempts \in [Requests -> Nat]
    /\ cut      \subseteq Requests \X Keys
    /\ leaks \in Nat /\ drifted \subseteq Keys /\ faults \in 0 .. MaxFaults

\* The process that runs first; the others start later, or never.
FirstProcess == CHOOSE p \in Processes : TRUE

Init ==
    /\ slots    = [k \in Keys |-> {}]
    /\ waiting  = [k \in Keys |-> 0]
    /\ FailoverInit
    /\ pc       = [r \in Requests |-> "new"]
    /\ userSlot = [r \in Requests |-> 0]
    /\ account  = [r \in Requests |-> NoAccount]
    /\ slot     = [r \in Requests |-> 0]
    /\ tried    = [r \in Requests |-> {}]
    /\ fallback = [r \in Requests |-> FALSE]
    /\ gone     = {}
    /\ home     = [r \in Requests |-> FirstProcess]
    /\ process  = [p \in Processes |-> IF p = FirstProcess THEN "up" ELSE "off"]
    /\ attempts = [r \in Requests |-> 0]
    /\ cut      = {}
    /\ leaks    = 0
    /\ drifted  = {}
    /\ faults   = 0

-----------------------------------------------------------------------------
(* Where a request is, and what it holds there.                            *)

Waits(r, k) ==
    IF k = User THEN pc[r] \in {"user", "leave", "admitted"}
    ELSE account[r] = k /\ pc[r] \in {"await", "granted", "quit"}

Uses(r, k) ==
    IF k = User
    THEN pc[r] \in {"admitted", "select", "picked", "refused", "queue", "await",
                    "granted", "quit", "call", "answered", "finish"}
    ELSE account[r] = k /\ pc[r] \in {"picked", "refused", "granted", "call", "answered"}

\* wrapReleaseOnDone has been called for the slot on k.
Wrapped(r, k) ==
    Uses(r, k) /\ pc[r] \notin (IF k = User THEN {"admitted"}
                                ELSE {"picked", "refused", "granted"})

IdOn(r, k) == IF k = User THEN userSlot[r] ELSE slot[r]

Lease(r, k) == <<r, IdOn(r, k)>>

Active(r) == pc[r] \notin {"new", "done", "dead"}

\* An id of r that is not in use.
Fresh(r) ==
    CHOOSE n \in 1 .. 2 + MaxFaults :
        /\ n # userSlot[r] /\ n # slot[r]
        /\ \A k \in Keys : <<r, n>> \notin slots[k]

Goto(r, step) == pc' = [pc EXCEPT ![r] = step]

Fault(kind) == kind \in FaultKinds /\ faults < MaxFaults /\ faults' = faults + 1

Faultless == UNCHANGED <<faults, leaks, drifted>>

Leak == leaks' = leaks + 1 /\ UNCHANGED drifted

Drift(k) == drifted' = drifted \cup {k} /\ UNCHANGED leaks

-----------------------------------------------------------------------------
(* The user's queue and slot.                                              *)

\* Messages up to the wait queue; an error of the counter counts as a place.
Arrive(r, p) ==
    /\ pc[r] = "new" /\ process[p] = "up"
    /\ home' = [home EXCEPT ![r] = p]
    /\ \/ IncrementWait(User) /\ Goto(r, "user") /\ Faultless
       \/ QueueFull(User) /\ Goto(r, "done") /\ UNCHANGED waiting /\ Faultless
       \/ Fault("redis") /\ Drift(User) /\ Goto(r, "user") /\ UNCHANGED waiting
    /\ UNCHANGED <<slots, leases, local, gone, process, attempts, cut>>

\* One attempt of AcquireUserSlotWithWait that ends the wait; a refused attempt
\* changes nothing.  After a lost reply nobody knows the id that was added.
AcquireUserSlot(r) ==
    /\ pc[r] = "user"
    /\ \/ /\ r \notin gone
          /\ Acquire(User, <<r, Fresh(r)>>)
          /\ \/ /\ userSlot' = [userSlot EXCEPT ![r] = Fresh(r)]
                /\ Goto(r, "admitted") /\ Faultless
             \/ /\ Fault("lost") /\ Leak
                /\ Goto(r, "leave") /\ UNCHANGED userSlot
       \/ /\ Fault("redis") /\ UNCHANGED <<leaks, drifted>>
          /\ Goto(r, "leave") /\ UNCHANGED <<slots, userSlot>>
    /\ UNCHANGED <<waiting, home, account, slot, local, gone, process, attempts, cut>>

\* Mutant: only a cancelled context ends the wait.
UserWaitEnds_NoTimeout(r) ==
    /\ pc[r] = "user" /\ r \in gone
    /\ Goto(r, "leave")
    /\ UNCHANGED <<slots, waiting, home, leases, local, gone, process, ghosts, faults>>

\* The time to wait is over, or the context is cancelled.
UserWaitEnds(r) ==
    /\ pc[r] = "user" /\ (Full(User) \/ r \in gone)
    /\ Goto(r, "leave")
    /\ UNCHANGED <<slots, waiting, home, leases, local, gone, process, ghosts, faults>>

\* DecrementWaitCount, which uses a context of its own.
Uncount(r, k) ==
    \/ DecrementWait(k) /\ Faultless
    \/ Fault("redis") /\ Drift(k) /\ UNCHANGED waiting

\* Mutant: a request that gives up stays counted.
LeaveUserQueue_Forgotten(r) ==
    /\ \/ pc[r] = "leave" /\ Goto(r, "done") /\ UNCHANGED waiting
       \/ pc[r] = "admitted" /\ Goto(r, "select") /\ DecrementWait(User)
    /\ Faultless
    /\ UNCHANGED <<slots, home, leases, local, gone, process, attempts, cut>>

LeaveUserQueue(r) ==
    /\ \/ pc[r] = "leave" /\ Goto(r, "done")
       \/ pc[r] = "admitted" /\ Goto(r, "select")
    /\ Uncount(r, User)
    /\ UNCHANGED <<slots, home, leases, local, gone, process, attempts, cut>>

\* CheckBillingEligibility refuses the request.
NotEligible(r) ==
    /\ pc[r] = "select" /\ tried[r] = {} /\ attempts[r] = 0
    /\ Goto(r, "finish")
    /\ UNCHANGED <<slots, waiting, home, leases, local, gone, process, ghosts, faults>>

-----------------------------------------------------------------------------
(* SelectAccountWithLoadAwareness.                                         *)

Candidates(r) == Accounts \ (failed[r] \cup tried[r])

\* tryAcquireAccountSlot succeeds; after a lost reply the account counts as full.
TryAcquire(r, a) ==
    /\ pc[r] = "select" /\ a \in Candidates(r) /\ r \notin gone
    /\ Acquire(a, <<r, Fresh(r)>>)
    /\ \/ /\ account' = [account EXCEPT ![r] = a]
          /\ slot' = [slot EXCEPT ![r] = Fresh(r)]
          /\ Goto(r, "picked") /\ Faultless
       \/ /\ Fault("lost") /\ Leak
          /\ UNCHANGED <<pc, account, slot>>
    /\ UNCHANGED <<waiting, home, userSlot, local, gone, process, attempts, cut>>

\* The account gets a wait plan.  Whether it looked full is a read that other
\* requests overtake, so it is no guard here.
PlanWait(r, a) ==
    /\ pc[r] = "select" /\ a \in Candidates(r)
    /\ account' = [account EXCEPT ![r] = a]
    /\ tried' = [tried EXCEPT ![r] = {}]
    /\ Goto(r, "queue")
    /\ UNCHANGED <<slots, waiting, home, userSlot, slot, fallback, failoverVars,
                   gone, process, ghosts, faults>>

Begin(r) ==
    /\ Goto(r, "call")
    /\ attempts' = [attempts EXCEPT ![r] = @ + 1]

\* The selected account is read once more; then it is called.
Hydrated(r) ==
    /\ pc[r] = "picked"
    /\ tried' = [tried EXCEPT ![r] = {}]
    /\ Begin(r)
    /\ UNCHANGED <<slots, waiting, home, leases, fallback, failoverVars, gone,
                   process, cut, leaks, drifted, faults>>

\* checkAndRegisterSession refuses, or the request is intercepted.
NotUsed(r) ==
    /\ pc[r] = "picked"
    /\ Goto(r, "refused")
    /\ UNCHANGED <<slots, waiting, home, leases, local, gone, process, ghosts, faults>>

Dropped(r) ==
    /\ account' = [account EXCEPT ![r] = NoAccount]
    /\ slot' = [slot EXCEPT ![r] = 0]
    /\ cut' = cut \ {<<r, account[r]>>}
    /\ UNCHANGED userSlot

\* The end of a release function; a ZREM that fails leaves the slot to its TTL.
Released(r, k) ==
    \/ ReleaseSlot(k, Lease(r, k)) /\ Faultless
    \/ /\ Fault("redis") /\ Lease(r, k) \in slots[k]
       /\ Leak /\ UNCHANGED slots

\* Mutant: the slot of a refused session is not released.
GiveBack_Kept(r) ==
    /\ pc[r] = "refused"
    /\ Dropped(r)
    /\ Goto(r, "select")
    /\ tried' = [tried EXCEPT ![r] = @ \cup {account[r]}]
    /\ Faultless
    /\ UNCHANGED <<slots, waiting, home, fallback, failoverVars, gone, process, attempts>>

\* The slot is given back, and the next account is tried.
GiveBack(r) ==
    /\ pc[r] = "refused"
    /\ Released(r, account[r])
    /\ Dropped(r)
    /\ \/ /\ Goto(r, "select")
          /\ tried' = [tried EXCEPT ![r] = @ \cup {account[r]}]
       \/ Goto(r, "finish") /\ UNCHANGED tried
    /\ UNCHANGED <<waiting, home, fallback, failoverVars, gone, process, attempts>>

\* What Messages does when the selection returns an error.
SelectionFailed(r) ==
    /\ tried' = [tried EXCEPT ![r] = {}]
    /\ \/ /\ failed[r] # {} /\ r \notin gone
          /\ HandleSelectionExhausted(r) /\ Goto(r, "select")
       \/ /\ failed[r] = {} \/ ~StartsOver(r) \/ r \in gone
          /\ Goto(r, "finish") /\ UNCHANGED failoverVars
    /\ UNCHANGED fallback

\* No account can be used now, or a read fails.
NoneAvailable(r) ==
    /\ pc[r] = "select"
    /\ SelectionFailed(r)
    /\ UNCHANGED <<slots, waiting, home, leases, gone, process, ghosts, faults>>

\* The second read of the account fails after the slot was acquired: the selection
\* is an error, and nobody calls the release function.
NotHydrated(r) ==
    /\ pc[r] = "picked"
    /\ IF r \in gone THEN UNCHANGED faults ELSE Fault("hydrate")
    /\ leaks' = leaks + (IF Lease(r, account[r]) \in slots[account[r]] THEN 1 ELSE 0)
    /\ Dropped(r)
    /\ SelectionFailed(r)
    /\ UNCHANGED <<slots, waiting, home, gone, process, attempts, drifted>>

-----------------------------------------------------------------------------
(* The account's queue and slot, and the call.                             *)

\* A counter that cannot be reached, also for a cancelled context, counts as a
\* place in the queue.
QueueForAccount(r) ==
    /\ pc[r] = "queue"
    /\ \/ r \notin gone /\ IncrementWait(account[r]) /\ Goto(r, "await") /\ Faultless
          /\ UNCHANGED account
       \/ /\ r \notin gone /\ QueueFull(account[r]) /\ Faultless
          /\ account' = [account EXCEPT ![r] = NoAccount]
          /\ Goto(r, "finish") /\ UNCHANGED waiting
       \/ /\ IF r \in gone THEN UNCHANGED faults ELSE Fault("redis")
          /\ Drift(account[r]) /\ Goto(r, "await") /\ UNCHANGED <<waiting, account>>
    /\ UNCHANGED <<slots, home, userSlot, slot, local, gone, process, attempts, cut>>

\* One attempt of AcquireAccountSlotWithWaitTimeout that ends the wait.
AcquireAccountSlot(r) ==
    /\ pc[r] = "await"
    /\ \/ /\ r \notin gone
          /\ Acquire(account[r], <<r, Fresh(r)>>)
          /\ \/ /\ slot' = [slot EXCEPT ![r] = Fresh(r)]
                /\ Goto(r, "granted") /\ Faultless
             \/ /\ Fault("lost") /\ Leak
                /\ Goto(r, "quit") /\ UNCHANGED slot
       \/ /\ Fault("redis") /\ UNCHANGED <<leaks, drifted>>
          /\ Goto(r, "quit") /\ UNCHANGED <<slots, slot>>
    /\ UNCHANGED <<waiting, home, userSlot, account, local, gone, process, attempts, cut>>

AccountWaitEnds(r) ==
    /\ pc[r] = "await" /\ (Full(account[r]) \/ r \in gone)
    /\ Goto(r, "quit")
    /\ UNCHANGED <<slots, waiting, home, leases, local, gone, process, ghosts, faults>>

LeaveAccountQueue(r) ==
    /\ \/ /\ pc[r] = "quit" /\ Goto(r, "finish")
          /\ account' = [account EXCEPT ![r] = NoAccount]
          /\ UNCHANGED attempts
       \/ pc[r] = "granted" /\ Begin(r) /\ UNCHANGED account
    /\ Uncount(r, account[r])
    /\ UNCHANGED <<slots, home, userSlot, slot, local, gone, process, cut>>

\* Forward returns.
UpstreamAnswers(r) ==
    /\ pc[r] = "call"
    /\ Goto(r, "answered")
    /\ UNCHANGED <<slots, waiting, home, leases, local, gone, process, ghosts, faults>>

\* The account's slot is released before anything is decided: the request is over,
\* it fails over, or its prompt was too long and it moves to the fallback group.
EndCall(r) ==
    /\ pc[r] = "answered"
    /\ Released(r, account[r])
    /\ Dropped(r)
    /\ \/ /\ Goto(r, "finish")
          /\ UNCHANGED <<failoverVars, fallback, attempts>>
       \/ \E retryable, is503 \in BOOLEAN :
             /\ HandleFailoverError(r, account[r], retryable, is503)
             /\ \/ Continues(r, account[r], retryable) /\ Goto(r, "select")
                \/ ~Continues(r, account[r], retryable) /\ Goto(r, "finish")
                \/ r \in gone /\ Goto(r, "finish")
             /\ UNCHANGED <<fallback, attempts>>
       \/ /\ ~fallback[r]
          /\ fallback' = [fallback EXCEPT ![r] = TRUE]
          /\ NewFailoverState(r)
          /\ attempts' = [attempts EXCEPT ![r] = 0]
          /\ Goto(r, "select")
    /\ UNCHANGED <<waiting, home, tried, gone, process>>

\* The handler returns: its deferred release, and the end of its variables.
Finish(r) ==
    /\ pc[r] = "finish"
    /\ Released(r, User)
    /\ userSlot' = [userSlot EXCEPT ![r] = 0]
    /\ cut' = cut \ {<<r, User>>}
    /\ Goto(r, "done")
    /\ NewFailoverState(r)
    /\ fallback' = [fallback EXCEPT ![r] = FALSE]
    /\ attempts' = [attempts EXCEPT ![r] = 0]
    /\ gone' = gone \ {r}
    /\ UNCHANGED <<waiting, home, account, slot, tried, process>>

-----------------------------------------------------------------------------
(* The client, the passing of time, and the processes.                     *)

\* The client disconnects, or the request times out.
Disconnect(r) ==
    /\ Active(r) /\ r \notin gone
    /\ Fault("gone")
    /\ gone' = gone \cup {r}
    /\ UNCHANGED <<slots, waiting, pc, home, leases, local, process, ghosts>>

\* The callback wrapReleaseOnDone registered; the handler goes on.
ReleaseOnDone(r, k) ==
    /\ r \in gone /\ Wrapped(r, k) /\ IdOn(r, k) # 0
    /\ Released(r, k)
    /\ IF k = User THEN userSlot' = [userSlot EXCEPT ![r] = 0] /\ UNCHANGED slot
                   ELSE slot' = [slot EXCEPT ![r] = 0] /\ UNCHANGED userSlot
    /\ UNCHANGED <<waiting, pc, home, account, local, gone, process, attempts, cut>>

\* The slots on keys that others take away from running requests.
Cut(keys, ids) ==
    {p \in Requests \X keys :
        Active(p[1]) /\ Uses(p[1], p[2]) /\ Lease(p[1], p[2]) \in ids}

\* A slot is never refreshed, so a request can outlive it.
SlotLapses(k, id) ==
    /\ id \in slots[k]
    /\ IF Cut({k}, {id}) = {} THEN UNCHANGED faults ELSE Fault("slow")
    /\ cut' = cut \cup Cut({k}, {id})
    /\ ReleaseSlot(k, id)
    /\ UNCHANGED <<waiting, pc, home, leases, local, gone, process, attempts, leaks,
                   drifted>>

Counted(k) == {r \in Requests : Waits(r, k)}

\* The TTL of the counter is the longest time anyone waits.
WaitExpires(k) ==
    /\ waiting[k] > 0
    /\ IF Counted(k) = {} THEN UNCHANGED faults /\ drifted' = drifted \ {k}
                          ELSE Fault("slow") /\ drifted' = drifted \cup {k}
    /\ DeleteWaits({k})
    /\ UNCHANGED <<slots, pc, home, leases, local, gone, process, attempts, cut, leaks>>

Served(p) == {r \in Requests : Active(r) /\ home[r] = p}

Crash(p) ==
    /\ process[p] = "up" /\ Fault("crash")
    /\ process' = [process EXCEPT ![p] = "down"]
    /\ pc' = [r \in Requests |-> IF r \in Served(p) THEN "dead" ELSE pc[r]]
    /\ leaks' = leaks + Cardinality({l \in Served(p) \X Keys :
                                        Lease(l[1], l[2]) \in slots[l[2]]})
    /\ drifted' = drifted \cup {k \in Keys : Counted(k) \cap Served(p) # {}}
    /\ UNCHANGED <<slots, waiting, home, leases, local, gone, attempts, cut>>

\* A restart, or a second instance next to a running one.
Start(p) ==
    /\ process[p] = "off"
    /\ IF \A q \in Processes : process[q] \in {"off", "down"} THEN UNCHANGED faults
                                                           ELSE Fault("overlap")
    /\ process' = [process EXCEPT ![p] = "accounts"]
    /\ UNCHANGED <<slots, waiting, pc, home, leases, local, gone, ghosts>>

\* CleanupStaleProcessSlots.  Only the prefix of p counts as alive.
CleanupSlots(p, keys) ==
    LET foreign == {id \in UNION {slots[k] : k \in keys} : home[id[1]] # p}
    IN  /\ RemoveForeign(keys, (UNION {slots[k] : k \in keys}) \ foreign)
        /\ cut' = cut \cup Cut(keys, foreign)
        /\ UNCHANGED <<waiting, drifted>>

CleanupWaits(keys) ==
    /\ DeleteWaits(keys)
    /\ drifted' = (drifted \ keys) \cup {k \in keys : Counted(k) # {}}
    /\ UNCHANGED <<slots, cut>>

CleanupStaleProcessSlots(p) ==
    /\ \/ \E step \in {<<"accounts", Accounts, "users">>,
                       <<"users", {User}, "accountWaits">>} :
             /\ process[p] = step[1] /\ CleanupSlots(p, step[2])
             /\ process' = [process EXCEPT ![p] = step[3]]
             /\ UNCHANGED faults
       \/ \E step \in {<<"accountWaits", Accounts, "userWaits">>,
                       <<"userWaits", {User}, "up">>} :
             /\ process[p] = step[1] /\ CleanupWaits(step[2])
             /\ process' = [process EXCEPT ![p] = step[3]]
             /\ UNCHANGED faults
       \/ /\ process[p] \in {"accounts", "users", "accountWaits", "userWaits"}
          /\ Fault("redis")
          /\ process' = [process EXCEPT ![p] = "up"]
          /\ UNCHANGED <<slots, waiting, cut, drifted>>
    /\ UNCHANGED <<pc, home, leases, local, gone, attempts, leaks>>

-----------------------------------------------------------------------------
Handler(r) ==
    \/ AcquireUserSlot(r) \/ UserWaitEnds(r) \/ LeaveUserQueue(r) \/ NotEligible(r)
    \/ \E a \in Accounts : TryAcquire(r, a) \/ PlanWait(r, a)
    \/ Hydrated(r) \/ NotUsed(r) \/ GiveBack(r) \/ NoneAvailable(r) \/ NotHydrated(r)
    \/ QueueForAccount(r) \/ AcquireAccountSlot(r) \/ AccountWaitEnds(r)
    \/ LeaveAccountQueue(r) \/ UpstreamAnswers(r) \/ EndCall(r) \/ Finish(r)

Next ==
    \/ \E r \in Requests :
          \/ \E p \in Processes : Arrive(r, p)
          \/ Handler(r)
          \/ Disconnect(r)
          \/ \E k \in Keys : ReleaseOnDone(r, k)
    \/ \E k \in Keys :
          \/ \E id \in slots[k] : SlotLapses(k, id)
          \/ WaitExpires(k)
    \/ \E p \in Processes : Crash(p) \/ Start(p) \/ CleanupStaleProcessSlots(p)

Spec == Init /\ [][Next]_vars

-----------------------------------------------------------------------------
Excused(r, k) == r \in gone \/ <<r, k>> \in cut

\* The requests that use the user or an account at the same time never exceed its
\* concurrency, as far as their clients are still there and nobody removed their
\* slots.
WithinLimit ==
    \A k \in Keys :
        Cardinality({r \in Requests : Uses(r, k) /\ ~Excused(r, k)}) <= Limit[k]

\* A slot in Redis belongs to the step a request is at, except for as many as
\* faults have left behind: no path through selection, queue, call and failover
\* forgets one or holds two accounts at once.
NoSlotForgotten ==
    Cardinality(UNION {{<<k, id>> : id \in {i \in slots[k] :
                          ~ (Uses(i[1], k) /\ Lease(i[1], k) = i)}} : k \in Keys}) <= leaks

\* The wait counters are the number of waiting requests, unless a fault has
\* falsified them.
CountersAreExact ==
    \A k \in Keys \ drifted : waiting[k] = Cardinality(Counted(k))

\* Failing over ends: the upstream is called only so often for one group.
BoundedAttempts == \A r \in Requests : attempts[r] <= MaxAttempts

\* No request depends on another one to go on: the handler always has a step,
\* also when slots have leaked and queues are full.
NeverStuck == \A r \in Requests : Active(r) => ENABLED Handler(r)
==============================================================================
