---------------------------- MODULE TokenRefresh ----------------------------
(***************************************************************************)
(* The OAuth tokens of one Claude account: refreshed by a background       *)
(* service in every process and by requests that find them about to        *)
(* expire, under a mutex of the process and a Redis lock with a TTL; the   *)
(* access token is cached in Redis.                                        *)
(*                                                                         *)
(* The n-th refresh token and the n-th access token are the number n.  The *)
(* provider lets a refresh token be used once, and then answers            *)
(* invalid_grant.                                                          *)
(***************************************************************************)
EXTENDS Integers, FiniteSets

CONSTANTS
    Processes,
    Background,   \* token refresh services
    Requests,     \* request handlers
    NoWorker, Nowhere,
    Home,         \* process of each service
    MaxToken,     \* bound on the number of tokens
    MaxRetries,   \* MaxRetries of the service
    FaultKinds,   \* the faults that may happen,
    LaterKinds,   \* and those that may happen after another one
    MaxFaults     \* bound on the number of faults

Workers == Background \cup Requests

ASSUME RefreshAssumption ==
    /\ NoWorker \notin Workers /\ Nowhere \notin Processes
    /\ Background \cap Requests = {}
    /\ Home \in [Background -> Processes]
    /\ MaxToken \in Nat \ {0} /\ MaxRetries \in Nat \ {0} /\ MaxFaults \in Nat

VARIABLES
    stored,    \* credentials of the account in the database
    status,    \* its status
    paused,    \* is it temporarily unschedulable?
    snapshot,  \* credentials of the account in the scheduler's cache
    live,      \* the refresh token the provider accepts, 0 for none
    due,       \* tokens up to this one need a refresh
    cached,    \* access token in Redis, 0 for none
    lock,      \* the refresh lock: who set the key
    mutex,     \* localLocks of each process
    home,      \* process of each request
    pc, given, \* step of each worker, and the credentials it was called with
    fresh,     \* freshAccount of RefreshIfNeeded, 0 if it is the account passed in
    hand,      \* newCredentials, 0 for none
    owns,      \* lockAcquired
    result,    \* what RefreshIfNeeded returns
    attempt,   \* of refreshWithRetry
    gone,      \* requests whose client has disconnected
    invalidated, \* (ghost) newest token that was in force when the cache was cleared
    checked,   \* (ghost) what invalidated was when the worker checked the version
    outrun,    \* (ghost) an old token was cached after a check before the clearing
    exposed,   \* (ghost) refreshes that ran without the lock
    lost,      \* (ghost) new tokens nobody stored
    misjudged, \* (ghost) an invalid_grant whose cause could not be seen
    faults

world  == <<snapshot, live, due>>
row    == <<stored, status, paused>>
locals == <<home, given, fresh, hand, owns, result, attempt>>
marks  == <<invalidated, checked, outrun, exposed, lost, misjudged>>
vars   == <<row, world, cached, lock, mutex, pc, locals, gone, marks, faults>>

Tokens == 0 .. MaxToken

TypeOK ==
    /\ stored \in Tokens /\ status \in {"active", "error"} /\ paused \in BOOLEAN
    /\ snapshot \in Tokens /\ live \in Tokens /\ due \in Tokens /\ cached \in Tokens
    /\ lock \in Workers \cup {NoWorker}
    /\ mutex \in [Processes -> Workers \cup {NoWorker}]
    /\ home \in [Requests -> Processes \cup {Nowhere}]
    /\ pc \in [Workers -> {"idle", "get", "mutex", "lock", "reread", "refresh", "recover",
                           "persist", "unlock", "recheck", "version", "set",
                           "clear", "invalidate", "sync", "disable", "pause"}]
    /\ given \in [Workers -> Tokens] /\ fresh \in [Workers -> Tokens]
    /\ hand \in [Workers -> Tokens] /\ owns \in [Workers -> BOOLEAN]
    /\ result \in [Workers -> {"none", "held", "account", "refreshed", "failed", "invalid"}]
    /\ attempt \in [Workers -> 0 .. MaxRetries]
    /\ gone \subseteq Requests
    /\ invalidated \in Tokens /\ checked \in [Workers -> Tokens]
    /\ outrun \in BOOLEAN /\ exposed \in Nat /\ lost \in Nat /\ misjudged \in BOOLEAN
    /\ faults \in 0 .. MaxFaults

Init ==
    /\ stored = 1 /\ status = "active" /\ paused = FALSE
    /\ snapshot = 1 /\ live = 1 /\ due = 0 /\ cached = 0
    /\ lock = NoWorker
    /\ mutex = [p \in Processes |-> NoWorker]
    /\ home = [q \in Requests |-> Nowhere]
    /\ pc = [w \in Workers |-> "idle"]
    /\ given = [w \in Workers |-> 0] /\ fresh = [w \in Workers |-> 0]
    /\ hand = [w \in Workers |-> 0] /\ owns = [w \in Workers |-> FALSE]
    /\ result = [w \in Workers |-> "none"]
    /\ attempt = [w \in Workers |-> 0]
    /\ gone = {}
    /\ invalidated = 0 /\ checked = [w \in Workers |-> 0]
    /\ outrun = FALSE /\ exposed = 0 /\ lost = 0 /\ misjudged = FALSE
    /\ faults = 0

-----------------------------------------------------------------------------
Goto(w, step) == pc' = [pc EXCEPT ![w] = step]

Fault(kind) ==
    /\ kind \in (IF faults = 0 THEN FaultKinds ELSE LaterKinds)
    /\ faults < MaxFaults /\ faults' = faults + 1

\* A call that uses the context of the request fails once the client is gone.
Fails(w, kind) == IF w \in gone THEN UNCHANGED faults ELSE Fault(kind)

NeedsRefresh(token) == token <= due

\* _token_version: the tokens an administrator entered have none.
Version(token) == IF token = 1 THEN 0 ELSE token

ProcessOf(w) == IF w \in Background THEN Home[w] ELSE home[w]

\* The worker's variables end with its function.
Return(w) ==
    /\ Goto(w, "idle")
    /\ home'    = [q \in Requests |-> IF q = w THEN Nowhere ELSE home[q]]
    /\ given'   = [given EXCEPT ![w] = 0]
    /\ fresh'   = [fresh EXCEPT ![w] = 0]
    /\ hand'    = [hand EXCEPT ![w] = 0]
    /\ result'  = [result EXCEPT ![w] = "none"]
    /\ attempt' = [attempt EXCEPT ![w] = 0]
    /\ gone'    = gone \ {w}

-----------------------------------------------------------------------------
(* RefreshIfNeeded.                                                        *)

LockLocal(w) ==
    /\ pc[w] = "mutex" /\ mutex[ProcessOf(w)] = NoWorker
    /\ mutex' = [mutex EXCEPT ![ProcessOf(w)] = w]
    /\ Goto(w, "lock")
    /\ UNCHANGED <<row, world, cached, lock, locals, gone, marks, faults>>

\* Without Redis the refresh goes on without the lock; a lock whose reply is lost
\* is nobody's.
AcquireRefreshLock(w) ==
    /\ pc[w] = "lock"
    /\ \/ /\ w \notin gone /\ lock = NoWorker
          /\ lock' = w /\ owns' = [owns EXCEPT ![w] = TRUE] /\ Goto(w, "reread")
          /\ UNCHANGED <<result, exposed, faults>>
       \/ /\ w \notin gone /\ lock # NoWorker
          /\ result' = [result EXCEPT ![w] = "held"] /\ Goto(w, "unlock")
          /\ UNCHANGED <<lock, owns, exposed, faults>>
       \/ /\ Fails(w, "redis")
          /\ exposed' = exposed + 1 /\ Goto(w, "reread")
          /\ UNCHANGED <<lock, owns, result>>
       \/ /\ lock = NoWorker /\ Fault("lost")
          /\ lock' = w /\ exposed' = exposed + 1 /\ Goto(w, "reread")
          /\ UNCHANGED <<owns, result>>
    /\ UNCHANGED <<row, world, cached, mutex, home, given, fresh, hand, attempt, gone,
                   invalidated, checked, outrun, lost, misjudged>>

\* The credentials of freshAccount.
Credentials(w, account) == IF account = 0 THEN given[w] ELSE account

Fresh(w) == Credentials(w, fresh[w])

\* The window of a request is shorter than that of the service.
Decisions(w, token) == {NeedsRefresh(token)} \cup IF w \in Requests THEN {FALSE} ELSE {}

\* GetByID and NeedsRefresh; an account that cannot be read is the one passed in.
Reread(w) ==
    /\ pc[w] = "reread"
    /\ \/ w \notin gone /\ fresh' = [fresh EXCEPT ![w] = stored] /\ UNCHANGED faults
       \/ Fails(w, "db") /\ fresh' = [fresh EXCEPT ![w] = 0]
    /\ \E needs \in Decisions(w, Credentials(w, fresh'[w])) :
          IF needs THEN Goto(w, "refresh") /\ UNCHANGED result
                   ELSE Goto(w, "unlock") /\ result' = [result EXCEPT ![w] = "account"]
    /\ UNCHANGED <<row, world, cached, lock, mutex, home, given, hand, owns, attempt,
                   gone, marks>>

Finish(w, how) == result' = [result EXCEPT ![w] = how] /\ Goto(w, "unlock")

\* The provider's token endpoint.
Refresh(w) ==
    /\ pc[w] = "refresh"
    /\ \/ /\ w \notin gone /\ Fresh(w) = live
          /\ live' = live + 1 /\ hand' = [hand EXCEPT ![w] = live + 1]
          /\ Goto(w, "persist")
          /\ UNCHANGED <<result, lost, faults>>
       \/ /\ w \notin gone /\ Fresh(w) # live
          /\ Goto(w, "recover")
          /\ UNCHANGED <<live, hand, result, lost, faults>>
       \/ /\ Fails(w, "upstream") /\ Finish(w, "failed")
          /\ UNCHANGED <<live, hand, lost>>
       \/ /\ Fresh(w) = live /\ Fails(w, "lost") /\ Finish(w, "failed")
          /\ live' = live + 1 /\ lost' = lost + 1
          /\ UNCHANGED hand
    /\ UNCHANGED <<row, snapshot, due, cached, lock, mutex, home, given, fresh, owns, attempt,
                   gone, invalidated, checked, outrun, exposed, misjudged>>

\* Somebody has got a new token from the provider and not stored it yet.
InHand(token) == \E v \in Workers : pc[v] = "persist" /\ hand[v] = token

Recover_Never(w) ==
    /\ pc[w] = "recover"
    /\ Finish(w, "invalid") /\ misjudged' = (misjudged \/ (stored = Fresh(w) /\ InHand(live)))
    /\ UNCHANGED <<row, world, cached, lock, mutex, home, given, fresh, hand, owns, attempt,
                   gone, invalidated, checked, outrun, exposed, lost, faults>>

\* tryRecoverFromRefreshRace, after invalid_grant.
Recover(w) ==
    /\ pc[w] = "recover"
    /\ \/ /\ w \notin gone /\ stored # Fresh(w)
          /\ fresh' = [fresh EXCEPT ![w] = stored]
          /\ Finish(w, "account") /\ UNCHANGED <<misjudged, faults>>
       \/ /\ w \notin gone /\ stored = Fresh(w)
          /\ Finish(w, "invalid") /\ misjudged' = (misjudged \/ InHand(live))
          /\ UNCHANGED <<fresh, faults>>
       \/ /\ Fails(w, "db")
          /\ Finish(w, "invalid") /\ misjudged' = TRUE
          /\ UNCHANGED fresh
    /\ UNCHANGED <<row, world, cached, lock, mutex, home, given, hand, owns, attempt, gone,
                   invalidated, checked, outrun, exposed, lost>>

Persist_OldKept(w) ==
    /\ pc[w] = "persist"
    /\ hand' = [hand EXCEPT ![w] = 0]
    /\ IF fresh[w] = 0
       THEN given' = [given EXCEPT ![w] = hand[w]] /\ UNCHANGED fresh
       ELSE fresh' = [fresh EXCEPT ![w] = hand[w]] /\ UNCHANGED given
    /\ \/ /\ w \notin gone
          /\ stored' = Fresh(w)
          /\ Finish(w, "refreshed") /\ UNCHANGED <<lost, faults>>
       \/ /\ Fails(w, "db")
          /\ lost' = lost + 1
          /\ Finish(w, "failed") /\ UNCHANGED stored
       \/ /\ Fails(w, "lost")
          /\ stored' = Fresh(w)
          /\ Finish(w, "failed") /\ UNCHANGED lost
    /\ UNCHANGED <<status, paused, world, cached, lock, mutex, home, owns, attempt, gone,
                   invalidated, checked, outrun, exposed, misjudged>>

\* persistAccountCredentials changes the account in memory, then in the database.
\* A new token that is not stored is gone.
Persist(w) ==
    /\ pc[w] = "persist"
    /\ hand' = [hand EXCEPT ![w] = 0]
    /\ IF fresh[w] = 0
       THEN given' = [given EXCEPT ![w] = hand[w]] /\ UNCHANGED fresh
       ELSE fresh' = [fresh EXCEPT ![w] = hand[w]] /\ UNCHANGED given
    /\ \/ /\ w \notin gone
          /\ stored' = hand[w]
          /\ Finish(w, "refreshed") /\ UNCHANGED <<lost, faults>>
       \/ /\ Fails(w, "db")
          /\ lost' = lost + 1
          /\ Finish(w, "failed") /\ UNCHANGED stored
       \/ /\ Fails(w, "lost")
          /\ stored' = hand[w]
          /\ Finish(w, "failed") /\ UNCHANGED lost
    /\ UNCHANGED <<status, paused, world, cached, lock, mutex, home, owns, attempt, gone,
                   invalidated, checked, outrun, exposed, misjudged>>

ReleaseRefreshLock_Always(w) ==
    /\ owns' = [owns EXCEPT ![w] = FALSE]
    /\ \/ w \notin gone /\ lock' = NoWorker /\ UNCHANGED faults
       \/ Fails(w, "redis") /\ UNCHANGED lock

\* ReleaseRefreshLock deletes the key, whoever has set it.
ReleaseRefreshLock(w) ==
    /\ owns' = [owns EXCEPT ![w] = FALSE]
    /\ IF owns[w]
       THEN \/ w \notin gone /\ lock' = NoWorker /\ UNCHANGED faults
            \/ Fails(w, "redis") /\ UNCHANGED lock
       ELSE UNCHANGED <<lock, faults>>

\* What the callers do with the result.  A request goes on with the account it
\* has; refreshWithRetry tries again or marks the account.
AfterRefresh(w) ==
    IF w \in Requests
    THEN IF result[w] = "held" THEN "recheck" ELSE "version"
    ELSE CASE result[w] = "refreshed" -> "clear"
           [] result[w] = "invalid"   -> "disable"
           [] result[w] = "failed"    -> IF attempt[w] < MaxRetries THEN "mutex" ELSE "pause"

Unlock_MutexKept(w) ==
    /\ pc[w] = "unlock"
    /\ ReleaseRefreshLock(w)
    /\ mutex' = [mutex EXCEPT ![ProcessOf(w)] = IF result[w] = "held" THEN w ELSE NoWorker]
    /\ IF w \in Background /\ result[w] \in {"held", "account"}
       THEN Return(w)
       ELSE /\ Goto(w, AfterRefresh(w))
            /\ given' = [given EXCEPT ![w] =
                            IF result[w] \in {"account", "refreshed"} THEN Fresh(w) ELSE @]
            /\ fresh' = [fresh EXCEPT ![w] = 0]
            /\ result' = [result EXCEPT ![w] = "none"]
            /\ attempt' = [attempt EXCEPT ![w] =
                            IF AfterRefresh(w) = "mutex" THEN @ + 1 ELSE @]
            /\ UNCHANGED <<home, hand, gone>>
    /\ UNCHANGED <<row, world, cached, marks>>

Unlock(w) ==
    /\ pc[w] = "unlock"
    /\ ReleaseRefreshLock(w)
    /\ mutex' = [mutex EXCEPT ![ProcessOf(w)] = NoWorker]
    /\ IF w \in Background /\ result[w] \in {"held", "account"}
       THEN Return(w)
       ELSE /\ Goto(w, AfterRefresh(w))
            /\ given' = [given EXCEPT ![w] =
                            IF result[w] \in {"account", "refreshed"} THEN Fresh(w) ELSE @]
            /\ fresh' = [fresh EXCEPT ![w] = 0]
            /\ result' = [result EXCEPT ![w] = "none"]
            /\ attempt' = [attempt EXCEPT ![w] =
                            IF AfterRefresh(w) = "mutex" THEN @ + 1 ELSE @]
            /\ UNCHANGED <<home, hand, gone>>
    /\ UNCHANGED <<row, world, cached, marks>>

-----------------------------------------------------------------------------
(* GetAccessToken, for a request.                                          *)

\* The account comes from the scheduler's cache.
NewRequest(q, p) ==
    /\ pc[q] = "idle"
    /\ home' = [home EXCEPT ![q] = p]
    /\ given' = [given EXCEPT ![q] = snapshot]
    /\ Goto(q, "get")
    /\ UNCHANGED <<row, world, cached, lock, mutex, fresh, hand, owns, result, attempt,
                   gone, marks, faults>>

\* The cache is tried first, and again after waiting for the holder of the lock.
GetCached(q) ==
    /\ pc[q] \in {"get", "recheck"}
    /\ \/ q \notin gone /\ cached # 0 /\ Return(q) /\ UNCHANGED faults
       \/ /\ IF cached = 0 THEN UNCHANGED faults ELSE Fails(q, "redis")
          /\ \E needs \in Decisions(q, given[q]) :
                Goto(q, IF pc[q] = "get" /\ needs THEN "mutex" ELSE "version")
          /\ UNCHANGED <<home, given, fresh, hand, result, attempt, gone>>
    /\ UNCHANGED <<row, world, cached, lock, mutex, owns, marks>>

Stale_NeedsVersion(token) == Version(token) # 0 /\ Version(stored) > Version(token)

Stale(token) == Version(stored) > Version(token)

\* CheckTokenVersion: a newer token in the database is used and not cached.
CheckTokenVersion(q) ==
    /\ pc[q] = "version"
    /\ \/ q \notin gone /\ Stale(given[q]) /\ Return(q)
          /\ UNCHANGED <<checked, faults>>
       \/ /\ q \notin gone /\ ~Stale(given[q]) /\ Goto(q, "set")
          /\ checked' = [checked EXCEPT ![q] = invalidated]
          /\ UNCHANGED <<home, given, fresh, hand, result, attempt, gone, faults>>
       \/ /\ Fails(q, "db") /\ Goto(q, "set")
          /\ checked' = [checked EXCEPT ![q] = 0]
          /\ UNCHANGED <<home, given, fresh, hand, result, attempt, gone>>
    /\ UNCHANGED <<row, world, cached, lock, mutex, owns,
                   invalidated, outrun, exposed, lost, misjudged>>

SetAccessToken(q) ==
    /\ pc[q] = "set"
    /\ \/ /\ q \notin gone /\ UNCHANGED faults
          /\ cached' = given[q]
          /\ outrun' = (outrun \/ checked[q] < invalidated)
       \/ Fails(q, "redis") /\ UNCHANGED <<cached, outrun>>
    /\ checked' = [checked EXCEPT ![q] = 0]
    /\ Return(q)
    /\ UNCHANGED <<row, world, lock, mutex, owns, invalidated, exposed, lost, misjudged>>

-----------------------------------------------------------------------------
(* The background service: refreshWithRetry and postRefreshActions.        *)

\* An active account whose token is about to expire.
Check(b) ==
    /\ pc[b] = "idle" /\ status = "active" /\ NeedsRefresh(stored)
    /\ given' = [given EXCEPT ![b] = stored]
    /\ attempt' = [attempt EXCEPT ![b] = 1]
    /\ Goto(b, "mutex")
    /\ UNCHANGED <<row, world, cached, lock, mutex, home, fresh, hand, owns, result, gone,
                   marks, faults>>

\* Only a pause that was already there when the account was read is cleared.
ClearTempUnschedulable(b) ==
    /\ pc[b] = "clear"
    /\ paused' \in {paused, FALSE}
    /\ Goto(b, "invalidate")
    /\ UNCHANGED <<stored, status, world, cached, lock, mutex, locals, gone, marks, faults>>

InvalidateToken(b) ==
    /\ pc[b] = "invalidate"
    /\ \/ cached' = 0 /\ UNCHANGED faults
          /\ invalidated' = IF given[b] > invalidated THEN given[b] ELSE invalidated
       \/ Fault("redis") /\ UNCHANGED <<cached, invalidated>>
    /\ Goto(b, "sync")
    /\ UNCHANGED <<row, world, lock, mutex, locals, gone,
                   checked, outrun, exposed, lost, misjudged>>

SyncScheduler(b) ==
    /\ pc[b] = "sync"
    /\ \/ snapshot' = given[b] /\ UNCHANGED faults
       \/ Fault("redis") /\ UNCHANGED snapshot
    /\ Return(b)
    /\ UNCHANGED <<row, live, due, cached, lock, mutex, owns, marks>>

Mark_WholeRow(b) ==
    /\ \/ pc[b] = "disable" /\ status' = "error" /\ UNCHANGED <<paused, faults>>
       \/ pc[b] = "pause" /\ paused' = TRUE /\ UNCHANGED <<status, faults>>
       \/ pc[b] \in {"disable", "pause"} /\ Fault("db") /\ UNCHANGED <<status, paused>>
    /\ Return(b)
    /\ stored' = given[b]
    /\ UNCHANGED <<world, cached, lock, mutex, owns, marks>>

\* SetError after invalid_grant, SetTempUnschedulable after the last attempt.
Mark(b) ==
    /\ \/ pc[b] = "disable" /\ status' = "error" /\ UNCHANGED <<paused, faults>>
       \/ pc[b] = "pause" /\ paused' = TRUE /\ UNCHANGED <<status, faults>>
       \/ pc[b] \in {"disable", "pause"} /\ Fault("db") /\ UNCHANGED <<status, paused>>
    /\ Return(b)
    /\ UNCHANGED <<stored, world, cached, lock, mutex, owns, marks>>

-----------------------------------------------------------------------------
(* The world around.                                                       *)

\* Bound: tokens expire as long as there is a number for another one.
Age ==
    /\ due < stored /\ stored < MaxToken /\ live < MaxToken
    /\ due' = stored
    /\ UNCHANGED <<row, snapshot, live, cached, lock, mutex, pc, locals, gone, marks, faults>>

\* The user revokes the grant.
Revoke ==
    /\ live # 0 /\ Fault("revoke")
    /\ live' = 0
    /\ UNCHANGED <<row, snapshot, due, cached, lock, mutex, pc, locals, gone, marks>>

\* The scheduler takes over what is in the database.
Snapshot ==
    /\ snapshot' = stored
    /\ UNCHANGED <<row, live, due, cached, lock, mutex, pc, locals, gone, marks, faults>>

CacheLapses ==
    /\ cached' = 0
    /\ UNCHANGED <<row, world, lock, mutex, pc, locals, gone, marks, faults>>

PauseEnds ==
    /\ paused' = FALSE
    /\ UNCHANGED <<stored, status, world, cached, lock, mutex, pc, locals, gone, marks, faults>>

\* The TTL of the lock, which passes under a refresh only if that is slow.
LockLapses ==
    /\ lock # NoWorker
    /\ IF owns[lock] THEN Fault("slow") /\ exposed' = exposed + 1
                     ELSE UNCHANGED <<exposed, faults>>
    /\ lock' = NoWorker
    /\ UNCHANGED <<row, world, cached, mutex, pc, locals, gone,
                   invalidated, checked, outrun, lost, misjudged>>

Disconnect(q) ==
    /\ pc[q] # "idle" /\ q \notin gone /\ Fault("gone")
    /\ gone' = gone \cup {q}
    /\ UNCHANGED <<row, world, cached, lock, mutex, pc, locals, marks>>

Crash(p) ==
    LET dead == {w \in Workers : ProcessOf(w) = p}
        Reset(f, v) == [w \in Workers |-> IF w \in dead THEN v ELSE f[w]]
    IN  /\ Fault("crash")
        /\ mutex'   = [mutex EXCEPT ![p] = NoWorker]
        /\ home'    = [q \in Requests |-> IF q \in dead THEN Nowhere ELSE home[q]]
        /\ pc'      = Reset(pc, "idle")
        /\ given'   = Reset(given, 0)
        /\ fresh'   = Reset(fresh, 0)
        /\ hand'    = Reset(hand, 0)
        /\ owns'    = Reset(owns, FALSE)
        /\ result'  = Reset(result, "none")
        /\ attempt' = Reset(attempt, 0)
        /\ checked' = Reset(checked, 0)
        /\ gone'    = gone \ dead
        /\ lost'    = lost + Cardinality({w \in dead : pc[w] = "persist"})
        /\ UNCHANGED <<row, world, cached, lock, invalidated, outrun, exposed, misjudged>>

-----------------------------------------------------------------------------
RefreshIfNeeded(w) ==
    \/ LockLocal(w) \/ AcquireRefreshLock(w) \/ Reread(w) \/ Refresh(w) \/ Recover(w)
    \/ Persist(w) \/ Unlock(w)

Service(b) ==
    \/ Check(b) \/ RefreshIfNeeded(b) \/ ClearTempUnschedulable(b) \/ InvalidateToken(b)
    \/ SyncScheduler(b) \/ Mark(b)

GetAccessToken(q) ==
    \/ GetCached(q) \/ RefreshIfNeeded(q) \/ CheckTokenVersion(q) \/ SetAccessToken(q)

Next ==
    \/ \E b \in Background : Service(b)
    \/ \E q \in Requests : GetAccessToken(q) \/ Disconnect(q)
    \/ \E q \in Requests, p \in Processes : NewRequest(q, p)
    \/ \E p \in Processes : Crash(p)
    \/ Age \/ Revoke \/ Snapshot \/ CacheLapses \/ PauseEnds \/ LockLapses

Fairness ==
    /\ \A b \in Background : WF_vars(Service(b))
    /\ \A q \in Requests : WF_vars(GetAccessToken(q))
    /\ WF_vars(LockLapses)

Spec == Init /\ [][Next]_vars /\ Fairness

-----------------------------------------------------------------------------
\* Two workers refresh at the same time only if one of them has lost the lock to
\* its TTL or never had it; each such loss lets in one more worker, also when
\* their unconditional deletes then take away each other's locks.
OneRefresher ==
    Cardinality({w \in Workers : pc[w] \in {"reread", "refresh", "recover", "persist"}})
        <= 1 + exposed

\* The refresh token the provider accepts is in the database or about to be
\* stored, unless the answer that brought it or the write of it failed.
LiveTokenIsKept == live \in {0, stored} \/ InHand(live) \/ lost > 0

\* An account is marked as failed for good only if its refresh token is dead, or
\* if the worker could not see that another one was about to store a new one.
DisabledOnlyWhenDead == status = "error" => stored # live \/ misjudged

\* After a refresh has cleared the cache no older access token gets into it, except
\* by a request that checked the version before and writes afterwards.
NoStaleTokenCached == cached = 0 \/ cached >= invalidated \/ outrun

\* A refreshed token never gives way to one that was used up before.
StoredMovesForward == [][stored' >= stored]_vars

\* An account whose token is about to expire gets a new one or is marked as failed,
\* unless requests keep taking the lock: those never mark an account.
DueIsRefreshed ==
    <>[](lock \notin Requests) =>
        (NeedsRefresh(stored) ~> (~NeedsRefresh(stored) \/ status = "error"))
==============================================================================
