------------------------------ MODULE SystemLock ------------------------------
(***************************************************************************)
(* SystemOperationLockService: one global lock, kept as a row of           *)
(* idempotency_records, for update, rollback and restart of the program.   *)
(* The holder is given a lease and a goroutine that renews it.             *)
(*                                                                         *)
(* A worker is one administrator's request together with the renewal       *)
(* goroutine of the lock it holds.                                         *)
(***************************************************************************)
EXTENDS IdempotencyStore

CONSTANTS
    LockKey,     \* the key of the global lock
    Workers,
    TTL,         \* SystemOperationTTL
    Lease,       \* ProcessingTimeout
    RenewEvery,  \* a third of it
    Short,       \* every operation ends before its first lease does
    FaultKinds,  \* db, crash
    MaxFaults    \* bound: failures in one behaviour

ASSUME LockAssumption == Keys = {LockKey}
ASSUME TimeAssumption == TTL \in Nat /\ Lease \in Nat /\ RenewEvery \in 1..Lease
                         /\ Short \in BOOLEAN
ASSUME FaultAssumption == MaxFaults \in Nat

VARIABLES
    pc,       \* next step of the request
    op, t0,   \* its operation id and start time
    mine,     \* id of the row it reclaims or holds
    from,     \* status it read from the row
    renewBy,  \* when its renewal goroutine runs next; 0: there is none
    faults

procs == <<pc, op, t0, mine, from, renewBy>>
vars  == <<rows, lastId, clock, procs, faults>>

Acquiring == {"create", "get", "reclaim"}
Steps == {"idle", "operate", "release"} \cup Acquiring

TypeOK ==
    /\ StoreTypeOK
    /\ pc      \in [Workers -> Steps]
    /\ op      \in [Workers -> Prints \cup {NoPrint}]
    /\ t0      \in [Workers -> Nat]
    /\ mine    \in [Workers -> Nat]
    /\ from    \in [Workers -> RowStatuses \cup {"none"}]
    /\ renewBy \in [Workers -> Nat]
    /\ faults  \in 0..MaxFaults
    /\ \A w \in Workers : renewBy[w] # 0 => pc[w] \in {"operate", "release"}

Init ==
    /\ StoreInit
    /\ pc      = [w \in Workers |-> "idle"]
    /\ op      = [w \in Workers |-> NoPrint]
    /\ t0      = [w \in Workers |-> 0]
    /\ mine    = [w \in Workers |-> 0]
    /\ from    = [w \in Workers |-> "none"]
    /\ renewBy = [w \in Workers |-> 0]
    /\ faults  = 0

-----------------------------------------------------------------------------
Row == rows[LockKey]

Fault(f) == f \in FaultKinds /\ faults < MaxFaults /\ faults' = faults + 1

Goto(w, step) == pc' = [pc EXCEPT ![w] = step] /\ UNCHANGED <<op, t0>>

Leave(w) ==
    /\ pc'      = [pc EXCEPT ![w] = "idle"]
    /\ op'      = [op EXCEPT ![w] = NoPrint]
    /\ t0'      = [t0 EXCEPT ![w] = 0]
    /\ mine'    = [mine EXCEPT ![w] = 0]
    /\ from'    = [from EXCEPT ![w] = "none"]
    /\ renewBy' = [renewBy EXCEPT ![w] = 0]

\* Acquire: its clock is read before its first statement.
Acquire(w, id) ==
    /\ pc[w] = "idle"
    /\ pc' = [pc EXCEPT ![w] = "create"]
    /\ op' = [op EXCEPT ![w] = id]
    /\ t0' = [t0 EXCEPT ![w] = clock]
    /\ UNCHANGED <<table, clock, mine, from, renewBy, faults>>

\* The caller has the lock, and the renewal goroutine starts.
Acquired(w, id) ==
    /\ Goto(w, "operate")
    /\ mine' = [mine EXCEPT ![w] = id]
    /\ renewBy' = [renewBy EXCEPT ![w] = clock + RenewEvery]

Create(w) ==
    /\ pc[w] = "create"
    /\ \/ /\ CreateProcessing(LockKey, op[w], t0[w] + Lease, t0[w] + TTL)
          /\ Acquired(w, lastId + 1)
          /\ UNCHANGED from
       \/ /\ Exists(LockKey)
          /\ Goto(w, "get")
          /\ UNCHANGED <<table, mine, from, renewBy>>
    /\ UNCHANGED <<clock, faults>>

Busy(w) == Row.status = "processing" /\ Row.lockedUntil > t0[w]

GetExisting(w) ==
    /\ pc[w] = "get"
    /\ \/ /\ Row.id = 0 \/ Busy(w)
          /\ Leave(w)
       \/ /\ Row.id # 0 /\ ~Busy(w)
          /\ Goto(w, "reclaim")
          /\ mine' = [mine EXCEPT ![w] = Row.id]
          /\ from' = [from EXCEPT ![w] = Row.status]
          /\ UNCHANGED renewBy
    /\ UNCHANGED <<table, clock, faults>>

\* Mutant: any status of the row will do.
Takes_AnyStatus(w) == Row.id = mine[w]

Takes(w) == Reclaimable(LockKey, mine[w], from[w], t0[w])

TryReclaim(w) ==
    /\ pc[w] = "reclaim"
    /\ \/ /\ Takes(w)
          /\ Reclaim(LockKey, t0[w] + Lease, t0[w] + TTL)
          /\ Acquired(w, mine[w])
          /\ UNCHANGED from
       \/ /\ ~Takes(w)
          /\ Leave(w)
          /\ UNCHANGED rows
    /\ UNCHANGED <<lastId, clock, faults>>

\* ExtendProcessingLock: by id, status and fingerprint.
Extends(w) ==
    /\ Row.id = mine[w]
    /\ Row.status = "processing"
    /\ Row.print = op[w]

\* One tick of the renewal goroutine.  When no row matches it stops, and the
\* operation goes on without knowing.
Renew(w) ==
    /\ renewBy[w] # 0 /\ clock >= renewBy[w]
    /\ \/ /\ Extends(w)
          /\ rows' = [rows EXCEPT ![LockKey].lockedUntil = clock + Lease,
                                  ![LockKey].expiresAt = clock + TTL]
          /\ renewBy' = [renewBy EXCEPT ![w] = clock + RenewEvery]
          /\ UNCHANGED faults
       \/ /\ ~Extends(w)
          /\ renewBy' = [renewBy EXCEPT ![w] = 0]
          /\ UNCHANGED <<rows, faults>>
       \/ /\ Fault("db")
          /\ renewBy' = [renewBy EXCEPT ![w] = clock + RenewEvery]
          /\ UNCHANGED rows
    /\ UNCHANGED <<lastId, clock, pc, op, t0, mine, from>>

\* The operation is over: Release stops the renewal goroutine, which may still
\* have an update on its way...
Finish(w) ==
    /\ pc[w] = "operate"
    /\ Goto(w, "release")
    /\ \/ renewBy' = [renewBy EXCEPT ![w] = 0]
       \/ clock = renewBy[w] /\ UNCHANGED renewBy
    /\ UNCHANGED <<table, clock, mine, from, faults>>

\* ... and then gives the row up; a failed update is ignored.
Release(w) ==
    /\ pc[w] = "release"
    /\ \/ /\ MarkSucceeded(LockKey, mine[w], op[w], TRUE, clock + TTL)
          /\ UNCHANGED faults
       \/ /\ MarkFailedRetryable(LockKey, mine[w], clock, clock + TTL)
          /\ UNCHANGED faults
       \/ UNCHANGED rows /\ Fault("db")
    /\ Leave(w)
    /\ UNCHANGED <<lastId, clock>>

\* A statement that took effect and reported an error is like a crash after it.
StatementFails(w) ==
    /\ pc[w] \in Acquiring
    /\ Fault("db")
    /\ Leave(w)
    /\ UNCHANGED <<table, clock>>

Crash(w) ==
    /\ pc[w] # "idle"
    /\ Fault("crash")
    /\ Leave(w)
    /\ UNCHANGED <<table, clock>>

Cleanup ==
    /\ DeleteExpired(LockKey)
    /\ UNCHANGED <<clock, procs, faults>>

\* The renewal goroutine is never late, a request acquires the lock before the
\* renewal interval would carry it past its lease, and a release, which has a
\* timeout of two seconds, is over within one unit of time.
Tick ==
    /\ clock < MaxTime
    /\ \A w \in Workers :
          /\ renewBy[w] # 0 => clock + 1 <= renewBy[w]
          /\ pc[w] \in Acquiring => clock + 1 < t0[w] + Lease - RenewEvery
          /\ pc[w] # "release"
          /\ Short /\ pc[w] # "idle" => clock + 1 < t0[w] + Lease
    /\ clock' = clock + 1
    /\ UNCHANGED <<table, procs, faults>>

Worker(w) ==
    \/ \E id \in Prints : Acquire(w, id)
    \/ Create(w) \/ GetExisting(w) \/ TryReclaim(w) \/ Renew(w) \/ Finish(w)
    \/ Release(w) \/ StatementFails(w) \/ Crash(w)

Next == \/ \E w \in Workers : Worker(w)
        \/ Cleanup
        \/ Tick

Spec == Init /\ [][Next]_vars

-----------------------------------------------------------------------------
Operating(w) == pc[w] \in {"operate", "release"}

\* Two system operations (an update and a rollback, say) never run at once.
\* Nothing but the lease protects the holder: no statement checks ownership.
OneOperation ==
    \A v, w \in Workers : v # w => ~(Operating(v) /\ Operating(w))

\* The lease of the row covers every operation in progress, so an Acquire
\* finds the lock busy.
HolderIsCovered ==
    \A w \in Workers :
        pc[w] = "operate" => Row.status = "processing" /\ Row.lockedUntil > clock
==============================================================================
