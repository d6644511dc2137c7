----------------------------- MODULE Idempotency -----------------------------
(***************************************************************************)
(* IdempotencyCoordinator.Execute: a request that carries an idempotency   *)
(* key claims the key's row, runs, and stores its response; a later request *)
(* with the same key is refused or answered from the row.                  *)
(*                                                                         *)
(* A worker is one HTTP request.  Each statement on the table is an action. *)
(* The request reads the clock once, at its start (t0), as the code does.  *)
(***************************************************************************)
EXTENDS IdempotencyStore

CONSTANTS
    Workers,
    NoKey,
    TTL,            \* DefaultTTL or the route's own
    LockTime,       \* ProcessingTimeout
    Backoff,        \* FailedRetryBackoff
    FaultKinds,     \* the kinds of failure that may happen (see AllFaults)
    MaxFaults       \* bound: failures in one behaviour

ASSUME TimeAssumption ==
    TTL \in Nat \ {0} /\ LockTime \in Nat \ {0} /\ Backoff \in Nat \ {0}
ASSUME KeyAssumption == NoKey \notin Keys

\* db: a statement fails without effect; lost: it takes effect but reports an
\* error; crash: the request disappears; late: a request claims its row after
\* LockTime, or finishes after TTL, as time passes.
AllFaults == {"db", "lost", "crash", "late"}

ASSUME FaultAssumption == FaultKinds \subseteq AllFaults /\ MaxFaults \in Nat

VARIABLES
    pc,      \* next step of the request
    key, print, t0,  \* its key, fingerprint and start time
    mine,    \* id of the row it claims or has claimed
    from,    \* status it read from the row it wants to reclaim
    answer,  \* what it answered last
    wins,    \* successful executions since the key's row was last new or expired
    faults   \* failures so far: how many, and of which kinds

procs == <<pc, key, print, t0, mine, from>>
vars  == <<rows, lastId, clock, procs, answer, wins, faults>>

Claiming  == {"create", "get", "reclaimExpired", "reread", "reclaim"}
Executing == {"execute", "succeed", "fail"}

NoAnswer == [kind |-> "none", body |-> NoPrint]
AnswerKinds == {"none", "ran", "replay", "failed", "unavailable", "conflict",
                "inProgress", "backoff"}

FaultLog == [count : 0..MaxFaults, kinds : SUBSET FaultKinds]

TypeOK ==
    /\ StoreTypeOK
    /\ pc     \in [Workers -> {"idle"} \cup Claiming \cup Executing]
    /\ key    \in [Workers -> Keys \cup {NoKey}]
    /\ print  \in [Workers -> Prints \cup {NoPrint}]
    /\ t0     \in [Workers -> Nat]
    /\ mine   \in [Workers -> Nat]
    /\ from   \in [Workers -> RowStatuses \cup {"none"}]
    /\ answer \in [Workers -> [kind : AnswerKinds, body : Prints \cup {NoPrint}]]
    /\ wins   \in [Keys -> Nat]
    /\ faults \in FaultLog
    /\ \A w \in Workers : pc[w] # "idle" => key[w] \in Keys /\ print[w] \in Prints

Init ==
    /\ StoreInit
    /\ pc     = [w \in Workers |-> "idle"]
    /\ key    = [w \in Workers |-> NoKey]
    /\ print  = [w \in Workers |-> NoPrint]
    /\ t0     = [w \in Workers |-> 0]
    /\ mine   = [w \in Workers |-> 0]
    /\ from   = [w \in Workers |-> "none"]
    /\ answer = [w \in Workers |-> NoAnswer]
    /\ wins   = [k \in Keys |-> 0]
    /\ faults = [count |-> 0, kinds |-> {}]

-----------------------------------------------------------------------------
Fault(k) ==
    /\ k \in FaultKinds /\ faults.count < MaxFaults
    /\ faults' = [count |-> faults.count + 1, kinds |-> faults.kinds \cup {k}]

Goto(w, step) ==
    /\ pc' = [pc EXCEPT ![w] = step]
    /\ UNCHANGED <<key, print, t0, answer>>

Leave(w) ==
    /\ pc'   = [pc EXCEPT ![w] = "idle"]
    /\ key'  = [key EXCEPT ![w] = NoKey]
    /\ t0'   = [t0 EXCEPT ![w] = 0]
    /\ mine' = [mine EXCEPT ![w] = 0]
    /\ from' = [from EXCEPT ![w] = "none"]
    /\ UNCHANGED print

Answer(w, a) == Leave(w) /\ answer' = [answer EXCEPT ![w] = a]

Unavailable(w) == Answer(w, [NoAnswer EXCEPT !.kind = "unavailable"])

-----------------------------------------------------------------------------
\* Mutant: a request without a key is let through.
Start_NoKey(w, k, p) ==
    /\ pc[w] = "idle"
    /\ pc'     = [pc EXCEPT ![w] = "create"]
    /\ print'  = [print EXCEPT ![w] = p]
    /\ t0'     = [t0 EXCEPT ![w] = clock]
    /\ answer' = [answer EXCEPT ![w] = NoAnswer]
    /\ UNCHANGED <<table, clock, key, mine, from, wins, faults>>

Start(w, k, p) ==
    /\ pc[w] = "idle"
    /\ pc'     = [pc EXCEPT ![w] = "create"]
    /\ key'    = [key EXCEPT ![w] = k]
    /\ print'  = [print EXCEPT ![w] = p]
    /\ t0'     = [t0 EXCEPT ![w] = clock]
    /\ answer' = [answer EXCEPT ![w] = NoAnswer]
    /\ UNCHANGED <<table, clock, mine, from, wins, faults>>

Create(w) ==
    LET k == key[w] IN
    /\ pc[w] = "create"
    /\ \/ /\ CreateProcessing(k, print[w], t0[w] + LockTime, t0[w] + TTL)
          /\ wins' = [wins EXCEPT ![k] = 0]
          /\ \/ /\ Goto(w, "execute")
                /\ mine' = [mine EXCEPT ![w] = lastId + 1]
                /\ UNCHANGED <<from, faults>>
             \/ Fault("lost") /\ Unavailable(w)
       \/ /\ Exists(k)
          /\ Goto(w, "get")
          /\ UNCHANGED <<table, mine, from, wins, faults>>
    /\ UNCHANGED clock

\* The switch on the row's status: everything after the read that changes no
\* row.
Decide(w, row) ==
    \/ /\ row.status = "succeeded" /\ row.readable
       /\ Answer(w, [NoAnswer EXCEPT !.kind = "replay", !.body = row.body])
    \/ /\ row.status = "succeeded" /\ ~row.readable
       /\ Unavailable(w)
    \/ /\ row.status = "processing"
       /\ Answer(w, [NoAnswer EXCEPT !.kind = "inProgress"])
    \/ /\ row.status = "failed_retryable" /\ row.lockedUntil > t0[w]
       /\ Answer(w, [NoAnswer EXCEPT !.kind = "backoff"])
    \/ /\ row.status = "failed_retryable" /\ row.lockedUntil <= t0[w]
       /\ Goto(w, "reclaim")
       /\ mine' = [mine EXCEPT ![w] = row.id]
       /\ from' = [from EXCEPT ![w] = "failed_retryable"]

\* Mutant: the fingerprint of the row is not compared.
SamePrint_Ignored(w, row) == row.print \in Prints

SamePrint(w, row) == row.print = print[w]

Mismatch(w) == Answer(w, [NoAnswer EXCEPT !.kind = "conflict"])

\* Mutant: a lapsed processing lock is reclaimed like an expired row.
StaleAtStart_Unlocked(w, row) == row.lockedUntil <= t0[w]

StaleAtStart(w, row) == row.expiresAt <= t0[w]

GetExisting(w) ==
    LET row == rows[key[w]] IN
    /\ pc[w] = "get"
    /\ \/ row.id = 0 /\ Unavailable(w)
       \/ row.id # 0 /\ ~SamePrint(w, row) /\ Mismatch(w)
       \/ /\ row.id # 0 /\ SamePrint(w, row) /\ StaleAtStart(w, row)
          /\ Goto(w, "reclaimExpired")
          /\ mine' = [mine EXCEPT ![w] = row.id]
          /\ from' = [from EXCEPT ![w] = row.status]
       \/ row.id # 0 /\ SamePrint(w, row) /\ ~StaleAtStart(w, row) /\ Decide(w, row)
    /\ UNCHANGED <<table, clock, wins, faults>>

TakeOver(w) ==
    /\ Reclaim(key[w], t0[w] + LockTime, t0[w] + TTL)
    /\ \/ Goto(w, "execute") /\ UNCHANGED <<mine, from, faults>>
       \/ Fault("lost") /\ Unavailable(w)

\* TryReclaim of an expired row, from the status read before.
ReclaimExpired(w) ==
    LET k == key[w] IN
    /\ pc[w] = "reclaimExpired"
    /\ \/ /\ Reclaimable(k, mine[w], from[w], t0[w])
          /\ TakeOver(w)
          /\ wins' = IF Expired(k) THEN [wins EXCEPT ![k] = 0] ELSE wins
       \/ /\ ~Reclaimable(k, mine[w], from[w], t0[w])
          /\ Goto(w, "reread")
          /\ UNCHANGED <<rows, mine, from, wins, faults>>
    /\ UNCHANGED <<lastId, clock>>

\* The second read does not look at the expiry again.
Reread(w) ==
    LET row == rows[key[w]] IN
    /\ pc[w] = "reread"
    /\ \/ row.id = 0 /\ Unavailable(w)
       \/ row.id # 0 /\ ~SamePrint(w, row) /\ Mismatch(w)
       \/ row.id # 0 /\ SamePrint(w, row) /\ Decide(w, row)
    /\ UNCHANGED <<table, clock, wins, faults>>

\* TryReclaim of a failed row whose backoff is over.
ReclaimFailed(w) ==
    LET k == key[w] IN
    /\ pc[w] = "reclaim"
    /\ \/ Reclaimable(k, mine[w], from[w], t0[w]) /\ TakeOver(w)
       \/ /\ ~Reclaimable(k, mine[w], from[w], t0[w])
          /\ Answer(w, [NoAnswer EXCEPT !.kind = "inProgress"])
          /\ UNCHANGED <<rows, faults>>
    /\ UNCHANGED <<lastId, clock, wins>>

\* The caller's function; its side effect happens exactly when it succeeds.
Execute(w) ==
    /\ pc[w] = "execute"
    /\ \/ Goto(w, "succeed") /\ wins' = [wins EXCEPT ![key[w]] = @ + 1]
       \/ Goto(w, "fail") /\ UNCHANGED wins
    /\ UNCHANGED <<table, clock, mine, from, faults>>

\* Storing the response, which may have been cut to MaxStoredResponseLen.
StoreSuccess(w) ==
    /\ pc[w] = "succeed"
    /\ \E readable \in BOOLEAN :
          MarkSucceeded(key[w], mine[w], print[w], readable, t0[w] + TTL)
    /\ \/ /\ Answer(w, [NoAnswer EXCEPT !.kind = "ran", !.body = print[w]])
          /\ UNCHANGED faults
       \/ Fault("lost") /\ Unavailable(w)
    /\ UNCHANGED <<lastId, clock, wins>>

\* A failed update is only logged: the caller gets the execution's own error.
StoreFailure(w) ==
    /\ pc[w] = "fail"
    /\ \/ /\ MarkFailedRetryable(key[w], mine[w], clock + Backoff, t0[w] + TTL)
          /\ UNCHANGED faults
       \/ UNCHANGED rows /\ Fault("db")
    /\ Answer(w, [NoAnswer EXCEPT !.kind = "failed"])
    /\ UNCHANGED <<lastId, clock, wins>>

\* Any other statement fails without effect.
StatementFails(w) ==
    /\ pc[w] \in Claiming \cup {"succeed"}
    /\ Fault("db")
    /\ Unavailable(w)
    /\ UNCHANGED <<table, clock, wins>>

Crash(w) ==
    /\ pc[w] # "idle"
    /\ Fault("crash")
    /\ Leave(w)
    /\ UNCHANGED <<table, clock, answer, wins>>

Cleanup(k) ==
    /\ DeleteExpired(k)
    /\ UNCHANGED <<clock, procs, answer, wins, faults>>

Late(w) == \/ pc[w] \in Claiming  /\ clock + 1 >= t0[w] + LockTime
           \/ pc[w] \in Executing /\ clock + 1 >= t0[w] + TTL

\* A first request that overruns is a fault, later ones are free.
Tick ==
    /\ clock < MaxTime
    /\ \/ /\ (\E w \in Workers : Late(w)) => "late" \in faults.kinds
          /\ UNCHANGED faults
       \/ /\ \E w \in Workers : Late(w)
          /\ "late" \notin faults.kinds
          /\ Fault("late")
    /\ clock' = clock + 1
    /\ UNCHANGED <<table, procs, answer, wins>>

Worker(w) ==
    \/ \E k \in Keys, p \in Prints : Start(w, k, p)
    \/ Create(w) \/ GetExisting(w) \/ ReclaimExpired(w) \/ Reread(w)
    \/ ReclaimFailed(w) \/ Execute(w) \/ StoreSuccess(w) \/ StoreFailure(w)
    \/ StatementFails(w) \/ Crash(w)

Next == \/ \E w \in Workers : Worker(w)
        \/ \E k \in Keys : Cleanup(k)
        \/ Tick

Spec == Init /\ [][Next]_vars

-----------------------------------------------------------------------------
(* Properties.                                                             *)

\* Two requests with the same key never run at the same time, unless one
\* overruns its lock or its TTL.  The claim is a read followed by an update by
\* id and old status, on a clock read before both, and neither update of the
\* result asks who holds the row.
SingleExecutor ==
    "late" \in faults.kinds \/
    \A v, w \in Workers :
        v # w /\ pc[v] \in Executing /\ pc[w] \in Executing => key[v] # key[w]

\* While the row of a key lives and has not expired, the business operation
\* succeeds at most once under that key, whatever the retries do.
OneSideEffect == \A k \in Keys : wins[k] <= 1

\* The same as long as no row can have expired: lost replies, failed updates,
\* crashes, backoffs and requests that overrun do not repeat the operation.
OneSuccess == clock <= TTL => OneSideEffect

\* A replayed response is one this very request produced: never that of
\* another payload under the same key, through any reuse of the row.
ReplayIsOwn ==
    \A w \in Workers :
        answer[w].kind = "replay" => answer[w].body = print[w]

\* A stored success is final for its row as long as no row can have expired:
\* neither a late MarkFailedRetryable nor a reclaim takes it away (a part of
\* ImplementsOnce below, which the runs check).
SuccessIsKept ==
    [][\A k \in Keys :
          rows[k].status = "succeeded" /\ clock <= TTL
             => rows'[k].status = "succeeded"]_vars

-----------------------------------------------------------------------------
(* Refinement: a key under requests behaves as one that is used once.      *)

Attempted(k) == \E w \in Workers : pc[w] \in Executing /\ key[w] = k

KeyState(k) ==
    CASE rows[k].status = "succeeded"                      -> "answered"
      [] rows[k].status = "processing" /\ Attempted(k)    -> "running"
      [] rows[k].status = "processing" /\ ~Attempted(k)   -> "abandoned"
      [] rows[k].status \in {"none", "failed_retryable"}   -> "free"

Once == INSTANCE OnceOnly WITH
    state   <- [k \in Keys |-> KeyState(k)],
    effects <- wins

\* As long as no row can have expired, the requests of a key implement OnceOnly:
\* an operation that has taken effect is never attempted again, even if its
\* success could not be stored, its request crashed or overran its lock.
ImplementsOnce ==
    Once!Init /\ [][clock <= TTL => [Once!Next]_(Once!vars)]_vars
==============================================================================
