--------------------------- MODULE IdempotencyProofs ---------------------------
(***************************************************************************)
(* Proofs about Idempotency: its types, that a replayed response always    *)
(* belongs to the payload that asks, that a key's requests exclude each    *)
(* other, and that they implement OnceOnly while no row can have expired.  *)
(***************************************************************************)
EXTENDS Idempotency, TLAPS

RowType == [id          : Nat,
            print       : Prints \cup {NoPrint},
            status      : RowStatuses \cup {"none"},
            lockedUntil : Nat,
            expiresAt   : Nat,
            body        : Prints \cup {NoPrint},
            readable    : BOOLEAN]

AnswerType == [kind : AnswerKinds, body : Prints \cup {NoPrint}]

\* The part of TypeOK about the requests.
ProcsTyped ==
    /\ pc     \in [Workers -> {"idle"} \cup Claiming \cup Executing]
    /\ key    \in [Workers -> Keys \cup {NoKey}]
    /\ print  \in [Workers -> Prints \cup {NoPrint}]
    /\ t0     \in [Workers -> Nat]
    /\ mine   \in [Workers -> Nat]
    /\ from   \in [Workers -> RowStatuses \cup {"none"}]
    /\ answer \in [Workers -> AnswerType]
    /\ \A w \in Workers : pc[w] # "idle" => key[w] \in Keys /\ print[w] \in Prints

LEMMA TypeParts ==
  TypeOK <=> /\ rows \in [Keys -> RowType] /\ lastId \in Nat /\ clock \in Nat
             /\ ProcsTyped
             /\ wins \in [Keys -> Nat] /\ faults \in FaultLog
  BY DEF TypeOK, StoreTypeOK, RowType, ProcsTyped, AnswerType

\* A step of w leaves the other requests alone.
Moves(w) ==
    \A v \in Workers : v # w =>
        /\ pc'[v] = pc[v] /\ key'[v] = key[v] /\ print'[v] = print[v]
        /\ t0'[v] = t0[v] /\ mine'[v] = mine[v] /\ from'[v] = from[v]
        /\ answer'[v] = answer[v]

-----------------------------------------------------------------------------
(* What the statements do to the row, field by field.                      *)

LEMMA RowsTyped ==
  ASSUME rows \in [Keys -> RowType], NEW k \in Keys
  PROVE  rows[k] \in RowType /\ rows[k].id \in Nat /\ rows[k].lockedUntil \in Nat
         /\ rows[k].expiresAt \in Nat /\ rows[k].print \in Prints \cup {NoPrint}
         /\ rows[k].body \in Prints \cup {NoPrint}
         /\ rows[k].status \in RowStatuses \cup {"none"}
  BY DEF RowType

LEMMA NoRowTyped == NoRow \in RowType
  BY DEF NoRow, RowType

LEMMA CreateRow ==
  ASSUME rows \in [Keys -> RowType], lastId \in Nat, NEW k \in Keys,
         NEW p \in Prints, NEW l \in Nat, NEW e \in Nat, CreateProcessing(k, p, l, e)
  PROVE  /\ rows' \in [Keys -> RowType] /\ lastId' = lastId + 1
         /\ rows[k].id = 0
         /\ rows'[k].id = lastId + 1 /\ rows'[k].print = p
         /\ rows'[k].status = "processing"
         /\ rows'[k].lockedUntil = l /\ rows'[k].expiresAt = e
         /\ \A j \in Keys : j # k => rows'[j] = rows[j]
  <1> DEFINE n == lastId + 1
             r == [NoRow EXCEPT !.id = n, !.print = p, !.status = "processing",
                                !.lockedUntil = l, !.expiresAt = e]
  <1>1. rows' = [rows EXCEPT ![k] = r] /\ lastId' = n /\ rows[k].id = 0
    BY DEF CreateProcessing, Exists
  <1>2. n \in Nat /\ p \in Prints \cup {NoPrint}
    OBVIOUS
  <1> HIDE DEF n
  <1>3. r \in RowType
    BY <1>2, NoRowTyped DEF RowType, RowStatuses
  <1>4. r.id = n /\ r.print = p /\ r.status = "processing"
        /\ r.lockedUntil = l /\ r.expiresAt = e
    BY NoRowTyped DEF RowType
  <1> HIDE DEF r
  <1>5. rows' \in [Keys -> RowType] /\ rows'[k] = r
        /\ \A j \in Keys : j # k => rows'[j] = rows[j]
    BY <1>1, <1>3
  <1> QED
    BY <1>1, <1>4, <1>5 DEF n

LEMMA ReclaimRow ==
  ASSUME rows \in [Keys -> RowType], NEW k \in Keys, NEW l \in Nat, NEW e \in Nat,
         Reclaim(k, l, e)
  PROVE  /\ rows' \in [Keys -> RowType]
         /\ rows'[k].id = rows[k].id /\ rows'[k].print = rows[k].print
         /\ rows'[k].status = "processing"
         /\ rows'[k].lockedUntil = l /\ rows'[k].expiresAt = e
         /\ \A j \in Keys : j # k => rows'[j] = rows[j]
  BY DEF Reclaim, RowType, RowStatuses

LEMMA SucceededRow ==
  ASSUME rows \in [Keys -> RowType], NEW k \in Keys, NEW id, NEW b \in Prints,
         NEW r \in BOOLEAN, NEW e \in Nat, MarkSucceeded(k, id, b, r, e)
  PROVE  /\ rows' \in [Keys -> RowType]
         /\ rows'[k].id = rows[k].id /\ rows'[k].print = rows[k].print
         /\ rows[k].id = id => rows'[k].status = "succeeded" /\ rows'[k].body = b
                               /\ rows'[k].expiresAt = e
         /\ rows[k].id # id => rows'[k] = rows[k]
         /\ \A j \in Keys : j # k => rows'[j] = rows[j]
  <1>1. CASE rows[k].id # id
    BY <1>1 DEF MarkSucceeded
  <1>2. CASE rows[k].id = id
    <2> DEFINE new == [rows[k] EXCEPT !.status = "succeeded", !.body = b, !.readable = r,
                                      !.lockedUntil = 0, !.expiresAt = e]
    <2>1. rows' = [rows EXCEPT ![k] = new]
      BY <1>2 DEF MarkSucceeded
    <2>2. rows[k] \in RowType
      OBVIOUS
    <2>3. new \in RowType /\ new.id = rows[k].id /\ new.print = rows[k].print
          /\ new.status = "succeeded" /\ new.body = b /\ new.expiresAt = e
      BY <2>2 DEF RowType, RowStatuses
    <2> QED
      BY <1>2, <2>1, <2>3
  <1> QED
    BY <1>1, <1>2

LEMMA FailedRow ==
  ASSUME rows \in [Keys -> RowType], NEW k \in Keys, NEW id, NEW l \in Nat,
         NEW e \in Nat, MarkFailedRetryable(k, id, l, e)
  PROVE  /\ rows' \in [Keys -> RowType]
         /\ rows'[k].id = rows[k].id /\ rows'[k].print = rows[k].print
         /\ rows[k].id = id => rows'[k].status = "failed_retryable"
                               /\ rows'[k].expiresAt = e
         /\ rows[k].id # id => rows'[k] = rows[k]
         /\ \A j \in Keys : j # k => rows'[j] = rows[j]
  <1>1. CASE rows[k].id # id
    BY <1>1 DEF MarkFailedRetryable
  <1>2. CASE rows[k].id = id
    <2> DEFINE new == [rows[k] EXCEPT !.status = "failed_retryable", !.lockedUntil = l,
                                      !.expiresAt = e]
    <2>1. rows' = [rows EXCEPT ![k] = new]
      BY <1>2 DEF MarkFailedRetryable
    <2>2. rows[k] \in RowType
      OBVIOUS
    <2>3. new \in RowType /\ new.id = rows[k].id /\ new.print = rows[k].print
          /\ new.status = "failed_retryable" /\ new.expiresAt = e
      BY <2>2 DEF RowType, RowStatuses
    <2> QED
      BY <1>2, <2>1, <2>3
  <1> QED
    BY <1>1, <1>2

LEMMA DeletedRow ==
  ASSUME rows \in [Keys -> RowType], NEW k \in Keys, DeleteExpired(k)
  PROVE  /\ rows' \in [Keys -> RowType] /\ lastId' = lastId
         /\ rows[k].expiresAt <= clock
         /\ rows'[k].id = 0 /\ rows'[k].status = "none"
         /\ \A j \in Keys : j # k => rows'[j] = rows[j]
  BY NoRowTyped DEF DeleteExpired, Expired, NoRow

-----------------------------------------------------------------------------
(* What the moves of a request do to its own variables.                    *)

LEMMA LeaveMoves ==
  ASSUME ProcsTyped, NEW w \in Workers, Leave(w), UNCHANGED answer
  PROVE  ProcsTyped' /\ Moves(w) /\ pc'[w] = "idle" /\ mine'[w] = 0
         /\ print'[w] = print[w] /\ answer'[w] = answer[w]
  BY FaultAssumption DEF ProcsTyped, Moves, Leave, RowStatuses

LEMMA AnswerMoves ==
  ASSUME ProcsTyped, NEW w \in Workers, NEW a \in AnswerType, Answer(w, a)
  PROVE  ProcsTyped' /\ Moves(w) /\ pc'[w] = "idle" /\ mine'[w] = 0
         /\ print'[w] = print[w] /\ answer'[w] = a
  BY FaultAssumption DEF ProcsTyped, Moves, Answer, Leave, RowStatuses

LEMMA AnswersTyped ==
  /\ \A kd \in AnswerKinds : [NoAnswer EXCEPT !.kind = kd] \in AnswerType
  /\ \A kd \in AnswerKinds : [NoAnswer EXCEPT !.kind = kd].kind = kd
  /\ \A p \in Prints \cup {NoPrint} :
        /\ [NoAnswer EXCEPT !.kind = "replay", !.body = p] \in AnswerType
        /\ [NoAnswer EXCEPT !.kind = "replay", !.body = p].body = p
        /\ [NoAnswer EXCEPT !.kind = "ran", !.body = p] \in AnswerType
        /\ [NoAnswer EXCEPT !.kind = "ran", !.body = p].kind = "ran"
  BY DEF NoAnswer, AnswerType, AnswerKinds

\* A request that ends with an answer other than a replay.
Ends(w) ==
    /\ ProcsTyped' /\ Moves(w) /\ pc'[w] = "idle" /\ mine'[w] = 0
    /\ print'[w] = print[w]
    /\ answer'[w].kind # "replay" \/ answer'[w] = answer[w]

LEMMA UnavailableEnds ==
  ASSUME ProcsTyped, NEW w \in Workers, Unavailable(w)
  PROVE  Ends(w)
  BY AnswerMoves, AnswersTyped DEF Unavailable, Ends, AnswerKinds

\* A request that goes on, with the row and the status it remembers.
Goes(w, step, id, st) ==
    /\ ProcsTyped' /\ Moves(w) /\ pc'[w] = step
    /\ key'[w] = key[w] /\ print'[w] = print[w] /\ t0'[w] = t0[w]
    /\ answer'[w] = answer[w]
    /\ mine'[w] = id /\ from'[w] = st

LEMMA GotoGoes ==
  ASSUME ProcsTyped, NEW w \in Workers, NEW step \in Claiming \cup Executing,
         pc[w] # "idle", Goto(w, step),
         NEW id \in Nat, NEW st \in RowStatuses \cup {"none"},
         mine' = [mine EXCEPT ![w] = id], from' = [from EXCEPT ![w] = st]
  PROVE  Goes(w, step, id, st)
  BY DEF ProcsTyped, Moves, Goto, Goes

-----------------------------------------------------------------------------
(* The invariant behind ReplayIsOwn.  A request that remembers a row by its *)
(* id has seen its own fingerprint in it, ids are never used again and a    *)
(* row keeps its fingerprint; so a stored response was stored by a request  *)
(* with the fingerprint of the row.                                         *)

\* Where a request remembers a row it has read or made.
Holding == {"reclaimExpired", "reclaim"} \cup Executing

RequestOK(w) ==
    /\ mine[w] <= lastId
    /\ pc[w] \in Holding =>
          /\ mine[w] # 0
          /\ rows[key[w]].id = mine[w] => rows[key[w]].print = print[w]
    /\ answer[w].kind = "replay" => answer[w].body = print[w]

RowOK(k) ==
    /\ rows[k].id <= lastId
    /\ rows[k].status = "succeeded" => rows[k].body = rows[k].print

OwnInv == /\ TypeOK
          /\ \A w \in Workers : RequestOK(w)
          /\ \A k \in Keys : RowOK(k)

\* A row is still the same request's, or gone, or new.
RowKept(k) == \/ rows'[k].id = rows[k].id /\ rows'[k].print = rows[k].print
              \/ rows'[k].id = 0
              \/ rows'[k].id = lastId + 1

\* The rest of the state keeps its type.
RestTyped == /\ rows \in [Keys -> RowType] /\ lastId \in Nat /\ clock \in Nat
             /\ wins \in [Keys -> Nat] /\ faults \in FaultLog

LEMMA TypesSplit == TypeOK <=> RestTyped /\ ProcsTyped
  BY TypeParts DEF RestTyped

\* A request that does not move keeps its part.
LEMMA RequestKept ==
  ASSUME OwnInv, lastId' \in {lastId, lastId + 1}, \A k \in Keys : RowKept(k),
         NEW v \in Workers, pc'[v] = pc[v], key'[v] = key[v], print'[v] = print[v],
         mine'[v] = mine[v], answer'[v] = answer[v]
  PROVE  RequestOK(v)'
  <1>1. mine[v] \in Nat /\ lastId \in Nat /\ RequestOK(v)
    BY DEF OwnInv, TypeOK, StoreTypeOK
  <1>2. pc[v] \in Holding => key[v] \in Keys
    BY DEF OwnInv, TypeOK, Holding, Executing
  <1>3. pc[v] \in Holding => RowKept(key[v])
    BY <1>2
  <1> QED
    BY <1>1, <1>3 DEF RequestOK, RowKept

\* What a step of w has to show: everybody else's part follows.
LEMMA OthersKept ==
  ASSUME OwnInv, NEW w \in Workers, Moves(w), ProcsTyped', RestTyped',
         lastId' \in {lastId, lastId + 1}, \A k \in Keys : RowKept(k),
         RequestOK(w)', \A k \in Keys : RowOK(k)'
  PROVE  OwnInv'
  <1>1. TypeOK'
    BY DEF TypeOK, StoreTypeOK, RowType, ProcsTyped, AnswerType, RestTyped
  <1>2. ASSUME NEW v \in Workers, v # w PROVE RequestOK(v)'
    BY <1>2, RequestKept DEF Moves
  <1> QED
    BY <1>1, <1>2 DEF OwnInv

\* A step that changes no row.
LEMMA RowsKept ==
  ASSUME OwnInv, NEW w \in Workers, Moves(w), ProcsTyped', UNCHANGED <<rows, lastId>>,
         clock' \in Nat, wins' \in [Keys -> Nat], faults' \in FaultLog,
         RequestOK(w)'
  PROVE  OwnInv'
  <1>1. RestTyped'
    BY TypesSplit DEF OwnInv, RestTyped
  <1>2. \A k \in Keys : RowKept(k) /\ RowOK(k)'
    BY DEF OwnInv, RowOK, RowKept
  <1> QED
    BY <1>1, <1>2, OthersKept

\* A request that ends keeps its part.
LEMMA EndsOK ==
  ASSUME OwnInv, NEW w \in Workers, Ends(w), lastId' \in {lastId, lastId + 1}
  PROVE  RequestOK(w)'
  <1>1. lastId \in Nat /\ RequestOK(w)
    BY DEF OwnInv, TypeOK, StoreTypeOK
  <1> QED
    BY <1>1 DEF Ends, RequestOK, Holding, Executing

\* So does one that goes on where it remembers no row.
LEMMA GoesOK ==
  ASSUME OwnInv, NEW w \in Workers, NEW step, NEW id, NEW st, Goes(w, step, id, st),
         lastId' \in {lastId, lastId + 1}, id <= lastId',
         step \in Holding => /\ id # 0
                             /\ rows'[key[w]].id = id => rows'[key[w]].print = print[w]
  PROVE  RequestOK(w)'
  <1>1. RequestOK(w)
    BY DEF OwnInv
  <1> QED
    BY <1>1 DEF Goes, RequestOK

LEMMA FaultCounts ==
  ASSUME faults \in FaultLog, NEW f, Fault(f)
  PROVE  faults' \in FaultLog
  BY FaultAssumption DEF Fault, FaultLog

-----------------------------------------------------------------------------
(* Each action keeps the invariant.                                        *)

LEMMA StartOwn ==
  ASSUME OwnInv, NEW w \in Workers, NEW k \in Keys, NEW p \in Prints, Start(w, k, p)
  PROVE  OwnInv'
  <1>1. RestTyped /\ ProcsTyped
    BY TypesSplit DEF OwnInv
  <1>2. NoAnswer \in AnswerType /\ NoAnswer.kind = "none"
    BY DEF NoAnswer, AnswerType, AnswerKinds
  <1>3. ProcsTyped'
    BY <1>1, <1>2 DEF ProcsTyped, Start, RestTyped, Claiming
  <1>4. Moves(w) /\ pc'[w] = "create" /\ answer'[w] = NoAnswer /\ mine'[w] = mine[w]
    BY <1>1 DEF ProcsTyped, Moves, Start
  <1>5. RequestOK(w)'
    <2>1. RequestOK(w)
      BY DEF OwnInv
    <2> QED
      BY <2>1, <1>2, <1>4 DEF RequestOK, Holding, Executing, Start, table
  <1>6. UNCHANGED <<rows, lastId, clock, wins, faults>>
    BY DEF Start, table
  <1> QED
    BY <1>1, <1>3, <1>4, <1>5, <1>6, RowsKept DEF RestTyped

LEMMA CreateOwn ==
  ASSUME OwnInv, NEW w \in Workers, Create(w)
  PROVE  OwnInv'
  <1> DEFINE k == key[w]
  <1>1. RestTyped /\ ProcsTyped /\ pc[w] = "create" /\ clock' = clock
    BY TypesSplit DEF OwnInv, Create
  <1>2. k \in Keys /\ print[w] \in Prints /\ t0[w] + LockTime \in Nat
        /\ t0[w] + TTL \in Nat /\ mine[w] \in Nat /\ from[w] \in RowStatuses \cup {"none"}
    BY <1>1, TimeAssumption DEF ProcsTyped
  <1>3. ASSUME CreateProcessing(k, print[w], t0[w] + LockTime, t0[w] + TTL),
               wins' = [wins EXCEPT ![k] = 0],
               \/ /\ Goto(w, "execute") /\ mine' = [mine EXCEPT ![w] = lastId + 1]
                  /\ UNCHANGED <<from, faults>>
               \/ Fault("lost") /\ Unavailable(w)
        PROVE  OwnInv'
    <2>1. /\ rows' \in [Keys -> RowType] /\ lastId' = lastId + 1
          /\ rows[k].id = 0
          /\ rows'[k].id = lastId + 1 /\ rows'[k].print = print[w]
          /\ rows'[k].status = "processing"
          /\ \A j \in Keys : j # k => rows'[j] = rows[j]
      BY <1>1, <1>2, <1>3, CreateRow DEF RestTyped
    <2>2. lastId \in Nat /\ lastId' \in Nat
      BY <1>1, <2>1 DEF RestTyped
    <2>3. \A j \in Keys : RowKept(j) /\ RowOK(j)'
      <3> SUFFICES ASSUME NEW j \in Keys PROVE RowKept(j) /\ RowOK(j)'
        OBVIOUS
      <3>1. RowOK(j) /\ rows[j].id \in Nat
        BY <1>1, RowsTyped DEF OwnInv, RestTyped
      <3> QED
        BY <3>1, <2>1, <2>2 DEF RowOK, RowKept
    <2>4. faults' \in FaultLog /\ wins' \in [Keys -> Nat]
      BY <1>1, <1>3, FaultCounts DEF RestTyped
    <2>5. RestTyped'
      BY <1>1, <2>1, <2>2, <2>4 DEF RestTyped
    <2>6. CASE Goto(w, "execute") /\ mine' = [mine EXCEPT ![w] = lastId + 1]
               /\ UNCHANGED <<from, faults>>
      <3>1. from' = [from EXCEPT ![w] = from[w]]
        BY <2>6, <1>1 DEF ProcsTyped
      <3>2. Goes(w, "execute", lastId + 1, from[w])
        BY <1>1, <1>2, <2>1, <2>2, <2>6, <3>1, GotoGoes DEF Claiming, Executing
      <3>3. RequestOK(w)'
        BY <1>2, <2>1, <2>2, <3>2, GoesOK
      <3> QED
        BY <2>1, <2>3, <2>5, <3>2, <3>3, OthersKept DEF Goes
    <2>7. CASE Fault("lost") /\ Unavailable(w)
      <3>1. Ends(w)
        BY <1>1, <2>7, UnavailableEnds
      <3> QED
        BY <2>1, <2>3, <2>5, <3>1, EndsOK, OthersKept DEF Ends
    <2> QED
      BY <1>3, <2>6, <2>7
  <1>4. ASSUME Goto(w, "get"), UNCHANGED <<table, mine, from, wins, faults>>
        PROVE  OwnInv'
    <2>1. mine' = [mine EXCEPT ![w] = mine[w]] /\ from' = [from EXCEPT ![w] = from[w]]
      BY <1>4, <1>1 DEF ProcsTyped
    <2>2. Goes(w, "get", mine[w], from[w])
      BY <1>1, <1>2, <1>4, <2>1, GotoGoes DEF Claiming
    <2>3. UNCHANGED <<rows, lastId, wins, faults>>
      BY <1>4 DEF table
    <2>4. RequestOK(w)'
      <3>1. mine[w] <= lastId' /\ "get" \notin Holding
        BY <2>3 DEF OwnInv, RequestOK, Holding, Executing
      <3> QED
        BY <2>2, <2>3, <3>1, GoesOK
    <2> QED
      BY <1>1, <2>2, <2>3, <2>4, RowsKept DEF Goes, RestTyped
  <1> QED
    BY <1>3, <1>4 DEF Create

LEMMA ReplayEnds ==
  ASSUME ProcsTyped, NEW w \in Workers, NEW p \in Prints \cup {NoPrint}, p = print[w],
         Answer(w, [NoAnswer EXCEPT !.kind = "replay", !.body = p])
  PROVE  /\ ProcsTyped' /\ Moves(w) /\ pc'[w] = "idle" /\ mine'[w] = 0
         /\ answer'[w].body = print'[w]
  BY AnswerMoves, AnswersTyped

LEMMA OtherEnds ==
  ASSUME ProcsTyped, NEW w \in Workers, NEW kd \in AnswerKinds, kd # "replay",
         Answer(w, [NoAnswer EXCEPT !.kind = kd])
  PROVE  Ends(w)
  <1> DEFINE a == [NoAnswer EXCEPT !.kind = kd]
  <1>1. a \in AnswerType /\ a.kind = kd /\ Answer(w, a)
    BY AnswersTyped
  <1> HIDE DEF a
  <1>2. ProcsTyped' /\ Moves(w) /\ pc'[w] = "idle" /\ mine'[w] = 0
        /\ print'[w] = print[w] /\ answer'[w] = a
    BY <1>1, AnswerMoves
  <1> QED
    BY <1>1, <1>2 DEF Ends

\* After a read that found the request's own fingerprint.
LEMMA DecideOwn ==
  ASSUME OwnInv, NEW w \in Workers, pc[w] \in {"get", "reread"}, key[w] \in Keys,
         rows[key[w]].id # 0, rows[key[w]].print = print[w], Decide(w, rows[key[w]]),
         UNCHANGED <<rows, lastId>>
  PROVE  ProcsTyped' /\ Moves(w) /\ RequestOK(w)'
  <1> DEFINE row == rows[key[w]]
  <1>1. ProcsTyped /\ RowOK(key[w]) /\ row.id \in Nat /\ lastId \in Nat
        /\ row.body \in Prints \cup {NoPrint}
    BY TypesSplit, RowsTyped DEF OwnInv, RestTyped
  <1>2. CASE row.status = "succeeded"
             /\ Answer(w, [NoAnswer EXCEPT !.kind = "replay", !.body = row.body])
    <2>1. row.body = print[w]
      BY <1>1, <1>2 DEF RowOK
    <2>2. /\ ProcsTyped' /\ Moves(w) /\ pc'[w] = "idle" /\ mine'[w] = 0
          /\ answer'[w].body = print'[w]
      BY <1>1, <1>2, <2>1, ReplayEnds
    <2> QED
      BY <1>1, <2>2 DEF RequestOK, Holding, Executing
  <1>3. CASE Unavailable(w)
    BY <1>1, <1>3, UnavailableEnds, EndsOK DEF Ends
  <1>4. CASE \/ Answer(w, [NoAnswer EXCEPT !.kind = "inProgress"])
             \/ Answer(w, [NoAnswer EXCEPT !.kind = "backoff"])
    <2>1. Ends(w)
      BY <1>1, <1>4, OtherEnds DEF AnswerKinds
    <2> QED
      BY <2>1, EndsOK DEF Ends
  <1>5. CASE /\ Goto(w, "reclaim") /\ mine' = [mine EXCEPT ![w] = row.id]
             /\ from' = [from EXCEPT ![w] = "failed_retryable"]
    <2>1. Goes(w, "reclaim", row.id, "failed_retryable")
      BY <1>1, <1>5, GotoGoes DEF Claiming, RowStatuses
    <2>2. row.id <= lastId'
      BY <1>1 DEF RowOK
    <2>3. RequestOK(w)'
      BY <1>1, <2>1, <2>2, GoesOK
    <2> QED
      BY <2>1, <2>3 DEF Goes
  <1> QED
    BY <1>2, <1>3, <1>4, <1>5 DEF Decide

LEMMA GetExistingOwn ==
  ASSUME OwnInv, NEW w \in Workers, GetExisting(w)
  PROVE  OwnInv'
  <1> DEFINE row == rows[key[w]]
  <1>1. RestTyped /\ ProcsTyped /\ pc[w] = "get" /\ key[w] \in Keys
        /\ UNCHANGED <<rows, lastId, clock, wins, faults>>
    BY TypesSplit DEF OwnInv, GetExisting, ProcsTyped, table
  <1>2. ProcsTyped' /\ Moves(w) /\ RequestOK(w)'
    <2>1. CASE Unavailable(w) \/ Mismatch(w)
      <3>1. Ends(w)
        BY <1>1, <2>1, UnavailableEnds, OtherEnds DEF Mismatch, AnswerKinds
      <3> QED
        BY <1>1, <3>1, EndsOK DEF Ends
    <2>2. CASE /\ row.id # 0 /\ SamePrint(w, row) /\ Goto(w, "reclaimExpired")
               /\ mine' = [mine EXCEPT ![w] = row.id]
               /\ from' = [from EXCEPT ![w] = row.status]
      <3>1. row.id \in Nat /\ lastId \in Nat /\ row.status \in RowStatuses \cup {"none"}
            /\ RowOK(key[w])
        BY <1>1, RowsTyped DEF OwnInv, RestTyped
      <3>2. Goes(w, "reclaimExpired", row.id, row.status)
        BY <1>1, <2>2, <3>1, GotoGoes DEF Claiming
      <3>3. row.id <= lastId'
        BY <1>1, <3>1 DEF RowOK
      <3>4. RequestOK(w)'
        BY <1>1, <2>2, <3>2, <3>3, GoesOK DEF SamePrint
      <3> QED
        BY <3>2, <3>4 DEF Goes
    <2>3. CASE row.id # 0 /\ SamePrint(w, row) /\ Decide(w, row)
      BY <1>1, <2>3, DecideOwn DEF SamePrint
    <2> QED
      BY <2>1, <2>2, <2>3 DEF GetExisting
  <1> QED
    BY <1>1, <1>2, RowsKept DEF RestTyped

LEMMA RereadOwn ==
  ASSUME OwnInv, NEW w \in Workers, Reread(w)
  PROVE  OwnInv'
  <1> DEFINE row == rows[key[w]]
  <1>1. RestTyped /\ ProcsTyped /\ pc[w] = "reread" /\ key[w] \in Keys
        /\ UNCHANGED <<rows, lastId, clock, wins, faults>>
    BY TypesSplit DEF OwnInv, Reread, ProcsTyped, table
  <1>2. ProcsTyped' /\ Moves(w) /\ RequestOK(w)'
    <2>1. CASE Unavailable(w) \/ Mismatch(w)
      <3>1. Ends(w)
        BY <1>1, <2>1, UnavailableEnds, OtherEnds DEF Mismatch, AnswerKinds
      <3> QED
        BY <1>1, <3>1, EndsOK DEF Ends
    <2>2. CASE row.id # 0 /\ SamePrint(w, row) /\ Decide(w, row)
      BY <1>1, <2>2, DecideOwn DEF SamePrint
    <2> QED
      BY <2>1, <2>2 DEF Reread
  <1> QED
    BY <1>1, <1>2, RowsKept DEF RestTyped

\* A reclaimed row keeps its id and its fingerprint.
LEMMA TakeOverOwn ==
  ASSUME OwnInv, NEW w \in Workers, pc[w] \in {"reclaimExpired", "reclaim"},
         TakeOver(w), UNCHANGED <<lastId, clock>>, wins' \in [Keys -> Nat]
  PROVE  OwnInv'
  <1> DEFINE k == key[w]
  <1>1. RestTyped /\ ProcsTyped /\ RequestOK(w)
    BY TypesSplit DEF OwnInv
  <1>2. k \in Keys /\ t0[w] + LockTime \in Nat /\ t0[w] + TTL \in Nat
        /\ mine[w] \in Nat /\ from[w] \in RowStatuses \cup {"none"}
    BY <1>1, TimeAssumption DEF ProcsTyped
  <1>3. /\ rows' \in [Keys -> RowType]
        /\ rows'[k].id = rows[k].id /\ rows'[k].print = rows[k].print
        /\ rows'[k].status = "processing"
        /\ \A j \in Keys : j # k => rows'[j] = rows[j]
    BY <1>1, <1>2, ReclaimRow DEF RestTyped, TakeOver
  <1>4. \A j \in Keys : RowKept(j) /\ RowOK(j)'
    BY <1>3 DEF OwnInv, RowOK, RowKept
  <1>5. faults' \in FaultLog
    BY <1>1, FaultCounts DEF RestTyped, TakeOver
  <1>6. RestTyped'
    BY <1>1, <1>3, <1>5 DEF RestTyped
  <1>7. CASE Goto(w, "execute") /\ UNCHANGED <<mine, from, faults>>
    <2>1. mine' = [mine EXCEPT ![w] = mine[w]] /\ from' = [from EXCEPT ![w] = from[w]]
      BY <1>1, <1>7 DEF ProcsTyped
    <2>2. Goes(w, "execute", mine[w], from[w])
      BY <1>1, <1>2, <1>7, <2>1, GotoGoes DEF Executing
    <2>3. RequestOK(w)'
      BY <1>1, <1>3, <2>2, GoesOK DEF RequestOK, Holding
    <2> QED
      BY <1>4, <1>6, <2>2, <2>3, OthersKept DEF Goes
  <1>8. CASE Fault("lost") /\ Unavailable(w)
    BY <1>1, <1>4, <1>6, <1>8, UnavailableEnds, EndsOK, OthersKept DEF Ends
  <1> QED
    BY <1>7, <1>8 DEF TakeOver

LEMMA ReclaimExpiredOwn ==
  ASSUME OwnInv, NEW w \in Workers, ReclaimExpired(w)
  PROVE  OwnInv'
  <1>1. RestTyped /\ ProcsTyped /\ RequestOK(w) /\ pc[w] = "reclaimExpired"
        /\ UNCHANGED <<lastId, clock>>
    BY TypesSplit DEF OwnInv, ReclaimExpired
  <1>2. CASE TakeOver(w) /\ wins' = IF Expired(key[w]) THEN [wins EXCEPT ![key[w]] = 0]
                                    ELSE wins
    <2>1. wins' \in [Keys -> Nat]
      BY <1>1, <1>2 DEF RestTyped
    <2> QED
      BY <1>1, <1>2, <2>1, TakeOverOwn
  <1>3. CASE Goto(w, "reread") /\ UNCHANGED <<rows, mine, from, wins, faults>>
    <2>1. mine' = [mine EXCEPT ![w] = mine[w]] /\ from' = [from EXCEPT ![w] = from[w]]
      BY <1>1, <1>3 DEF ProcsTyped
    <2>2. mine[w] \in Nat /\ from[w] \in RowStatuses \cup {"none"}
      BY <1>1 DEF ProcsTyped
    <2>3. Goes(w, "reread", mine[w], from[w])
      BY <1>1, <1>3, <2>1, <2>2, GotoGoes DEF Claiming
    <2>4. RequestOK(w)'
      BY <1>1, <2>3, GoesOK DEF RequestOK, Holding, Executing
    <2> QED
      BY <1>1, <1>3, <2>3, <2>4, RowsKept DEF Goes, RestTyped
  <1> QED
    BY <1>2, <1>3 DEF ReclaimExpired

LEMMA ReclaimFailedOwn ==
  ASSUME OwnInv, NEW w \in Workers, ReclaimFailed(w)
  PROVE  OwnInv'
  <1>1. RestTyped /\ ProcsTyped /\ pc[w] = "reclaim" /\ UNCHANGED <<lastId, clock, wins>>
    BY TypesSplit DEF OwnInv, ReclaimFailed
  <1>2. CASE TakeOver(w)
    BY <1>1, <1>2, TakeOverOwn DEF RestTyped
  <1>3. CASE Answer(w, [NoAnswer EXCEPT !.kind = "inProgress"]) /\ UNCHANGED <<rows, faults>>
    <2>1. Ends(w)
      BY <1>1, <1>3, OtherEnds DEF AnswerKinds
    <2> QED
      BY <1>1, <1>3, <2>1, EndsOK, RowsKept DEF Ends, RestTyped
  <1> QED
    BY <1>2, <1>3 DEF ReclaimFailed

LEMMA ExecuteOwn ==
  ASSUME OwnInv, NEW w \in Workers, Execute(w)
  PROVE  OwnInv'
  <1>1. RestTyped /\ ProcsTyped /\ RequestOK(w) /\ pc[w] = "execute" /\ key[w] \in Keys
        /\ UNCHANGED <<rows, lastId, clock, mine, from, faults>>
    BY TypesSplit DEF OwnInv, Execute, ProcsTyped, table
  <1>2. PICK step \in {"succeed", "fail"} : Goto(w, step)
    BY DEF Execute
  <1>3. wins' \in [Keys -> Nat]
    BY <1>1 DEF RestTyped, Execute
  <1>4. mine' = [mine EXCEPT ![w] = mine[w]] /\ from' = [from EXCEPT ![w] = from[w]]
        /\ mine[w] \in Nat /\ from[w] \in RowStatuses \cup {"none"}
    BY <1>1 DEF ProcsTyped
  <1>5. Goes(w, step, mine[w], from[w])
    BY <1>1, <1>2, <1>4, GotoGoes DEF Executing
  <1>6. RequestOK(w)'
    BY <1>1, <1>5, GoesOK DEF RequestOK, Holding, Executing
  <1> QED
    BY <1>1, <1>3, <1>5, <1>6, RowsKept DEF Goes, RestTyped

LEMMA StoreSuccessOwn ==
  ASSUME OwnInv, NEW w \in Workers, StoreSuccess(w)
  PROVE  OwnInv'
  <1> DEFINE k == key[w]
  <1>1. RestTyped /\ ProcsTyped /\ RequestOK(w) /\ pc[w] = "succeed" /\ k \in Keys
        /\ print[w] \in Prints /\ t0[w] + TTL \in Nat /\ UNCHANGED <<lastId, clock, wins>>
    BY TypesSplit, TimeAssumption DEF OwnInv, StoreSuccess, ProcsTyped
  <1>2. PICK r \in BOOLEAN : MarkSucceeded(k, mine[w], print[w], r, t0[w] + TTL)
    BY DEF StoreSuccess
  <1>3. /\ rows' \in [Keys -> RowType]
        /\ rows'[k].id = rows[k].id /\ rows'[k].print = rows[k].print
        /\ rows[k].id = mine[w] => rows'[k].status = "succeeded" /\ rows'[k].body = print[w]
        /\ rows[k].id # mine[w] => rows'[k] = rows[k]
        /\ \A j \in Keys : j # k => rows'[j] = rows[j]
    <2> DEFINE id == mine[w]
               b  == print[w]
               e  == t0[w] + TTL
    <2>1. MarkSucceeded(k, id, b, r, e) /\ b \in Prints /\ e \in Nat /\ k \in Keys
          /\ rows \in [Keys -> RowType]
      BY <1>1, <1>2 DEF RestTyped
    <2> HIDE DEF id, b, e, k
    <2>2. /\ rows' \in [Keys -> RowType]
          /\ rows'[k].id = rows[k].id /\ rows'[k].print = rows[k].print
          /\ rows[k].id = id => rows'[k].status = "succeeded" /\ rows'[k].body = b
          /\ rows[k].id # id => rows'[k] = rows[k]
          /\ \A j \in Keys : j # k => rows'[j] = rows[j]
      BY <2>1, SucceededRow
    <2> QED
      BY <2>2 DEF id, b, k
  <1>4. rows[k].id = mine[w] => rows[k].print = print[w]
    BY <1>1 DEF RequestOK, Holding, Executing
  <1>5. \A j \in Keys : RowKept(j) /\ RowOK(j)'
    BY <1>1, <1>3, <1>4 DEF OwnInv, RowOK, RowKept
  <1>6. faults' \in FaultLog
    BY <1>1, FaultCounts DEF RestTyped, StoreSuccess
  <1>7. RestTyped'
    BY <1>1, <1>3, <1>6 DEF RestTyped
  <1>8. Ends(w)
    <2>1. CASE Answer(w, [NoAnswer EXCEPT !.kind = "ran", !.body = print[w]])
      <3> DEFINE a == [NoAnswer EXCEPT !.kind = "ran", !.body = print[w]]
      <3>1. a \in AnswerType /\ a.kind = "ran" /\ Answer(w, a)
        BY <1>1, <2>1, AnswersTyped
      <3> HIDE DEF a
      <3>2. ProcsTyped' /\ Moves(w) /\ pc'[w] = "idle" /\ mine'[w] = 0
            /\ print'[w] = print[w] /\ answer'[w] = a
        BY <1>1, <3>1, AnswerMoves
      <3> QED
        BY <3>1, <3>2 DEF Ends
    <2>2. CASE Unavailable(w)
      BY <1>1, <2>2, UnavailableEnds
    <2> QED
      BY <2>1, <2>2 DEF StoreSuccess
  <1> QED
    BY <1>1, <1>5, <1>7, <1>8, EndsOK, OthersKept DEF Ends

LEMMA StoreFailureOwn ==
  ASSUME OwnInv, NEW w \in Workers, StoreFailure(w)
  PROVE  OwnInv'
  <1> DEFINE k == key[w]
  <1>1. RestTyped /\ ProcsTyped /\ pc[w] = "fail" /\ k \in Keys
        /\ clock + Backoff \in Nat /\ t0[w] + TTL \in Nat
        /\ UNCHANGED <<lastId, clock, wins>>
    BY TypesSplit, TimeAssumption DEF OwnInv, StoreFailure, ProcsTyped, RestTyped
  <1>2. Ends(w)
    BY <1>1, OtherEnds DEF StoreFailure, AnswerKinds
  <1>3. RequestOK(w)'
    BY <1>1, <1>2, EndsOK
  <1>4. CASE MarkFailedRetryable(k, mine[w], clock + Backoff, t0[w] + TTL)
             /\ UNCHANGED faults
    <2>1. /\ rows' \in [Keys -> RowType]
          /\ rows'[k].id = rows[k].id /\ rows'[k].print = rows[k].print
          /\ rows[k].id = mine[w] => rows'[k].status = "failed_retryable"
          /\ rows[k].id # mine[w] => rows'[k] = rows[k]
          /\ \A j \in Keys : j # k => rows'[j] = rows[j]
      BY <1>1, <1>4, FailedRow DEF RestTyped
    <2>2. \A j \in Keys : RowKept(j) /\ RowOK(j)'
      BY <1>1, <2>1 DEF OwnInv, RowOK, RowKept
    <2>3. RestTyped'
      BY <1>1, <1>4, <2>1 DEF RestTyped
    <2> QED
      BY <1>1, <1>2, <1>3, <2>2, <2>3, OthersKept DEF Ends
  <1>5. CASE UNCHANGED rows /\ Fault("db")
    BY <1>1, <1>2, <1>3, <1>5, FaultCounts, RowsKept DEF Ends, RestTyped
  <1> QED
    BY <1>4, <1>5 DEF StoreFailure

LEMMA StatementFailsOwn ==
  ASSUME OwnInv, NEW w \in Workers, StatementFails(w)
  PROVE  OwnInv'
  <1>1. RestTyped /\ ProcsTyped /\ UNCHANGED <<rows, lastId, clock, wins>> /\ Fault("db")
    BY TypesSplit DEF OwnInv, StatementFails, table
  <1>2. Ends(w)
    BY <1>1, UnavailableEnds DEF StatementFails
  <1> QED
    BY <1>1, <1>2, FaultCounts, EndsOK, RowsKept DEF Ends, RestTyped

LEMMA CrashOwn ==
  ASSUME OwnInv, NEW w \in Workers, Crash(w)
  PROVE  OwnInv'
  <1>1. RestTyped /\ ProcsTyped /\ UNCHANGED <<rows, lastId, clock, wins>> /\ Fault("crash")
    BY TypesSplit DEF OwnInv, Crash, table
  <1>2. Ends(w)
    BY <1>1, LeaveMoves DEF Crash, Ends
  <1> QED
    BY <1>1, <1>2, FaultCounts, EndsOK, RowsKept DEF Ends, RestTyped

\* Steps of the cleanup job and of time.
LEMMA NobodyMoves ==
  ASSUME OwnInv, UNCHANGED <<procs, answer>>, lastId' = lastId, RestTyped',
         \A k \in Keys : RowKept(k) /\ RowOK(k)'
  PROVE  OwnInv'
  <1>1. ProcsTyped' /\ \A v \in Workers : RequestOK(v)'
    <2>1. UNCHANGED <<pc, key, print, t0, mine, from, answer>>
      BY DEF procs
    <2>2. ProcsTyped'
      BY <2>1, TypesSplit DEF OwnInv, ProcsTyped
    <2> QED
      BY <2>1, <2>2, RequestKept
  <1>2. TypeOK'
    BY <1>1 DEF TypeOK, StoreTypeOK, RowType, ProcsTyped, AnswerType, RestTyped
  <1> QED
    BY <1>1, <1>2 DEF OwnInv

LEMMA CleanupOwn ==
  ASSUME OwnInv, NEW k \in Keys, Cleanup(k)
  PROVE  OwnInv'
  <1>1. RestTyped /\ UNCHANGED <<clock, procs, answer, wins, faults>> /\ lastId \in Nat
    BY TypesSplit DEF OwnInv, Cleanup, RestTyped
  <1>2. /\ rows' \in [Keys -> RowType] /\ lastId' = lastId
        /\ rows'[k].id = 0 /\ rows'[k].status = "none"
        /\ \A j \in Keys : j # k => rows'[j] = rows[j]
    BY <1>1, DeletedRow DEF RestTyped, Cleanup
  <1>3. \A j \in Keys : RowKept(j) /\ RowOK(j)'
    BY <1>1, <1>2 DEF OwnInv, RowOK, RowKept
  <1>4. RestTyped'
    BY <1>1, <1>2 DEF RestTyped
  <1> QED
    BY <1>1, <1>2, <1>3, <1>4, NobodyMoves

LEMMA TickOwn ==
  ASSUME OwnInv, Tick
  PROVE  OwnInv'
  <1>1. RestTyped /\ UNCHANGED <<rows, lastId, procs, answer, wins>>
    BY TypesSplit DEF OwnInv, Tick, table
  <1>f. faults' \in FaultLog
    BY <1>1, FaultCounts DEF Tick, RestTyped
  <1>2. RestTyped'
    BY <1>1, <1>f DEF RestTyped, Tick
  <1>3. \A j \in Keys : RowKept(j) /\ RowOK(j)'
    BY <1>1 DEF OwnInv, RowOK, RowKept
  <1> QED
    BY <1>1, <1>2, <1>3, NobodyMoves

LEMMA OwnStep ==
  ASSUME OwnInv, [Next]_vars
  PROVE  OwnInv'
  <1>1. CASE UNCHANGED vars
    <2>1. UNCHANGED <<rows, lastId, clock, pc, key, print, t0, mine, from, answer, wins, faults>>
      BY <1>1 DEF vars, procs
    <2>2. RestTyped' /\ \A k \in Keys : RowKept(k) /\ RowOK(k)'
      BY <2>1, TypesSplit DEF OwnInv, RestTyped, RowKept, RowOK
    <2> QED
      BY <2>1, <2>2, NobodyMoves DEF procs
  <1>2. ASSUME NEW w \in Workers, Worker(w) PROVE OwnInv'
    BY <1>2, StartOwn, CreateOwn, GetExistingOwn, ReclaimExpiredOwn, RereadOwn,
       ReclaimFailedOwn, ExecuteOwn, StoreSuccessOwn, StoreFailureOwn, StatementFailsOwn,
       CrashOwn DEF Worker
  <1>3. ASSUME NEW k \in Keys, Cleanup(k) PROVE OwnInv'
    BY <1>3, CleanupOwn
  <1>4. CASE Tick
    BY <1>4, TickOwn
  <1> QED
    BY <1>1, <1>2, <1>3, <1>4 DEF Next

LEMMA OwnInit ==
  ASSUME Init
  PROVE  OwnInv
  <1>1. \A k \in Keys : rows[k] = NoRow
    BY DEF Init, StoreInit
  <1>2. NoRow.id = 0 /\ NoRow.status = "none"
    BY DEF NoRow
  <1>3. NoAnswer \in AnswerType /\ NoAnswer.kind = "none"
    BY DEF NoAnswer, AnswerType, AnswerKinds
  <1>4. RestTyped
    BY NoRowTyped, FaultAssumption DEF Init, StoreInit, RestTyped, FaultLog
  <1>5. ProcsTyped
    BY <1>3 DEF Init, ProcsTyped, RowStatuses
  <1>6. \A w \in Workers : RequestOK(w)
    <2>1. lastId = 0 /\ \A w \in Workers : /\ pc[w] = "idle" /\ mine[w] = 0
                                          /\ answer[w] = NoAnswer
      BY DEF Init, StoreInit
    <2> QED
      BY <1>3, <2>1 DEF RequestOK, Holding, Executing
  <1>7. \A k \in Keys : RowOK(k)
    <2>1. lastId = 0
      BY DEF Init, StoreInit
    <2>2. ASSUME NEW k \in Keys PROVE rows[k].id = 0 /\ rows[k].status = "none"
      <3>1. rows[k] = NoRow
        BY <1>1
      <3> QED
        BY <3>1, <1>2, Zenon
    <2>3. ASSUME NEW k \in Keys PROVE RowOK(k)
      <3>1. rows[k].id <= lastId
        BY <2>1, <2>2
      <3>2. rows[k].status # "succeeded"
        BY <2>2
      <3> QED
        BY <3>1, <3>2, Zenon DEF RowOK
    <2> QED
      BY <2>3
  <1> QED
    BY <1>4, <1>5, <1>6, <1>7, TypesSplit DEF OwnInv

\* A stored response carries the fingerprint of its row, and a request that
\* remembers a row remembers one with its own fingerprint (or one that is gone).
THEOREM OwnAlways == Spec => []OwnInv
  <1>1. Init => OwnInv
    BY OwnInit
  <1>2. OwnInv /\ [Next]_vars => OwnInv'
    BY OwnStep
  <1> QED
    BY <1>1, <1>2, PTL DEF Spec

\* Every variable of the coordinator and its table keeps its type.
THEOREM IdempotencyTypes == Spec => []TypeOK
  <1>1. OwnInv => TypeOK
    BY DEF OwnInv
  <1> QED
    BY <1>1, OwnAlways, PTL

\* A replayed response is one that the payload asking for it produced, with
\* any number of keys, requests and failures, however slow they are and
\* whatever the time limits.
THEOREM ReplayOwn == Spec => []ReplayIsOwn
  <1>1. OwnInv => ReplayIsOwn
    BY DEF OwnInv, RequestOK, ReplayIsOwn
  <1> QED
    BY <1>1, OwnAlways, PTL

-----------------------------------------------------------------------------
(* Who runs and what became of the rows.  The steps of a request, by what  *)
(* they do to its row, its claim and the count of successes.               *)

OthersSame(k) == \A j \in Keys : j # k => rows'[j] = rows[j]

Starts(w) == pc'[w] = "create" /\ t0'[w] = clock /\ UNCHANGED <<rows, clock, wins>>

\* The row becomes the request's, whether the reply arrives or not.
Claims(w) ==
    LET k == key[w] IN
    /\ pc[w] \in Claiming /\ k \in Keys /\ OthersSame(k) /\ UNCHANGED clock
    /\ rows'[k].id # 0 /\ rows'[k].status = "processing"
    /\ rows'[k].lockedUntil = t0[w] + LockTime /\ rows'[k].expiresAt = t0[w] + TTL
    /\ \/ /\ rows[k].id = 0
          /\ wins' = [wins EXCEPT ![k] = 0]
       \/ /\ pc[w] \in {"reclaimExpired", "reclaim"}
          /\ Reclaimable(k, mine[w], from[w], t0[w])
          /\ wins' = wins \/ (pc[w] = "reclaimExpired" /\ wins' = [wins EXCEPT ![k] = 0])
    /\ pc'[w] \in {"execute", "idle"}
    /\ pc'[w] = "execute" => /\ key'[w] = k /\ t0'[w] = t0[w]
                             /\ mine'[w] = rows'[k].id

\* The request goes on asking for the row.
Asks(w) ==
    LET k == key[w] IN
    /\ pc[w] \in Claiming /\ pc'[w] \in Claiming /\ k \in Keys
    /\ UNCHANGED <<rows, clock, wins>>
    /\ key'[w] = k /\ t0'[w] = t0[w]
    /\ pc'[w] = "reclaimExpired" => rows[k].id # 0 /\ rows[k].expiresAt <= t0[w]
    /\ pc'[w] = "reclaim" => from'[w] = "failed_retryable"

Runs(w) ==
    LET k == key[w] IN
    /\ pc[w] = "execute" /\ k \in Keys /\ UNCHANGED <<rows, clock>>
    /\ key'[w] = k /\ t0'[w] = t0[w] /\ mine'[w] = mine[w]
    /\ \/ pc'[w] = "succeed" /\ wins' = [wins EXCEPT ![k] = @ + 1]
       \/ pc'[w] = "fail" /\ UNCHANGED wins

Stores(w) ==
    LET k == key[w] IN
    /\ pc[w] \in {"succeed", "fail"} /\ pc'[w] = "idle" /\ k \in Keys
    /\ UNCHANGED <<clock, wins>> /\ OthersSame(k)
    /\ rows[k].id = mine[w]
    /\ rows'[k].id = rows[k].id /\ rows'[k].expiresAt = t0[w] + TTL
    /\ rows'[k].status = IF pc[w] = "succeed" THEN "succeeded" ELSE "failed_retryable"

Drops(w) == pc'[w] = "idle" /\ UNCHANGED <<rows, clock, wins>>

Kinds(w) == /\ Moves(w)
            /\ Starts(w) \/ Claims(w) \/ Asks(w) \/ Runs(w) \/ Stores(w) \/ Drops(w)

LEMMA ExtraTypes ==
  ASSUME OwnInv
  PROVE  /\ RestTyped /\ ProcsTyped /\ lastId \in Nat
         /\ \A w \in Workers : pc[w] # "idle" =>
               /\ key[w] \in Keys /\ print[w] \in Prints
               /\ t0[w] \in Nat /\ t0[w] + LockTime \in Nat /\ t0[w] + TTL \in Nat
               /\ mine[w] \in Nat /\ from[w] \in RowStatuses \cup {"none"}
  BY TypesSplit, TimeAssumption DEF OwnInv, ProcsTyped, RestTyped

LEMMA CreateKind ==
  ASSUME OwnInv, NEW w \in Workers, Create(w)
  PROVE  Kinds(w)
<1> DEFINE k == key[w]
<1>1. /\ RestTyped /\ ProcsTyped /\ pc[w] = "create" /\ clock' = clock
      /\ k \in Keys /\ print[w] \in Prints /\ t0[w] + LockTime \in Nat
      /\ t0[w] + TTL \in Nat /\ mine[w] \in Nat /\ from[w] \in RowStatuses \cup {"none"}
      /\ lastId \in Nat /\ pc[w] \in Claiming
  BY ExtraTypes DEF Create, Claiming
<1>2. ASSUME CreateProcessing(k, print[w], t0[w] + LockTime, t0[w] + TTL),
             wins' = [wins EXCEPT ![k] = 0],
             \/ /\ Goto(w, "execute") /\ mine' = [mine EXCEPT ![w] = lastId + 1]
                /\ UNCHANGED <<from, faults>>
             \/ Fault("lost") /\ Unavailable(w)
      PROVE  Kinds(w)
  <2>1. /\ rows[k].id = 0
        /\ rows'[k].id = lastId + 1 /\ rows'[k].status = "processing"
        /\ rows'[k].lockedUntil = t0[w] + LockTime /\ rows'[k].expiresAt = t0[w] + TTL
        /\ \A j \in Keys : j # k => rows'[j] = rows[j]
    BY <1>1, <1>2, CreateRow DEF RestTyped
  <2>2. CASE Goto(w, "execute") /\ mine' = [mine EXCEPT ![w] = lastId + 1]
             /\ UNCHANGED <<from, faults>>
    <3>1. from' = [from EXCEPT ![w] = from[w]]
      BY <2>2, <1>1 DEF ProcsTyped
    <3>0. lastId + 1 \in Nat
      BY <1>1
    <3>2. Goes(w, "execute", lastId + 1, from[w])
      BY <1>1, <2>2, <3>0, <3>1, GotoGoes DEF Claiming, Executing
    <3>3. Claims(w)
      BY <1>1, <1>2, <2>1, <3>2 DEF Claims, Goes, OthersSame
    <3> QED BY <3>2, <3>3 DEF Kinds, Goes
  <2>3. CASE Unavailable(w)
    <3>1. Ends(w)
      BY <1>1, <2>3, UnavailableEnds
    <3>2. Claims(w)
      BY <1>1, <1>2, <2>1, <3>1 DEF Claims, Ends, OthersSame
    <3> QED BY <3>1, <3>2 DEF Kinds, Ends
  <2> QED BY <1>2, <2>2, <2>3
<1>3. ASSUME Goto(w, "get"), UNCHANGED <<table, mine, from, wins, faults>>
      PROVE  Kinds(w)
  <2>1. mine' = [mine EXCEPT ![w] = mine[w]] /\ from' = [from EXCEPT ![w] = from[w]]
    BY <1>3, <1>1 DEF ProcsTyped
  <2>2. Goes(w, "get", mine[w], from[w])
    BY <1>1, <1>3, <2>1, GotoGoes DEF Claiming
  <2> QED BY <1>1, <1>3, <2>2 DEF Kinds, Asks, Goes, Claiming, table
<1> QED BY <1>2, <1>3 DEF Create

\* A read: the request asks on, or ends with an answer.
LEMMA ReadKind ==
  ASSUME OwnInv, NEW w \in Workers, GetExisting(w) \/ Reread(w)
  PROVE  Kinds(w)
<1> DEFINE k == key[w]
           row == rows[k]
<1>1. /\ RestTyped /\ ProcsTyped /\ pc[w] \in Claiming /\ pc[w] # "idle" /\ k \in Keys
      /\ UNCHANGED <<rows, clock, wins>> /\ row.id \in Nat
      /\ row.status \in RowStatuses \cup {"none"}
  BY ExtraTypes, RowsTyped DEF GetExisting, Reread, Claiming, table, RestTyped
<1>2. ASSUME NEW a \in AnswerType, Answer(w, a)
      PROVE  Kinds(w)
  BY <1>1, <1>2, AnswerMoves DEF Kinds, Drops
<1>3. ASSUME NEW step \in {"reclaimExpired", "reclaim"}, Goto(w, step),
             mine' = [mine EXCEPT ![w] = row.id],
             NEW st \in RowStatuses, st = "failed_retryable" \/ step # "reclaim",
             from' = [from EXCEPT ![w] = st],
             row.id # 0,
             step = "reclaimExpired" => row.expiresAt <= t0[w]
      PROVE  Kinds(w)
  <2>1. Goes(w, step, row.id, st)
    BY <1>1, <1>3, GotoGoes DEF Claiming
  <2> QED BY <1>1, <1>3, <2>1 DEF Kinds, Asks, Goes, Claiming
<1>4. row.body \in Prints \cup {NoPrint}
  BY <1>1, RowsTyped DEF RestTyped
<1>5. ASSUME Unavailable(w) \/ Mismatch(w)
      PROVE  Kinds(w)
  BY <1>2, <1>5, AnswersTyped DEF Unavailable, Mismatch, AnswerKinds
<1>6. ASSUME row.id # 0, Decide(w, row)
      PROVE  Kinds(w)
  <2>1. CASE Answer(w, [NoAnswer EXCEPT !.kind = "replay", !.body = row.body])
    BY <1>2, <1>4, <2>1, AnswersTyped
  <2>2. CASE \/ Answer(w, [NoAnswer EXCEPT !.kind = "inProgress"])
             \/ Answer(w, [NoAnswer EXCEPT !.kind = "backoff"])
    BY <1>2, <2>2, AnswersTyped DEF AnswerKinds
  <2>3. CASE /\ Goto(w, "reclaim") /\ mine' = [mine EXCEPT ![w] = row.id]
             /\ from' = [from EXCEPT ![w] = "failed_retryable"]
    BY <1>3, <1>6, <2>3 DEF RowStatuses
  <2> QED BY <1>5, <1>6, <2>1, <2>2, <2>3 DEF Decide
<1>7. ASSUME row.id # 0, StaleAtStart(w, row), Goto(w, "reclaimExpired"),
             mine' = [mine EXCEPT ![w] = row.id],
             from' = [from EXCEPT ![w] = row.status]
      PROVE  Kinds(w)
  <2>1. Goes(w, "reclaimExpired", row.id, row.status)
    BY <1>1, <1>7, GotoGoes DEF Claiming
  <2> QED BY <1>1, <1>7, <2>1 DEF Kinds, Asks, Goes, Claiming, StaleAtStart
<1> QED BY <1>5, <1>6, <1>7 DEF GetExisting, Reread

LEMMA ReclaimKind ==
  ASSUME OwnInv, NEW w \in Workers, ReclaimExpired(w) \/ ReclaimFailed(w)
  PROVE  Kinds(w)
<1> DEFINE k == key[w]
<1>1. /\ RestTyped /\ ProcsTyped /\ pc[w] \in {"reclaimExpired", "reclaim"}
      /\ pc[w] \in Claiming /\ clock' = clock
      /\ k \in Keys /\ t0[w] + LockTime \in Nat
      /\ t0[w] + TTL \in Nat /\ mine[w] \in Nat /\ from[w] \in RowStatuses \cup {"none"}
  BY ExtraTypes DEF ReclaimExpired, ReclaimFailed, Claiming
<1>2. CASE /\ Reclaimable(k, mine[w], from[w], t0[w]) /\ TakeOver(w)
           /\ \/ wins' = wins
              \/ pc[w] = "reclaimExpired" /\ wins' = [wins EXCEPT ![k] = 0]
  <2>1. /\ rows'[k].id = rows[k].id /\ rows'[k].status = "processing"
        /\ rows'[k].lockedUntil = t0[w] + LockTime /\ rows'[k].expiresAt = t0[w] + TTL
        /\ \A j \in Keys : j # k => rows'[j] = rows[j]
    BY <1>1, <1>2, ReclaimRow DEF RestTyped, TakeOver
  <2>2. mine[w] # 0 /\ rows[k].id = mine[w]
    BY <1>1, <1>2 DEF OwnInv, RequestOK, Holding, Reclaimable
  <2>3. CASE Goto(w, "execute") /\ UNCHANGED <<mine, from, faults>>
    <3>1. mine' = [mine EXCEPT ![w] = mine[w]] /\ from' = [from EXCEPT ![w] = from[w]]
      BY <2>3, <1>1 DEF ProcsTyped
    <3>2. Goes(w, "execute", mine[w], from[w])
      BY <1>1, <2>3, <3>1, GotoGoes DEF Claiming, Executing
    <3>3. Claims(w)
      BY <1>1, <1>2, <2>1, <2>2, <3>2 DEF Claims, Goes, OthersSame
    <3> QED BY <3>2, <3>3 DEF Kinds, Goes
  <2>4. CASE Unavailable(w)
    <3>1. Ends(w)
      BY <1>1, <2>4, UnavailableEnds
    <3>2. Claims(w)
      BY <1>1, <1>2, <2>1, <2>2, <3>1 DEF Claims, Ends, OthersSame
    <3> QED BY <3>1, <3>2 DEF Kinds, Ends
  <2> QED BY <1>2, <2>3, <2>4 DEF TakeOver
<1>3. CASE Goto(w, "reread") /\ UNCHANGED <<rows, mine, from, wins, faults>>
  <2>1. mine' = [mine EXCEPT ![w] = mine[w]] /\ from' = [from EXCEPT ![w] = from[w]]
    BY <1>3, <1>1 DEF ProcsTyped
  <2>2. Goes(w, "reread", mine[w], from[w])
    BY <1>1, <1>3, <2>1, GotoGoes DEF Claiming
  <2> QED BY <1>1, <1>3, <2>2 DEF Kinds, Asks, Goes, Claiming
<1>4. CASE /\ Answer(w, [NoAnswer EXCEPT !.kind = "inProgress"])
           /\ UNCHANGED <<rows, wins>>
  <2>1. Ends(w)
    BY <1>1, <1>4, OtherEnds DEF AnswerKinds
  <2> QED BY <1>1, <1>4, <2>1 DEF Kinds, Drops, Ends
<1> QED BY <1>2, <1>3, <1>4 DEF ReclaimExpired, ReclaimFailed

LEMMA RunKind ==
  ASSUME OwnInv, NEW w \in Workers, Execute(w)
  PROVE  Kinds(w)
<1>1. /\ ProcsTyped /\ pc[w] = "execute" /\ key[w] \in Keys
      /\ UNCHANGED <<rows, clock, mine, from>>
      /\ mine[w] \in Nat /\ from[w] \in RowStatuses \cup {"none"}
  BY ExtraTypes DEF Execute, table
<1>2. mine' = [mine EXCEPT ![w] = mine[w]] /\ from' = [from EXCEPT ![w] = from[w]]
  BY <1>1 DEF ProcsTyped
<1>3. CASE Goto(w, "succeed") /\ wins' = [wins EXCEPT ![key[w]] = @ + 1]
  <2>1. Goes(w, "succeed", mine[w], from[w])
    BY <1>1, <1>2, <1>3, GotoGoes DEF Executing
  <2> QED BY <1>1, <1>3, <2>1 DEF Kinds, Runs, Goes
<1>4. CASE Goto(w, "fail") /\ UNCHANGED wins
  <2>1. Goes(w, "fail", mine[w], from[w])
    BY <1>1, <1>2, <1>4, GotoGoes DEF Executing
  <2> QED BY <1>1, <1>4, <2>1 DEF Kinds, Runs, Goes
<1> QED BY <1>3, <1>4 DEF Execute

LEMMA StoreKind ==
  ASSUME OwnInv, NEW w \in Workers, StoreSuccess(w) \/ StoreFailure(w)
  PROVE  Kinds(w)
<1> DEFINE k == key[w]
<1>1. /\ RestTyped /\ ProcsTyped /\ pc[w] \in {"succeed", "fail"} /\ k \in Keys
      /\ print[w] \in Prints /\ t0[w] + TTL \in Nat /\ clock + Backoff \in Nat
      /\ UNCHANGED <<clock, wins>> /\ rows \in [Keys -> RowType]
  BY ExtraTypes, TimeAssumption DEF StoreSuccess, StoreFailure, RestTyped
<1>2. Moves(w) /\ pc'[w] = "idle"
  <2>1. CASE Answer(w, [NoAnswer EXCEPT !.kind = "ran", !.body = print[w]])
    BY <1>1, <2>1, AnswersTyped, AnswerMoves
  <2>2. CASE Unavailable(w) \/ Answer(w, [NoAnswer EXCEPT !.kind = "failed"])
    BY <1>1, <2>2, UnavailableEnds, OtherEnds DEF Ends, AnswerKinds
  <2> QED BY <2>1, <2>2 DEF StoreSuccess, StoreFailure
<1>3. CASE UNCHANGED rows
  BY <1>1, <1>2, <1>3 DEF Kinds, Drops
<1>4. CASE ~UNCHANGED rows
  <2>1. CASE StoreSuccess(w)
    <3>1. PICK r \in BOOLEAN : MarkSucceeded(k, mine[w], print[w], r, t0[w] + TTL)
      BY <2>1 DEF StoreSuccess
    <3>2. rows[k].id = mine[w]
      BY <1>4, <3>1 DEF MarkSucceeded
    <3>3. /\ rows'[k].id = rows[k].id /\ rows'[k].expiresAt = t0[w] + TTL
          /\ rows'[k].status = "succeeded"
          /\ \A j \in Keys : j # k => rows'[j] = rows[j]
      <4> DEFINE id == mine[w]
                 b  == print[w]
                 e  == t0[w] + TTL
      <4>1. MarkSucceeded(k, id, b, r, e) /\ b \in Prints /\ e \in Nat /\ k \in Keys
              /\ rows \in [Keys -> RowType] /\ rows[k].id = id
        BY <1>1, <3>1, <3>2
      <4> HIDE DEF id, b, e, k
      <4>2. /\ rows'[k].id = rows[k].id /\ rows'[k].expiresAt = e
            /\ rows'[k].status = "succeeded"
            /\ \A j \in Keys : j # k => rows'[j] = rows[j]
        BY <4>1, SucceededRow
      <4> QED BY <4>2 DEF e, k
    <3>4. pc[w] = "succeed"
      BY <2>1 DEF StoreSuccess
    <3> QED BY <1>1, <1>2, <3>2, <3>3, <3>4 DEF Kinds, Stores, OthersSame
  <2>2. CASE StoreFailure(w)
    <3>1. MarkFailedRetryable(k, mine[w], clock + Backoff, t0[w] + TTL) /\ pc[w] = "fail"
      BY <1>4, <2>2 DEF StoreFailure
    <3>2. rows[k].id = mine[w]
      BY <1>4, <3>1 DEF MarkFailedRetryable
    <3>3. /\ rows'[k].id = rows[k].id /\ rows'[k].expiresAt = t0[w] + TTL
          /\ rows'[k].status = "failed_retryable"
          /\ \A j \in Keys : j # k => rows'[j] = rows[j]
      BY <1>1, <3>1, <3>2, FailedRow
    <3> QED BY <1>1, <1>2, <3>1, <3>2, <3>3 DEF Kinds, Stores, OthersSame
  <2> QED BY <2>1, <2>2
<1> QED BY <1>3, <1>4

LEMMA WorkerKinds ==
  ASSUME OwnInv, NEW w \in Workers, Worker(w)
  PROVE  Kinds(w)
<1>1. ASSUME NEW k \in Keys, NEW p \in Prints, Start(w, k, p)
      PROVE  Kinds(w)
  BY <1>1, ExtraTypes DEF Start, Kinds, Starts, Moves, ProcsTyped, table
<1>2. ASSUME StatementFails(w) \/ Crash(w)
      PROVE  Kinds(w)
  <2>1. ProcsTyped /\ UNCHANGED <<rows, clock, wins>>
    BY <1>2, ExtraTypes DEF StatementFails, Crash, table
  <2>2. Moves(w) /\ pc'[w] = "idle"
    BY <1>2, <2>1, UnavailableEnds, LeaveMoves DEF StatementFails, Crash, Ends
  <2> QED BY <2>1, <2>2 DEF Kinds, Drops
<1> QED BY <1>1, <1>2, CreateKind, ReadKind, ReclaimKind, RunKind, StoreKind DEF Worker

\* An overrun is on record for good.
LEMMA LateStays ==
  ASSUME [Next]_vars, "late" \notin faults'.kinds
  PROVE  "late" \notin faults.kinds
<1>1. UNCHANGED faults \/ \E f : Fault(f)
  <2>1. ASSUME NEW w \in Workers, Worker(w)
        PROVE  UNCHANGED faults \/ \E f : Fault(f)
    BY <2>1, Zenon DEF Worker, Start, Create, GetExisting, ReclaimExpired, Reread,
       ReclaimFailed, TakeOver, Execute, StoreSuccess, StoreFailure, StatementFails, Crash
  <2> QED BY <2>1 DEF Next, Cleanup, Tick, vars
<1> QED BY <1>1 DEF Fault

-----------------------------------------------------------------------------
(* Times: what requests and rows know of the clock, however late they are. *)

RequestTimes(w) ==
    /\ pc[w] # "idle" => 1 <= t0[w] /\ t0[w] <= clock
    /\ pc[w] = "reclaim" => from[w] = "failed_retryable"
    /\ pc[w] = "reclaimExpired" => clock > TTL

RowTimes(k) ==
    /\ rows[k].id # 0 => rows[k].expiresAt > TTL
    /\ rows[k].id = 0 => rows[k].status = "none"

TimesOK == /\ clock >= 1
           /\ \A w \in Workers : RequestTimes(w)
           /\ \A k \in Keys : RowTimes(k)

LEMMA InitTimes == Init => TimesOK
<1> SUFFICES ASSUME Init PROVE TimesOK
  OBVIOUS
<1>1. NoRow.id = 0 /\ NoRow.status = "none"
  BY DEF NoRow
<1>2. ASSUME NEW k \in Keys PROVE RowTimes(k)
  <2>1. rows[k] = NoRow
    BY DEF Init, StoreInit
  <2>2. rows[k].id = 0 /\ rows[k].status = "none"
    BY <1>1, <2>1, Zenon
  <2> QED BY <2>2 DEF RowTimes
<1> QED BY <1>2 DEF Init, StoreInit, TimesOK, RequestTimes

\* A request that stays where it is while time passes or others move.
LEMMA OthersTimes ==
  ASSUME TimesOK, OwnInv, NEW v \in Workers, pc'[v] = pc[v], t0'[v] = t0[v],
         from'[v] = from[v], clock' \in {clock, clock + 1}
  PROVE  RequestTimes(v)'
<1>1. clock \in Nat /\ TTL \in Nat /\ (pc[v] # "idle" => t0[v] \in Nat)
  BY ExtraTypes, TimeAssumption DEF RestTyped
<1> QED BY <1>1 DEF TimesOK, RequestTimes

LEMMA KindTimes ==
  ASSUME TimesOK, OwnInv, NEW w \in Workers, Kinds(w)
  PROVE  TimesOK'
<1>1. /\ clock \in Nat /\ clock' = clock /\ TTL \in Nat \ {0}
      /\ pc[w] # "idle" => t0[w] \in Nat
  BY ExtraTypes, TimeAssumption
     DEF RestTyped, Kinds, Starts, Claims, Asks, Runs, Stores, Drops
<1>2. \A v \in Workers : v # w => RequestTimes(v)'
  BY <1>1, OthersTimes DEF Kinds, Moves
<1>3. RequestTimes(w) /\ clock >= 1
  BY DEF TimesOK
<1>4. CASE Starts(w)
  <2>1. RequestTimes(w)'
    BY <1>1, <1>3, <1>4 DEF Starts, RequestTimes
  <2>2. \A k \in Keys : RowTimes(k)'
    BY <1>4 DEF Starts, TimesOK, RowTimes
  <2> QED BY <1>1, <1>2, <1>3, <2>1, <2>2 DEF TimesOK
<1>5. CASE Claims(w)
  <2>0. pc[w] # "idle" /\ t0[w] >= 1
    BY <1>3, <1>5 DEF Claims, Claiming, RequestTimes
  <2>1. RequestTimes(w)'
    BY <1>1, <1>3, <1>5, <2>0 DEF Claims, RequestTimes
  <2>2. ASSUME NEW k \in Keys PROVE RowTimes(k)'
    <3>1. CASE k = key[w]
      BY <1>1, <1>5, <2>0, <3>1 DEF Claims, RowTimes
    <3>2. CASE k # key[w]
      BY <1>5, <3>2 DEF Claims, OthersSame, TimesOK, RowTimes
    <3> QED BY <3>1, <3>2
  <2> QED BY <1>1, <1>2, <1>3, <2>1, <2>2 DEF TimesOK
<1>6. CASE Asks(w)
  <2>0. pc[w] # "idle" /\ key[w] \in Keys
    BY <1>6 DEF Asks, Claiming
  <2>1. rows[key[w]].expiresAt \in Nat
    BY <2>0, ExtraTypes, RowsTyped DEF RestTyped
  <2>2. pc'[w] = "reclaimExpired" => clock > TTL
    <3> SUFFICES ASSUME pc'[w] = "reclaimExpired" PROVE clock > TTL
      OBVIOUS
    <3>1. rows[key[w]].expiresAt > TTL /\ rows[key[w]].expiresAt <= t0[w]
      BY <1>6, <2>0 DEF Asks, TimesOK, RowTimes
    <3> QED BY <1>1, <1>3, <2>0, <2>1, <3>1 DEF RequestTimes
  <2>3. RequestTimes(w)'
    BY <1>1, <1>3, <1>6, <2>0, <2>2 DEF Asks, RequestTimes
  <2>4. \A k \in Keys : RowTimes(k)'
    BY <1>6 DEF Asks, TimesOK, RowTimes
  <2> QED BY <1>1, <1>2, <1>3, <2>3, <2>4 DEF TimesOK
<1>7. CASE Runs(w)
  <2>1. RequestTimes(w)'
    BY <1>1, <1>3, <1>7 DEF Runs, RequestTimes
  <2>2. \A k \in Keys : RowTimes(k)'
    BY <1>7 DEF Runs, TimesOK, RowTimes
  <2> QED BY <1>1, <1>2, <1>3, <2>1, <2>2 DEF TimesOK
<1>8. CASE Stores(w) \/ Drops(w)
  <2>1. RequestTimes(w)'
    BY <1>8 DEF Stores, Drops, RequestTimes
  <2>2. ASSUME NEW k \in Keys PROVE RowTimes(k)'
    <3>1. CASE Drops(w) \/ k # key[w]
      BY <1>8, <3>1 DEF Drops, Stores, OthersSame, TimesOK, RowTimes
    <3>2. CASE Stores(w) /\ k = key[w]
      <4>1. pc[w] # "idle" /\ t0[w] >= 1 /\ mine[w] # 0 /\ rows[k].id = mine[w]
        BY <1>3, <3>2 DEF Stores, RequestTimes, OwnInv, RequestOK, Holding, Executing
      <4> QED BY <1>1, <3>2, <4>1 DEF Stores, RowTimes
    <3> QED BY <1>8, <3>1, <3>2
  <2> QED BY <1>1, <1>2, <1>3, <2>1, <2>2 DEF TimesOK
<1> QED BY <1>4, <1>5, <1>6, <1>7, <1>8 DEF Kinds

\* Steps that no request takes.
Outside == \/ \E k \in Keys : Cleanup(k)
           \/ Tick
           \/ UNCHANGED vars

LEMMA OutsideFacts ==
  ASSUME Outside, OwnInv
  PROVE  /\ UNCHANGED <<pc, key, t0, mine, from, wins>>
         /\ clock' \in {clock, clock + 1} /\ clock \in Nat
         /\ \A k \in Keys : \/ rows'[k] = rows[k]
                            \/ /\ rows[k].id # 0 /\ rows[k].expiresAt <= clock
                               /\ rows'[k].id = 0 /\ rows'[k].status = "none"
<1>1. clock \in Nat /\ rows \in [Keys -> RowType]
  BY ExtraTypes DEF RestTyped
<1>2. ASSUME NEW k \in Keys, Cleanup(k)
      PROVE  \A j \in Keys : \/ rows'[j] = rows[j]
                             \/ /\ rows[j].id # 0 /\ rows[j].expiresAt <= clock
                                /\ rows'[j].id = 0 /\ rows'[j].status = "none"
  BY <1>1, <1>2, DeletedRow DEF Cleanup, DeleteExpired, Exists
<1>3. CASE \E k \in Keys : Cleanup(k)
  BY <1>1, <1>2, <1>3 DEF Cleanup, procs
<1>4. CASE Tick \/ UNCHANGED vars
  BY <1>1, <1>4 DEF Tick, vars, procs, table
<1> QED BY <1>3, <1>4 DEF Outside

LEMMA TimesStep == TimesOK /\ OwnInv /\ [Next]_vars => TimesOK'
<1> SUFFICES ASSUME TimesOK, OwnInv, [Next]_vars PROVE TimesOK'
  OBVIOUS
<1>1. CASE Outside
  <2>1. \A v \in Workers : RequestTimes(v)'
    BY <1>1, OutsideFacts, OthersTimes
  <2>2. \A k \in Keys : RowTimes(k)'
    BY <1>1, OutsideFacts DEF TimesOK, RowTimes
  <2>3. clock' >= 1
    BY <1>1, OutsideFacts DEF TimesOK
  <2> QED BY <2>1, <2>2, <2>3 DEF TimesOK
<1> QED BY <1>1, WorkerKinds, KindTimes DEF Next, Outside

-----------------------------------------------------------------------------
(* Exclusion: a request that runs holds its row, and nobody else runs.     *)

Holds(w) ==
    LET k == key[w] IN
    pc[w] \in Executing =>
        /\ rows[k].id = mine[w]
        /\ rows[k].status = "processing"
        /\ rows[k].expiresAt = t0[w] + TTL
        /\ \A v \in Workers : v # w /\ pc[v] \in Executing => key[v] # k

Hold == \A w \in Workers : Holds(w)

\* What time has to grant for that: the rows of requests that run have not
\* expired, and nobody is about to reclaim one from an old read.
Unexpired == \A w \in Workers : pc[w] \in Executing => clock < t0[w] + TTL

NoSteal ==
    \A v, w \in Workers :
        /\ pc[v] = "reclaimExpired" /\ pc[w] \in Executing
        /\ Reclaimable(key[v], mine[v], from[v], t0[v])
        => key[v] # key[w]

LEMMA HoldKind ==
  ASSUME OwnInv, TimesOK, Hold, Unexpired, NoSteal, NEW w \in Workers, Kinds(w)
  PROVE  Hold'
<1>1. \A v \in Workers : v # w =>
          pc'[v] = pc[v] /\ key'[v] = key[v] /\ t0'[v] = t0[v] /\ mine'[v] = mine[v]
  BY DEF Kinds, Moves
<1>2. \A v \in Workers : pc[v] \in Executing =>
          key[v] \in Keys /\ mine[v] # 0 /\ RequestOK(v) /\ RequestTimes(v)
  BY ExtraTypes DEF OwnInv, RequestOK, Holding, Executing, TimesOK
<1>3. CASE Starts(w) \/ Asks(w) \/ Drops(w)
  <2>1. pc'[w] \notin Executing /\ UNCHANGED rows
    BY <1>3 DEF Starts, Asks, Drops, Claiming, Executing
  <2> QED BY <1>1, <2>1 DEF Hold, Holds
<1>4. CASE Claims(w)
  <2>1. ASSUME NEW v \in Workers, v # w, pc[v] \in Executing
        PROVE  key[v] # key[w]
    <3>1. CASE rows[key[w]].id = 0
      BY <1>2, <2>1, <3>1 DEF Hold, Holds
    <3>2. CASE pc[w] = "reclaim" /\ Reclaimable(key[w], mine[w], from[w], t0[w])
      <4>1. rows[key[w]].status = "failed_retryable"
        BY <3>2 DEF TimesOK, RequestTimes, Reclaimable
      <4> QED BY <2>1, <4>1 DEF Hold, Holds
    <3>3. CASE pc[w] = "reclaimExpired" /\ Reclaimable(key[w], mine[w], from[w], t0[w])
      BY <2>1, <3>3 DEF NoSteal
    <3> QED BY <1>4, <3>1, <3>2, <3>3 DEF Claims
  <2>2. ASSUME NEW v \in Workers, v # w
        PROVE  Holds(v)'
    <3> SUFFICES ASSUME pc'[v] \in Executing PROVE Holds(v)'
      BY DEF Holds
    <3>1. pc[v] \in Executing /\ key[v] # key[w] /\ Holds(v) /\ key[v] \in Keys
      BY <1>1, <1>2, <2>1, <2>2 DEF Hold
    <3>2. rows'[key[v]] = rows[key[v]]
      BY <1>4, <3>1 DEF Claims, OthersSame
    <3>3. ASSUME NEW u \in Workers, u # v, pc'[u] \in Executing
          PROVE  key'[u] # key[v]
      <4>1. CASE u = w
        BY <1>4, <3>1, <3>3, <4>1 DEF Claims, Executing
      <4>2. CASE u # w
        BY <1>1, <3>1, <3>3, <4>2 DEF Holds
      <4> QED BY <4>1, <4>2
    <3> QED BY <1>1, <2>2, <3>1, <3>2, <3>3 DEF Holds
  <2>3. Holds(w)'
    <3> SUFFICES ASSUME pc'[w] \in Executing PROVE Holds(w)'
      BY DEF Holds
    <3>1. pc'[w] = "execute"
      BY <1>4 DEF Claims, Executing
    <3>2. key'[w] = key[w] /\ t0'[w] = t0[w] /\ mine'[w] = rows'[key[w]].id
      BY <1>4, <3>1 DEF Claims
    <3>3. \A v \in Workers : v # w /\ pc'[v] \in Executing => key'[v] # key[w]
      BY <1>1, <2>1
    <3> QED BY <1>4, <3>2, <3>3 DEF Holds, Claims
  <2> QED BY <2>2, <2>3 DEF Hold
<1>5. CASE Runs(w)
  <2>1. /\ pc[w] \in Executing /\ UNCHANGED rows
        /\ key'[w] = key[w] /\ t0'[w] = t0[w] /\ mine'[w] = mine[w]
    BY <1>5 DEF Runs, Executing
  <2>2. \A v \in Workers : /\ pc'[v] \in Executing => pc[v] \in Executing
                           /\ key'[v] = key[v] /\ t0'[v] = t0[v] /\ mine'[v] = mine[v]
    BY <1>1, <2>1
  <2> QED BY <2>1, <2>2 DEF Hold, Holds
<1>6. CASE Stores(w)
  <2>1. pc[w] \in Executing /\ pc'[w] \notin Executing
    BY <1>6 DEF Stores, Executing
  <2>2. ASSUME NEW v \in Workers, pc'[v] \in Executing
        PROVE  Holds(v)'
    <3>1. v # w /\ pc[v] \in Executing /\ key[v] # key[w] /\ key[v] \in Keys
      BY <1>1, <1>2, <2>1, <2>2 DEF Hold, Holds
    <3>2. rows'[key[v]] = rows[key[v]]
      BY <1>6, <3>1 DEF Stores, OthersSame
    <3>3. \A u \in Workers : pc'[u] \in Executing =>
              pc[u] \in Executing /\ key'[u] = key[u]
      BY <1>1, <2>1
    <3> QED BY <1>1, <3>1, <3>2, <3>3 DEF Hold, Holds
  <2> QED BY <2>2 DEF Hold, Holds
<1> QED BY <1>3, <1>4, <1>5, <1>6 DEF Kinds

LEMMA HoldOutside ==
  ASSUME OwnInv, Hold, Unexpired, Outside
  PROVE  Hold'
<1>1. ASSUME NEW w \in Workers, pc[w] \in Executing
      PROVE  rows'[key[w]] = rows[key[w]]
  <2>1. key[w] \in Keys /\ t0[w] + TTL \in Nat /\ clock < t0[w] + TTL
          /\ rows[key[w]].expiresAt = t0[w] + TTL /\ clock \in Nat
    BY <1>1, ExtraTypes, OutsideFacts DEF Hold, Holds, Unexpired, Executing
  <2> QED BY <2>1, OutsideFacts
<1> QED BY <1>1, OutsideFacts DEF Hold, Holds

LEMMA HoldStep ==
  ASSUME OwnInv, TimesOK, Hold, Unexpired, NoSteal, [Next]_vars
  PROVE  Hold'
  BY HoldKind, HoldOutside, WorkerKinds DEF Next, Outside

-----------------------------------------------------------------------------
(* While no row can have expired, whoever is late: the count of successes  *)
(* follows the row.  A row that may be claimed has none, a request that     *)
(* runs, or has failed, found none, and one that has succeeded counts one. *)

WinsRow(k) ==
    /\ wins[k] <= 1
    /\ rows[k].status \in {"none", "failed_retryable"} => wins[k] = 0

WinsRun(w) == /\ pc[w] \in {"execute", "fail"} => wins[key[w]] = 0
              /\ pc[w] = "succeed" => wins[key[w]] = 1

WinsOK == /\ \A k \in Keys : WinsRow(k)
          /\ \A w \in Workers : WinsRun(w)

Early == clock <= TTL => Hold /\ WinsOK

LEMMA EarlyTimes ==
  ASSUME OwnInv, TimesOK, clock <= TTL
  PROVE  /\ Unexpired /\ NoSteal
         /\ \A w \in Workers : pc[w] # "reclaimExpired"
         /\ \A k \in Keys : rows[k].id # 0 => ~(rows[k].expiresAt <= clock)
<1>1. clock \in Nat /\ TTL \in Nat
  BY ExtraTypes, TimeAssumption DEF RestTyped
<1>2. \A w \in Workers : pc[w] # "reclaimExpired"
  BY <1>1 DEF TimesOK, RequestTimes
<1>3. ASSUME NEW w \in Workers, pc[w] \in Executing
      PROVE  clock < t0[w] + TTL
  <2>1. t0[w] \in Nat /\ t0[w] >= 1
    BY <1>3, ExtraTypes DEF TimesOK, RequestTimes, Executing
  <2> QED BY <1>1, <2>1
<1>4. ASSUME NEW k \in Keys, rows[k].id # 0
      PROVE  ~(rows[k].expiresAt <= clock)
  <2>1. rows[k].expiresAt \in Nat /\ rows[k].expiresAt > TTL
    BY <1>4, ExtraTypes, RowsTyped DEF RestTyped, TimesOK, RowTimes
  <2> QED BY <1>1, <2>1
<1> QED BY <1>2, <1>3, <1>4 DEF Unexpired, NoSteal

\* Whoever else runs has another key than a request that touches its row.
LEMMA OthersApart ==
  ASSUME OwnInv, TimesOK, clock <= TTL, Hold, NEW w \in Workers,
         Claims(w) \/ Runs(w) \/ Stores(w),
         NEW v \in Workers, v # w, pc[v] \in Executing
  PROVE  key[v] # key[w]
<1>1. CASE Runs(w) \/ Stores(w)
  BY <1>1 DEF Runs, Stores, Hold, Holds, Executing
<1>2. CASE Claims(w)
  <2>1. mine[v] # 0 /\ rows[key[v]].id = mine[v] /\ rows[key[v]].status = "processing"
    BY DEF Hold, Holds, OwnInv, RequestOK, Holding, Executing
  <2>2. CASE rows[key[w]].id = 0
    BY <2>1, <2>2
  <2>3. CASE pc[w] = "reclaim" /\ Reclaimable(key[w], mine[w], from[w], t0[w])
    BY <2>1, <2>3 DEF TimesOK, RequestTimes, Reclaimable
  <2> QED BY <1>2, <2>2, <2>3, EarlyTimes DEF Claims
<1> QED BY <1>1, <1>2

LEMMA WinsKind ==
  ASSUME OwnInv, TimesOK, clock <= TTL, Hold, WinsOK, NEW w \in Workers, Kinds(w)
  PROVE  WinsOK'
<1> DEFINE k == key[w]
<1>1. \A v \in Workers : v # w => pc'[v] = pc[v] /\ key'[v] = key[v]
  BY DEF Kinds, Moves
<1>2. /\ wins \in [Keys -> Nat]
      /\ \A v \in Workers : pc[v] # "idle" => key[v] \in Keys
  BY ExtraTypes DEF RestTyped
<1>0. ASSUME Claims(w) \/ Runs(w) \/ Stores(w),
             NEW v \in Workers, v # w, pc'[v] \in Executing
      PROVE  /\ pc'[v] = pc[v] /\ key'[v] = key[v]
             /\ key[v] \in Keys /\ key[v] # k
  BY <1>0, <1>1, <1>2, OthersApart DEF Executing
<1>3. CASE Starts(w) \/ Asks(w) \/ Drops(w)
  <2>1. pc'[w] \notin {"execute", "fail", "succeed"} /\ UNCHANGED <<rows, wins>>
    BY <1>3 DEF Starts, Asks, Drops, Claiming
  <2> QED BY <1>1, <2>1 DEF WinsOK, WinsRow, WinsRun
<1>4. CASE Claims(w)
  <2>1. k \in Keys
    BY <1>4 DEF Claims
  <2>2. wins'[k] = 0 /\ \A j \in Keys : j # k => wins'[j] = wins[j]
    <3>1. CASE wins' = [wins EXCEPT ![k] = 0]
      BY <1>2, <2>1, <3>1
    <3>2. CASE wins' = wins /\ pc[w] = "reclaim" /\ Reclaimable(k, mine[w], from[w], t0[w])
      <4>1. rows[k].status = "failed_retryable"
        BY <3>2 DEF TimesOK, RequestTimes, Reclaimable
      <4> QED BY <2>1, <3>2, <4>1 DEF WinsOK, WinsRow
    <3> QED BY <1>4, <3>1, <3>2, EarlyTimes DEF Claims
  <2>3. ASSUME NEW j \in Keys PROVE WinsRow(j)'
    <3>1. CASE j = k
      BY <2>2, <3>1 DEF WinsRow
    <3>2. CASE j # k
      <4>1. rows'[j] = rows[j] /\ wins'[j] = wins[j]
        BY <1>4, <2>2, <3>2 DEF Claims, OthersSame
      <4> QED BY <4>1 DEF WinsOK, WinsRow
    <3> QED BY <3>1, <3>2
  <2>4. ASSUME NEW v \in Workers PROVE WinsRun(v)'
    <3>1. CASE v = w
      BY <1>4, <2>2, <3>1 DEF Claims, WinsRun
    <3>2. CASE v # w
      <4> QED BY <1>0, <1>4, <2>2, <3>2 DEF WinsOK, WinsRun, Executing
    <3> QED BY <3>1, <3>2
  <2> QED BY <2>3, <2>4 DEF WinsOK
<1>5. CASE Runs(w)
  <2>1. /\ k \in Keys /\ UNCHANGED rows /\ key'[w] = k /\ wins[k] = 0
        /\ rows[k].status = "processing"
    BY <1>5 DEF Runs, Hold, Holds, WinsOK, WinsRun, Executing
  <2>2. CASE pc'[w] = "fail" /\ UNCHANGED wins
    <3>1. \A v \in Workers : WinsRun(v)'
      BY <1>1, <2>1, <2>2 DEF WinsOK, WinsRun
    <3> QED BY <2>1, <2>2, <3>1 DEF WinsOK, WinsRow
  <2>3. CASE pc'[w] = "succeed" /\ wins' = [wins EXCEPT ![k] = @ + 1]
    <3>1. wins'[k] = 1 /\ \A j \in Keys : j # k => wins'[j] = wins[j]
      BY <1>2, <2>1, <2>3
    <3>2. ASSUME NEW j \in Keys PROVE WinsRow(j)'
      BY <2>1, <3>1 DEF WinsOK, WinsRow
    <3>3. ASSUME NEW v \in Workers PROVE WinsRun(v)'
      <4>1. CASE v = w
        BY <2>1, <2>3, <3>1, <4>1 DEF WinsRun
      <4>2. CASE v # w
        BY <1>0, <1>5, <3>1, <4>2 DEF WinsOK, WinsRun, Executing
      <4> QED BY <4>1, <4>2
    <3> QED BY <3>2, <3>3 DEF WinsOK
  <2> QED BY <1>5, <2>2, <2>3 DEF Runs
<1>6. CASE Stores(w)
  <2>1. ASSUME NEW j \in Keys PROVE WinsRow(j)'
    <3>1. CASE j = k
      BY <1>6, <3>1 DEF Stores, WinsOK, WinsRow, WinsRun
    <3>2. CASE j # k
      <4>1. rows'[j] = rows[j] /\ wins'[j] = wins[j]
        BY <1>6, <3>2 DEF Stores, OthersSame
      <4> QED BY <4>1 DEF WinsOK, WinsRow
    <3> QED BY <3>1, <3>2
  <2>2. \A v \in Workers : WinsRun(v)'
    BY <1>1, <1>6 DEF Stores, WinsOK, WinsRun
  <2> QED BY <2>1, <2>2 DEF WinsOK
<1> QED BY <1>3, <1>4, <1>5, <1>6 DEF Kinds

LEMMA EarlyStep == OwnInv /\ TimesOK /\ Early /\ [Next]_vars => Early'
<1> SUFFICES ASSUME OwnInv, TimesOK, Early, [Next]_vars, clock' <= TTL
             PROVE  (Hold /\ WinsOK)'
  BY DEF Early
<1>1. clock <= TTL
  <2>1. clock \in Nat /\ TTL \in Nat
    BY ExtraTypes, TimeAssumption DEF RestTyped
  <2>2. clock' \in {clock, clock + 1}
    BY WorkerKinds, OutsideFacts
       DEF Next, Outside, Kinds, Starts, Claims, Asks, Runs, Stores, Drops
  <2> QED BY <2>1, <2>2
<1>2. Hold /\ WinsOK /\ Unexpired /\ NoSteal
  BY <1>1, EarlyTimes DEF Early
<1>3. Hold'
  BY <1>2, HoldStep
<1>4. CASE Outside
  <2>1. UNCHANGED <<pc, key, wins>> /\ \A k \in Keys : rows'[k] = rows[k]
    BY <1>1, <1>4, OutsideFacts, EarlyTimes
  <2>2. WinsOK'
    BY <1>2, <2>1 DEF WinsOK, WinsRow, WinsRun
  <2> QED BY <1>3, <2>2
<1>5. ASSUME NEW w \in Workers, Kinds(w) PROVE WinsOK'
  BY <1>1, <1>2, <1>5, WinsKind
<1> QED BY <1>3, <1>4, <1>5, WorkerKinds DEF Next, Outside

EarlyInv == OwnInv /\ TimesOK /\ Early

LEMMA EarlyAlways == Spec => []EarlyInv
<1>1. Init => EarlyInv
  <2> SUFFICES ASSUME Init PROVE Early
    BY OwnInit, InitTimes DEF EarlyInv
  <2>1. Hold
    BY DEF Init, Hold, Holds, Executing
  <2>2. WinsOK
    BY DEF Init, WinsOK, WinsRow, WinsRun
  <2> QED BY <2>1, <2>2 DEF Early
<1>2. EarlyInv /\ [Next]_vars => EarlyInv'
  BY OwnStep, TimesStep, EarlyStep DEF EarlyInv
<1> QED BY <1>1, <1>2, PTL DEF Spec

\* Until the first row can expire, the operation of a key succeeds at most
\* once, with any number of requests and failures, even if requests overrun
\* their locks.
THEOREM SucceedsOnce == Spec => []OneSuccess
<1>1. EarlyInv => OneSuccess
  BY DEF EarlyInv, Early, WinsOK, WinsRow, OneSuccess, OneSideEffect
<1> QED BY <1>1, EarlyAlways, PTL

\* Until then no step takes a stored success away: not the claim of a retry,
\* not the cleanup, and not the failure of a request that overran.
THEOREM SuccessStays == Spec => SuccessIsKept
<1>1. ASSUME EarlyInv, [Next]_vars, NEW k \in Keys,
             rows[k].status = "succeeded", clock <= TTL
      PROVE  rows'[k].status = "succeeded"
  <2>1. rows[k].id # 0 /\ Hold
    BY <1>1 DEF EarlyInv, Early, TimesOK, RowTimes
  <2>2. CASE Outside
    BY <1>1, <2>1, <2>2, OutsideFacts, EarlyTimes DEF EarlyInv
  <2>3. ASSUME NEW w \in Workers, Kinds(w) PROVE rows'[k].status = "succeeded"
    <3>1. CASE Starts(w) \/ Asks(w) \/ Runs(w) \/ Drops(w)
      BY <1>1, <3>1 DEF Starts, Asks, Runs, Drops
    <3>2. CASE Claims(w)
      <4>1. k # key[w]
        BY <1>1, <2>1, <3>2, EarlyTimes
           DEF Claims, EarlyInv, TimesOK, RequestTimes, Reclaimable
      <4> QED BY <1>1, <3>2, <4>1 DEF Claims, OthersSame
    <3>3. CASE Stores(w)
      <4>1. k # key[w]
        BY <1>1, <2>1, <3>3 DEF Stores, Hold, Holds, Executing
      <4> QED BY <1>1, <3>3, <4>1 DEF Stores, OthersSame
    <3> QED BY <2>3, <3>1, <3>2, <3>3 DEF Kinds
  <2> QED BY <1>1, <2>2, <2>3, WorkerKinds DEF Next, Outside, EarlyInv
<1>2. EarlyInv /\ [Next]_vars =>
         [\A k \in Keys : rows[k].status = "succeeded" /\ clock <= TTL
             => rows'[k].status = "succeeded"]_vars
  BY <1>1
<1> QED BY <1>2, EarlyAlways, PTL DEF Spec, SuccessIsKept

-----------------------------------------------------------------------------
(* Refinement of OnceOnly, as long as no row can have expired.             *)

\* What a step shows of the key of one request, the others being as they were.
LEMMA OneKey ==
  ASSUME NEW k \in Keys, wins \in [Keys -> Nat],
         \A j \in Keys : j # k => KeyState(j)' = KeyState(j),
         \/ /\ UNCHANGED wins
            /\ \/ KeyState(k)' = KeyState(k)
               \/ /\ KeyState(k) = "free" /\ wins[k] = 0
                  /\ KeyState(k)' \in {"running", "abandoned"}
               \/ KeyState(k) = "running" /\ wins[k] = 0 /\ KeyState(k)' = "free"
               \/ KeyState(k) = "running" /\ KeyState(k)' = "abandoned"
               \/ KeyState(k) = "running" /\ wins[k] = 1 /\ KeyState(k)' = "answered"
         \/ /\ wins' = [wins EXCEPT ![k] = 1] /\ wins[k] = 0
            /\ KeyState(k) = "running" /\ KeyState(k)' = "running"
  PROVE  [Once!Next]_(Once!vars)
<1> DEFINE S == [j \in Keys |-> KeyState(j)]
           T == [j \in Keys |-> KeyState(j)']
           s == KeyState(k)
           t == KeyState(k)'
<1>0. S[k] = s
  OBVIOUS
<1>1. T = [S EXCEPT ![k] = t]
  OBVIOUS
<1>2. t = s => T = S
  OBVIOUS
<1> HIDE DEF S, T, s, t
<1>3. CASE UNCHANGED wins /\ t = s
  BY <1>2, <1>3 DEF Once!vars, S, T
<1>4. CASE UNCHANGED wins /\ s = "free" /\ wins[k] = 0 /\ t \in {"running", "abandoned"}
  <2>1. Once!Claim(k)
    BY <1>0, <1>1, <1>4 DEF Once!Claim, Once!Becomes, S, T
  <2> QED BY <2>1 DEF Once!Next
<1>5. CASE UNCHANGED wins /\ s = "running" /\ wins[k] = 0 /\ t = "free"
  <2>1. Once!GiveUp(k)
    BY <1>0, <1>1, <1>5 DEF Once!GiveUp, Once!Becomes, S, T
  <2> QED BY <2>1 DEF Once!Next
<1>6. CASE UNCHANGED wins /\ s = "running" /\ t = "abandoned"
  <2>1. Once!Vanish(k)
    BY <1>0, <1>1, <1>6 DEF Once!Vanish, Once!Becomes, S, T
  <2> QED BY <2>1 DEF Once!Next
<1>7. CASE UNCHANGED wins /\ s = "running" /\ wins[k] = 1 /\ t = "answered"
  <2>1. Once!Keep(k)
    BY <1>0, <1>1, <1>7 DEF Once!Keep, Once!Becomes, S, T
  <2> QED BY <2>1 DEF Once!Next
<1>8. CASE /\ wins' = [wins EXCEPT ![k] = 1] /\ wins[k] = 0
           /\ s = "running" /\ t = "running"
  <2>1. Once!Apply(k)
    BY <1>0, <1>2, <1>8 DEF Once!Apply, S, T
  <2> QED BY <2>1 DEF Once!Next
<1> QED BY <1>3, <1>4, <1>5, <1>6, <1>7, <1>8 DEF s, t

\* A step that changes no key's state.
LEMMA NoKeyMoves ==
  ASSUME UNCHANGED wins, \A j \in Keys : KeyState(j)' = KeyState(j)
  PROVE  [Once!Next]_(Once!vars)
<1>1. [j \in Keys |-> KeyState(j)'] = [j \in Keys |-> KeyState(j)]
  OBVIOUS
<1> QED BY <1>1 DEF Once!vars

\* The state of a key, by its row and its requests.
LEMMA KeyStates ==
  ASSUME NEW k
  PROVE  /\ rows[k].status = "succeeded" => KeyState(k) = "answered"
         /\ rows[k].status = "processing" /\ Attempted(k) => KeyState(k) = "running"
         /\ rows[k].status = "processing" /\ ~Attempted(k) => KeyState(k) = "abandoned"
         /\ rows[k].status \in {"none", "failed_retryable"} => KeyState(k) = "free"
  BY DEF KeyState

LEMMA KeyStatesNext ==
  ASSUME NEW k
  PROVE  /\ rows'[k].status = "succeeded" => KeyState(k)' = "answered"
         /\ rows'[k].status = "processing" /\ Attempted(k)' => KeyState(k)' = "running"
         /\ rows'[k].status = "processing" /\ ~Attempted(k)' => KeyState(k)' = "abandoned"
         /\ rows'[k].status \in {"none", "failed_retryable"} => KeyState(k)' = "free"
  BY DEF KeyState

\* The row and the requests of a key decide its state.
LEMMA SameState ==
  ASSUME rows \in [Keys -> RowType], NEW k \in Keys,
         rows'[k] = rows[k], Attempted(k)' <=> Attempted(k)
  PROVE  KeyState(k)' = KeyState(k)
<1>1. rows[k].status \in {"processing", "succeeded", "failed_retryable", "none"}
  BY RowsTyped DEF RowStatuses
<1> QED BY <1>1, KeyStates, KeyStatesNext

\* A key that w neither runs nor comes to run keeps its requests.
LEMMA AttemptedOthers ==
  ASSUME NEW w \in Workers, Moves(w), NEW j,
         pc[w] \in Executing => key[w] # j, pc'[w] \in Executing => key'[w] # j
  PROVE  Attempted(j)' <=> Attempted(j)
  BY DEF Moves, Attempted

LEMMA OnceKind ==
  ASSUME OwnInv, TimesOK, clock <= TTL, Hold, WinsOK, NEW w \in Workers, Kinds(w)
  PROVE  [Once!Next]_(Once!vars)
<1>0. PICK k : k = key[w]
  OBVIOUS
<1>1. /\ rows \in [Keys -> RowType] /\ wins \in [Keys -> Nat] /\ Moves(w)
      /\ pc[w] \in Executing => k \in Keys
  BY <1>0, ExtraTypes DEF RestTyped, Kinds, Executing
\* The others run other keys than one that w runs, claims or stores.
<1>2. ASSUME pc[w] \in Executing \/ Claims(w)
      PROVE  \A v \in Workers : v # w /\ pc'[v] \in Executing => key'[v] # k
  <2>1. CASE pc[w] \in Executing
    BY <1>0, <1>1, <2>1 DEF Hold, Holds, Moves
  <2>2. CASE Claims(w)
    BY <1>0, <1>1, <2>2, OthersApart DEF Moves
  <2> QED BY <1>2, <2>1, <2>2
<1>3. pc[w] \in Executing => rows[k].status = "processing" /\ KeyState(k) = "running"
  BY <1>0, <1>1, KeyStates DEF Hold, Holds, Attempted
<1>4. \A j \in Keys :
         /\ rows'[j] = rows[j] /\ (pc[w] \in Executing => j # k)
         /\ pc'[w] \in Executing => key'[w] # j
         => KeyState(j)' = KeyState(j)
  BY <1>0, <1>1, AttemptedOthers, SameState
<1>5. CASE Starts(w) \/ Asks(w) \/ Drops(w)
  <2>1. pc'[w] \notin Executing /\ UNCHANGED <<rows, wins>>
    BY <1>5 DEF Starts, Asks, Drops, Claiming, Executing
  <2>2. CASE pc[w] \in Executing
    <3>1. ~Attempted(k)'
      BY <1>2, <2>1, <2>2 DEF Attempted
    <3>2. KeyState(k)' = "abandoned"
      BY <1>3, <2>1, <2>2, <3>1, KeyStatesNext
    <3> QED BY <1>1, <1>3, <1>4, <2>1, <2>2, <3>2, OneKey
  <2>3. CASE pc[w] \notin Executing
    BY <1>4, <2>1, <2>3, NoKeyMoves
  <2> QED BY <2>2, <2>3
<1>6. CASE Claims(w)
  <2>1. k \in Keys /\ pc[w] \notin Executing /\ rows'[k].status = "processing"
        /\ pc'[w] \in {"execute", "idle"} /\ (pc'[w] = "execute" => key'[w] = k)
    BY <1>0, <1>6 DEF Claims, Claiming, Executing
  <2>2. rows[k].status \in {"none", "failed_retryable"}
    BY <1>0, <1>6, <2>1, EarlyTimes DEF Claims, TimesOK, RowTimes, RequestTimes, Reclaimable
  <2>3. KeyState(k) = "free" /\ wins[k] = 0
    BY <2>1, <2>2, KeyStates DEF WinsOK, WinsRow
  <2>4. UNCHANGED wins
    BY <1>0, <1>1, <1>6, <2>3, EarlyTimes DEF Claims
  <2>5. KeyState(k)' \in {"running", "abandoned"}
    BY <2>1, KeyStatesNext
  <2>6. \A j \in Keys : j # k => KeyState(j)' = KeyState(j)
    BY <1>0, <1>4, <1>6, <2>1 DEF Claims, OthersSame, Executing
  <2> QED BY <1>1, <2>1, <2>3, <2>4, <2>5, <2>6, OneKey
<1>7. CASE Runs(w)
  <2>1. /\ pc[w] = "execute" /\ pc[w] \in Executing /\ pc'[w] \in Executing
        /\ k \in Keys /\ key'[w] = k /\ UNCHANGED rows
    BY <1>0, <1>7 DEF Runs, Executing
  <2>2. wins[k] = 0
    BY <1>0, <2>1 DEF WinsOK, WinsRun
  <2>3. KeyState(k)' = "running"
    BY <1>3, <2>1, KeyStatesNext DEF Attempted
  <2>4. \A j \in Keys : j # k => KeyState(j)' = KeyState(j)
    BY <1>4, <2>1
  <2>5. wins' = [wins EXCEPT ![k] = 1] \/ UNCHANGED wins
    BY <1>0, <1>1, <1>7, <2>2 DEF Runs
  <2> QED BY <1>1, <1>3, <2>1, <2>2, <2>3, <2>4, <2>5, OneKey
<1>8. CASE Stores(w)
  <2>1. /\ pc[w] \in Executing /\ pc'[w] \notin Executing /\ k \in Keys
        /\ UNCHANGED wins /\ OthersSame(k)
    BY <1>0, <1>8 DEF Stores, Executing
  <2>2. \A j \in Keys : j # k => KeyState(j)' = KeyState(j)
    BY <1>4, <2>1 DEF OthersSame
  <2>3. CASE pc[w] = "succeed"
    <3>1. wins[k] = 1 /\ KeyState(k)' = "answered"
      BY <1>0, <1>8, <2>3, KeyStatesNext DEF Stores, WinsOK, WinsRun
    <3> QED BY <1>1, <1>3, <2>1, <2>2, <3>1, OneKey
  <2>4. CASE pc[w] = "fail"
    <3>1. wins[k] = 0 /\ KeyState(k)' = "free"
      BY <1>0, <1>8, <2>4, KeyStatesNext DEF Stores, WinsOK, WinsRun
    <3> QED BY <1>1, <1>3, <2>1, <2>2, <3>1, OneKey
  <2> QED BY <1>8, <2>3, <2>4 DEF Stores
<1> QED BY <1>5, <1>6, <1>7, <1>8 DEF Kinds

LEMMA OnceOutside ==
  ASSUME OwnInv, TimesOK, clock <= TTL, Outside
  PROVE  [Once!Next]_(Once!vars)
<1>1. UNCHANGED <<pc, key, wins>> /\ \A k \in Keys : rows'[k] = rows[k]
  BY OutsideFacts, EarlyTimes
<1>2. rows \in [Keys -> RowType]
  BY ExtraTypes DEF RestTyped
<1>3. \A k \in Keys : Attempted(k)' <=> Attempted(k)
  BY <1>1 DEF Attempted
<1> QED BY <1>1, <1>2, <1>3, SameState, NoKeyMoves

\* Until the first row can expire, each step of the requests is for each key a
\* step of OnceOnly or none: one attempt at a time, none after an effect, and an
\* answer is kept for good, whichever statements fail and whoever is late.
THEOREM ServesOnce == Spec => ImplementsOnce
<1>1. Init => Once!Init
  <2> SUFFICES ASSUME Init PROVE Once!Init
    OBVIOUS
  <2>1. ASSUME NEW k \in Keys PROVE KeyState(k) = "free"
    <3>1. NoRow.status = "none"
      BY DEF NoRow
    <3>2. rows[k].status = "none"
      BY <3>1 DEF Init, StoreInit
    <3> QED BY <3>2, KeyStates
  <2> QED BY <2>1 DEF Once!Init, Init
<1>2. EarlyInv /\ [Next]_vars => [clock <= TTL => [Once!Next]_(Once!vars)]_vars
  <2> SUFFICES ASSUME EarlyInv, [Next]_vars, clock <= TTL
               PROVE  [Once!Next]_(Once!vars)
    OBVIOUS
  <2>1. OwnInv /\ TimesOK /\ Hold /\ WinsOK
    BY DEF EarlyInv, Early
  <2> QED BY <2>1, OnceOutside, OnceKind, WorkerKinds DEF Next, Outside
<1> QED BY <1>1, <1>2, EarlyAlways, PTL DEF Spec, ImplementsOnce

-----------------------------------------------------------------------------
(* While nobody has been late, rows may expire and be taken over, but never *)
(* under a request that runs: its claim is fresher than any old read.      *)

Soon(w) == /\ pc[w] \in Claiming  => clock < t0[w] + LockTime
           /\ pc[w] \in Executing => clock < t0[w] + TTL

\* A row found expired is still expired, or its new lock is later than the
\* clock of the one who found it.
ReadOK(w) ==
    LET row == rows[key[w]] IN
    pc[w] = "reclaimExpired" /\ row.id = mine[w] /\ row.status = "processing"
       => row.expiresAt <= t0[w] \/ row.lockedUntil > t0[w]

Timely == "late" \in faults.kinds \/
          (Hold /\ \A w \in Workers : Soon(w) /\ ReadOK(w))

LEMMA TimelyTimes ==
  ASSUME OwnInv, TimesOK, Hold, \A w \in Workers : Soon(w) /\ ReadOK(w)
  PROVE  Unexpired /\ NoSteal
<1>1. Unexpired
  BY DEF Unexpired, Soon
<1>2. ASSUME NEW v \in Workers, NEW w \in Workers,
             pc[v] = "reclaimExpired", pc[w] \in Executing,
             Reclaimable(key[v], mine[v], from[v], t0[v]), key[v] = key[w]
      PROVE  FALSE
  <2> DEFINE row == rows[key[v]]
  <2>1. row.status = "processing" /\ row.expiresAt = t0[w] + TTL
    BY <1>2 DEF Hold, Holds
  <2>2. row.id = mine[v] /\ row.lockedUntil <= t0[v]
    BY <1>2 DEF Reclaimable
  <2>3. row.expiresAt <= t0[v] \/ row.lockedUntil > t0[v]
    BY <1>2, <2>1, <2>2 DEF ReadOK
  <2>4. clock \in Nat /\ t0[v] \in Nat /\ t0[w] + TTL \in Nat /\ key[v] \in Keys
    BY <1>2, ExtraTypes DEF RestTyped, Executing
  <2>5. row.lockedUntil \in Nat
    BY <2>4, ExtraTypes, RowsTyped DEF RestTyped
  <2>6. t0[v] <= clock /\ clock < t0[w] + TTL
    BY <1>2 DEF TimesOK, RequestTimes, Soon
  <2> QED BY <2>1, <2>2, <2>3, <2>4, <2>5, <2>6
<1> QED BY <1>1, <1>2 DEF NoSteal

LEMMA SoonKind ==
  ASSUME LockTime <= TTL, OwnInv, \A v \in Workers : Soon(v),
         NEW w \in Workers, Kinds(w)
  PROVE  \A v \in Workers : Soon(v)'
<1>1. /\ clock' = clock /\ clock \in Nat
      /\ LockTime \in Nat \ {0} /\ TTL \in Nat
      /\ pc[w] # "idle" => t0[w] \in Nat
  BY ExtraTypes, TimeAssumption
     DEF RestTyped, Kinds, Starts, Claims, Asks, Runs, Stores, Drops
<1>2. ASSUME NEW v \in Workers, v # w PROVE Soon(v)'
  BY <1>1, <1>2 DEF Kinds, Moves, Soon
<1>3. Soon(w)'
  <2>1. CASE Starts(w)
    BY <1>1, <2>1 DEF Starts, Soon, Executing
  <2>2. CASE Claims(w)
    <3>1. clock < t0[w] + LockTime /\ t0[w] \in Nat
      BY <1>1, <2>2 DEF Claims, Soon, Claiming
    <3>2. clock < t0[w] + TTL
      BY <1>1, <3>1
    <3> QED BY <1>1, <2>2, <3>2 DEF Claims, Soon, Claiming, Executing
  <2>3. CASE Asks(w)
    <3>1. clock < t0[w] + LockTime /\ pc'[w] \notin Executing /\ t0'[w] = t0[w]
      BY <2>3 DEF Asks, Soon, Claiming, Executing
    <3> QED BY <1>1, <3>1 DEF Soon
  <2>4. CASE Runs(w)
    <3>1. clock < t0[w] + TTL /\ pc'[w] \notin Claiming /\ t0'[w] = t0[w]
      BY <2>4 DEF Runs, Soon, Claiming, Executing
    <3> QED BY <1>1, <3>1 DEF Soon
  <2>5. CASE Stores(w) \/ Drops(w)
    BY <2>5 DEF Stores, Drops, Soon, Claiming, Executing
  <2> QED BY <2>1, <2>2, <2>3, <2>4, <2>5 DEF Kinds
<1> QED BY <1>2, <1>3

LEMMA ReadKept ==
  ASSUME OwnInv, TimesOK, \A v \in Workers : Soon(v) /\ ReadOK(v),
         NEW w \in Workers, Kinds(w)
  PROVE  \A v \in Workers : ReadOK(v)'
<1>1. ASSUME NEW v \in Workers, v # w PROVE ReadOK(v)'
  <2> SUFFICES ASSUME pc'[v] = "reclaimExpired" PROVE ReadOK(v)'
    BY DEF ReadOK
  <2>1. /\ pc[v] = "reclaimExpired"
        /\ key'[v] = key[v] /\ mine'[v] = mine[v] /\ t0'[v] = t0[v]
    BY <1>1 DEF Kinds, Moves
  <2>2. key[v] \in Keys /\ t0[v] \in Nat /\ clock \in Nat /\ t0[v] <= clock
    BY <2>1, ExtraTypes DEF RestTyped, TimesOK, RequestTimes
  <2>3. CASE rows'[key[v]] = rows[key[v]]
    BY <2>1, <2>3 DEF ReadOK
  <2>4. CASE Claims(w) /\ key[v] = key[w]
    <3>1. /\ rows'[key[v]].lockedUntil = t0[w] + LockTime
          /\ clock < t0[w] + LockTime /\ t0[w] + LockTime \in Nat
      BY <2>4, ExtraTypes DEF Claims, Soon, Claiming
    <3>2. rows'[key[v]].lockedUntil > t0[v]
      BY <2>2, <3>1
    <3> QED BY <2>1, <3>2 DEF ReadOK
  <2>5. CASE Stores(w) /\ key[v] = key[w]
    BY <2>1, <2>5 DEF ReadOK, Stores
  <2>6. CASE Starts(w) \/ Asks(w) \/ Runs(w) \/ Drops(w)
    BY <2>3, <2>6 DEF Starts, Asks, Runs, Drops
  <2>7. CASE (Claims(w) \/ Stores(w)) /\ key[v] # key[w]
    BY <2>2, <2>3, <2>7 DEF Claims, Stores, OthersSame
  <2> QED BY <2>4, <2>5, <2>6, <2>7 DEF Kinds
<1>2. ReadOK(w)'
  <2> SUFFICES ASSUME pc'[w] = "reclaimExpired" PROVE ReadOK(w)'
    BY DEF ReadOK
  <2>1. Asks(w)
    BY DEF Kinds, Starts, Claims, Runs, Stores, Drops
  <2> QED BY <2>1 DEF Asks, ReadOK
<1> QED BY <1>1, <1>2

LEMMA TimelyOutside ==
  ASSUME OwnInv, \A v \in Workers : Soon(v) /\ ReadOK(v), Outside,
         "late" \notin faults'.kinds
  PROVE  \A v \in Workers : Soon(v)' /\ ReadOK(v)'
<1>1. ASSUME NEW v \in Workers PROVE ReadOK(v)'
  <2> SUFFICES ASSUME pc'[v] = "reclaimExpired" PROVE ReadOK(v)'
    BY DEF ReadOK
  <2>1. pc[v] = "reclaimExpired" /\ key[v] \in Keys
    BY OutsideFacts, ExtraTypes
  <2>2. rows'[key[v]] = rows[key[v]] \/ rows'[key[v]].status = "none"
    BY <2>1, OutsideFacts
  <2> QED BY <2>1, <2>2, OutsideFacts DEF ReadOK
<1>2. CASE Tick
  <2>1. ~ \E w \in Workers : Late(w)
    <3>1. faults \in FaultLog /\ faults.kinds \in SUBSET FaultKinds
      BY ExtraTypes DEF RestTyped, FaultLog
    <3>2. CASE UNCHANGED faults
      BY <1>2, <3>2 DEF Tick, Fault
    <3>3. CASE Fault("late")
      BY <3>1, <3>3 DEF Fault
    <3> QED BY <1>2, <3>2, <3>3 DEF Tick
  <2>2. clock' = clock + 1 /\ UNCHANGED <<pc, t0>> /\ clock \in Nat
    BY <1>2, OutsideFacts DEF Tick, procs
  <2>3. ASSUME NEW v \in Workers PROVE Soon(v)'
    <3>1. CASE pc[v] = "idle"
      BY <2>2, <3>1 DEF Soon, Claiming, Executing
    <3>2. CASE pc[v] # "idle"
      <4>1. t0[v] + LockTime \in Nat /\ t0[v] + TTL \in Nat
        BY <3>2, ExtraTypes
      <4> QED BY <2>1, <2>2, <4>1 DEF Late, Soon
    <3> QED BY <3>1, <3>2
  <2> QED BY <1>1, <2>3
<1>3. CASE UNCHANGED <<pc, t0, clock>>
  BY <1>1, <1>3 DEF Soon
<1> QED BY <1>2, <1>3 DEF Outside, Cleanup, procs, vars

LEMMA TimelyStep ==
  ASSUME LockTime <= TTL, OwnInv, TimesOK, Timely, [Next]_vars
  PROVE  Timely'
<1> SUFFICES ASSUME "late" \notin faults'.kinds
             PROVE  Hold' /\ \A v \in Workers : Soon(v)' /\ ReadOK(v)'
  BY DEF Timely
<1>1. Hold /\ \A v \in Workers : Soon(v) /\ ReadOK(v)
  BY LateStays DEF Timely
<1>2. Hold'
  BY <1>1, TimelyTimes, HoldStep
<1>3. CASE Outside
  BY <1>1, <1>2, <1>3, TimelyOutside
<1>4. ASSUME NEW w \in Workers, Kinds(w)
      PROVE  \A v \in Workers : Soon(v)' /\ ReadOK(v)'
  BY <1>1, <1>4, SoonKind, ReadKept
<1> QED BY <1>2, <1>3, <1>4, WorkerKinds DEF Next, Outside

\* With a lock that is no longer than the key's life, two requests with the
\* same key never run at once until one of them overruns: whatever rows
\* expire, are deleted or change hands, and whichever statements fail.
THEOREM RunsAlone ==
  ASSUME LockTime <= TTL
  PROVE  Spec => []SingleExecutor
<1> DEFINE I == OwnInv /\ TimesOK /\ Timely
<1>1. Init => I
  BY OwnInit, InitTimes
     DEF Init, Timely, Hold, Holds, Soon, ReadOK, Claiming, Executing
<1>2. I /\ [Next]_vars => I'
  BY OwnStep, TimesStep, TimelyStep
<1>3. I => SingleExecutor
  BY DEF Timely, Hold, Holds, SingleExecutor
<1> QED BY <1>1, <1>2, <1>3, PTL DEF Spec
================================================================================
