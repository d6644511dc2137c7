--------------------------- MODULE SystemLockProofs ---------------------------
(***************************************************************************)
(* Proofs about SystemLock: a lease that covers the operation is all that  *)
(* keeps two operations apart, and when operations are shorter than their  *)
(* first lease it does.                                                    *)
(***************************************************************************)
EXTENDS SystemLock, TLAPS

RowType == [id          : Nat,
            print       : Prints \cup {NoPrint},
            status      : RowStatuses \cup {"none"},
            lockedUntil : Nat,
            expiresAt   : Nat,
            body        : Prints \cup {NoPrint},
            readable    : BOOLEAN]

TableTyped == rows \in [Keys -> RowType] /\ lastId \in Nat

\* The part of TypeOK about the requests.
ProcsTyped ==
    /\ pc      \in [Workers -> Steps]
    /\ op      \in [Workers -> Prints \cup {NoPrint}]
    /\ t0      \in [Workers -> Nat]
    /\ mine    \in [Workers -> Nat]
    /\ from    \in [Workers -> RowStatuses \cup {"none"}]
    /\ renewBy \in [Workers -> Nat]
    /\ \A w \in Workers : renewBy[w] # 0 => pc[w] \in {"operate", "release"}

Typed == TableTyped /\ ProcsTyped /\ clock \in Nat /\ faults \in 0..MaxFaults

LEMMA TypeParts == TypeOK <=> Typed
  BY DEF TypeOK, StoreTypeOK, Typed, TableTyped, RowType, ProcsTyped

\* A step of w leaves the other requests alone.
Moves(w) ==
    \A v \in Workers : v # w =>
        pc'[v] = pc[v] /\ t0'[v] = t0[v] /\ mine'[v] = mine[v]

-----------------------------------------------------------------------------
(* What the statements do to the row, field by field.                      *)

LEMMA RowTyped ==
  ASSUME TableTyped
  PROVE  /\ Row \in RowType /\ Row.id \in Nat
         /\ Row.lockedUntil \in Nat /\ Row.expiresAt \in Nat
         /\ rows = [k \in Keys |-> Row]
  BY LockAssumption DEF TableTyped, RowType, Row

LEMMA NoRowTyped == NoRow \in RowType /\ NoRow.id = 0 /\ NoRow.status = "none"
  BY DEF NoRow, RowType

LEMMA CreateRow ==
  ASSUME TableTyped, NEW p \in Prints \cup {NoPrint}, NEW l \in Nat, NEW e \in Nat,
         CreateProcessing(LockKey, p, l, e)
  PROVE  /\ TableTyped'
         /\ Row.id = 0 /\ Row'.id = lastId + 1 /\ Row'.status = "processing"
         /\ Row'.lockedUntil = l /\ Row'.expiresAt = e
<1> DEFINE n == lastId + 1
           r == [NoRow EXCEPT !.id = n, !.print = p, !.status = "processing",
                              !.lockedUntil = l, !.expiresAt = e]
<1>1. rows' = [rows EXCEPT ![LockKey] = r] /\ lastId' = n /\ Row.id = 0
  BY DEF CreateProcessing, Exists, Row
<1>2. n \in Nat
  BY DEF TableTyped
<1> HIDE DEF n
<1>3. r \in RowType
  BY <1>2, NoRowTyped DEF RowType, RowStatuses
<1>4. r.id = n /\ r.status = "processing" /\ r.lockedUntil = l /\ r.expiresAt = e
  BY NoRowTyped DEF RowType
<1> HIDE DEF r
<1>5. TableTyped' /\ rows'[LockKey] = r
  BY <1>1, <1>2, <1>3, LockAssumption DEF TableTyped
<1> QED BY <1>1, <1>4, <1>5 DEF n, Row

LEMMA ReclaimRow ==
  ASSUME TableTyped, NEW l \in Nat, NEW e \in Nat, Reclaim(LockKey, l, e),
         UNCHANGED lastId
  PROVE  /\ TableTyped'
         /\ Row'.id = Row.id /\ Row'.status = "processing"
         /\ Row'.lockedUntil = l /\ Row'.expiresAt = e
<1> DEFINE new == [Row EXCEPT !.status = "processing", !.lockedUntil = l, !.expiresAt = e]
<1>1. rows' = [rows EXCEPT ![LockKey] = new]
  BY LockAssumption DEF Reclaim, Row, TableTyped
<1>2. /\ new \in RowType /\ new.id = Row.id /\ new.status = "processing"
      /\ new.lockedUntil = l /\ new.expiresAt = e
  BY RowTyped DEF RowType, RowStatuses
<1> HIDE DEF new
<1> QED BY <1>1, <1>2, LockAssumption DEF TableTyped, Row

LEMMA RenewRow ==
  ASSUME TableTyped, NEW l \in Nat, NEW e \in Nat, UNCHANGED lastId,
         rows' = [rows EXCEPT ![LockKey].lockedUntil = l, ![LockKey].expiresAt = e]
  PROVE  /\ TableTyped'
         /\ Row'.id = Row.id /\ Row'.status = Row.status
         /\ Row'.lockedUntil = l /\ Row'.expiresAt = e
  BY LockAssumption DEF TableTyped, RowType, RowStatuses, Row

\* Giving the row up, or not finding it any more.
LEMMA ReleasedRow ==
  ASSUME TableTyped, NEW id, NEW b \in Prints \cup {NoPrint}, NEW l \in Nat,
         NEW e \in Nat, UNCHANGED lastId,
         MarkSucceeded(LockKey, id, b, TRUE, e)
           \/ MarkFailedRetryable(LockKey, id, l, e) \/ UNCHANGED rows
  PROVE  TableTyped' /\ (UNCHANGED Row \/ Row'.status # "processing")
<1>1. CASE UNCHANGED rows
  BY <1>1 DEF TableTyped, Row
<1>2. CASE MarkSucceeded(LockKey, id, b, TRUE, e) /\ Row.id = id
  <2> DEFINE new == [Row EXCEPT !.status = "succeeded", !.body = b, !.readable = TRUE,
                                !.lockedUntil = 0, !.expiresAt = e]
  <2>1. rows' = [rows EXCEPT ![LockKey] = new]
    BY <1>2, LockAssumption DEF MarkSucceeded, Row, TableTyped
  <2>2. new \in RowType /\ new.status = "succeeded"
    BY RowTyped DEF RowType, RowStatuses
  <2> HIDE DEF new
  <2> QED BY <2>1, <2>2, LockAssumption DEF TableTyped, Row
<1>3. CASE MarkFailedRetryable(LockKey, id, l, e) /\ Row.id = id
  <2> DEFINE new == [Row EXCEPT !.status = "failed_retryable", !.lockedUntil = l,
                                !.expiresAt = e]
  <2>1. rows' = [rows EXCEPT ![LockKey] = new]
    BY <1>3, LockAssumption DEF MarkFailedRetryable, Row, TableTyped
  <2>2. new \in RowType /\ new.status = "failed_retryable"
    BY RowTyped DEF RowType, RowStatuses
  <2> HIDE DEF new
  <2> QED BY <2>1, <2>2, LockAssumption DEF TableTyped, Row
<1>4. CASE Row.id # id
  BY <1>4 DEF MarkSucceeded, MarkFailedRetryable, TableTyped, Row
<1> QED BY <1>1, <1>2, <1>3, <1>4

LEMMA DeletedRow ==
  ASSUME TableTyped, DeleteExpired(LockKey)
  PROVE  TableTyped' /\ Row.id # 0 /\ Row.expiresAt <= clock /\ Row' = NoRow
  BY NoRowTyped, LockAssumption DEF DeleteExpired, TableTyped, Expired, Exists, Row

-----------------------------------------------------------------------------
(* The steps of a request, as far as its own state goes.                   *)

LEMMA LeaveTyped ==
  ASSUME ProcsTyped, NEW w \in Workers, Leave(w)
  PROVE  ProcsTyped' /\ Moves(w) /\ pc'[w] = "idle"
  BY DEF Leave, ProcsTyped, Moves, Steps

LEMMA GotoTyped ==
  ASSUME ProcsTyped, NEW w \in Workers, NEW step \in Acquiring, pc[w] \in Acquiring,
         Goto(w, step), UNCHANGED renewBy,
         \/ UNCHANGED <<mine, from>>
         \/ /\ mine' = [mine EXCEPT ![w] = Row.id] /\ Row.id \in Nat
            /\ from' = [from EXCEPT ![w] = Row.status]
            /\ Row.status \in RowStatuses \cup {"none"}
  PROVE  ProcsTyped' /\ Moves(w) /\ pc'[w] = step /\ t0'[w] = t0[w]
  BY DEF Goto, ProcsTyped, Moves, Acquiring, Steps

LEMMA AcquiredTyped ==
  ASSUME ProcsTyped, clock \in Nat, NEW w \in Workers, NEW id \in Nat,
         Acquired(w, id), UNCHANGED from
  PROVE  ProcsTyped' /\ Moves(w) /\ pc'[w] = "operate" /\ t0'[w] = t0[w] /\ mine'[w] = id
<1>1. clock + RenewEvery \in Nat
  BY TimeAssumption
<1> QED BY <1>1 DEF Acquired, Goto, ProcsTyped, Moves, Steps

LEMMA FaultTyped ==
  ASSUME faults \in 0..MaxFaults,
         UNCHANGED faults \/ Fault("db") \/ Fault("crash")
  PROVE  faults' \in 0..MaxFaults
  BY FaultAssumption DEF Fault

-----------------------------------------------------------------------------
\* A request reads its clock before its first statement, and the others follow
\* within its lease.
Started ==
    /\ \A w \in Workers : pc[w] # "idle" => t0[w] <= clock
    /\ \A w \in Workers : pc[w] \in Acquiring => clock < t0[w] + Lease
    /\ \A w \in Workers : pc[w] = "reclaim" => mine[w] # 0

LeaseWithinTTL == Row.status = "processing" => Row.lockedUntil <= Row.expiresAt

\* The row is held, by the request that operates.
Owned ==
    \A w \in Workers :
        Operating(w) => /\ mine[w] # 0 /\ Row.id = mine[w]
                        /\ Row.status = "processing" /\ Row.lockedUntil > clock

Inv == Typed /\ Started /\ LeaseWithinTTL /\ Owned /\ OneOperation

\* With Short the first lease of a request outlives its operation.
FirstLease ==
    \A w \in Workers : pc[w] = "operate" => Row.lockedUntil >= t0[w] + Lease

LEMMA InitInv == Init => Inv /\ FirstLease
<1> SUFFICES ASSUME Init PROVE Inv /\ FirstLease
  OBVIOUS
<1>1. TableTyped /\ Row = NoRow
  BY NoRowTyped, LockAssumption DEF Init, StoreInit, TableTyped, Row
<1>2. ProcsTyped /\ clock \in Nat /\ faults \in 0..MaxFaults
  BY FaultAssumption DEF Init, StoreInit, ProcsTyped, Steps
<1>3. \A w \in Workers : pc[w] = "idle"
  BY DEF Init
<1>4. Started /\ Owned /\ OneOperation /\ FirstLease
  BY <1>3 DEF Started, Owned, OneOperation, Operating, Acquiring, FirstLease
<1>5. LeaseWithinTTL
  BY <1>1, NoRowTyped DEF LeaseWithinTTL
<1> QED BY <1>1, <1>2, <1>4, <1>5 DEF Inv, Typed

-----------------------------------------------------------------------------
(* The kinds of step.                                                      *)

\* A request that neither operates before nor after, and leaves the row alone.
LEMMA Waits ==
  ASSUME Inv, FirstLease, NEW w \in Workers, Moves(w), Typed',
         ~Operating(w), pc'[w] \in Acquiring \cup {"idle"},
         pc'[w] # "idle" => t0'[w] <= clock /\ clock < t0'[w] + Lease,
         pc'[w] = "reclaim" => mine'[w] # 0,
         UNCHANGED <<Row, clock>>
  PROVE  Inv' /\ FirstLease'
<1>1. \A v \in Workers : v # w => pc'[v] = pc[v] /\ t0'[v] = t0[v] /\ mine'[v] = mine[v]
  BY DEF Moves
<1>2. Started'
  BY <1>1 DEF Inv, Started, Acquiring
<1>3. LeaseWithinTTL'
  BY DEF Inv, LeaseWithinTTL
<1>4. \A v \in Workers : pc'[v] \in {"operate", "release"} =>
          v # w /\ pc'[v] = pc[v] /\ t0'[v] = t0[v] /\ mine'[v] = mine[v]
  BY <1>1 DEF Acquiring
<1>5. Owned' /\ OneOperation' /\ FirstLease'
  BY <1>4 DEF Inv, Owned, OneOperation, Operating, FirstLease
<1> QED BY <1>2, <1>3, <1>5 DEF Inv

\* The request that takes the row finds nobody operating.
LEMMA TakesRow ==
  ASSUME Inv, FirstLease, NEW w \in Workers, Moves(w), Typed', Lease <= TTL,
         pc[w] \in Acquiring, pc'[w] = "operate", t0'[w] = t0[w],
         Row.id = 0 \/ Row.status # "processing" \/ Row.lockedUntil <= t0[w],
         mine'[w] # 0, Row'.id = mine'[w], Row'.status = "processing",
         Row'.lockedUntil = t0[w] + Lease, Row'.expiresAt = t0[w] + TTL,
         UNCHANGED clock
  PROVE  Inv' /\ FirstLease'
<1>1. \A v \in Workers : v # w => pc'[v] = pc[v] /\ t0'[v] = t0[v] /\ mine'[v] = mine[v]
  BY DEF Moves
<1>2. /\ t0[w] \in Nat /\ clock \in Nat /\ Lease \in Nat /\ TTL \in Nat
      /\ t0[w] <= clock /\ clock < t0[w] + Lease
      /\ Row.lockedUntil \in Nat
  BY RowTyped, TimeAssumption DEF Inv, Typed, ProcsTyped, Started, Acquiring
<1>3. \A v \in Workers : ~Operating(v)
  BY <1>2 DEF Inv, Owned
<1>4. \A v \in Workers : pc'[v] \in {"operate", "release"} => v = w
  BY <1>1, <1>3 DEF Operating
<1>5. Started'
  BY <1>1, <1>2 DEF Inv, Started, Acquiring
<1>6. LeaseWithinTTL'
  BY <1>2 DEF LeaseWithinTTL
<1>7. Owned' /\ OneOperation' /\ FirstLease'
  BY <1>2, <1>4 DEF Owned, OneOperation, Operating, FirstLease
<1> QED BY <1>5, <1>6, <1>7 DEF Inv

\* The row changes in its deadlines only, and later ones.
LEMMA Extended ==
  ASSUME Inv, FirstLease, Typed', UNCHANGED <<pc, t0, mine, clock>>, Lease <= TTL,
         Row'.id = Row.id, Row'.status = Row.status,
         Row'.lockedUntil = clock + Lease, Row'.expiresAt = clock + TTL
  PROVE  Inv' /\ FirstLease'
<1>1. clock \in Nat /\ Lease \in Nat \ {0} /\ TTL \in Nat /\ t0 \in [Workers -> Nat]
  BY TimeAssumption DEF Inv, Typed, ProcsTyped
<1>2. \A w \in Workers : pc[w] = "operate" => t0[w] <= clock
  BY DEF Inv, Started
<1>3. FirstLease'
  BY <1>1, <1>2 DEF FirstLease
<1>4. LeaseWithinTTL' /\ Owned'
  BY <1>1 DEF Inv, LeaseWithinTTL, Owned, Operating
<1>5. Started' /\ OneOperation'
  BY DEF Inv, Started, OneOperation, Operating
<1> QED BY <1>3, <1>4, <1>5 DEF Inv

\* The request that operates goes on to its release, and keeps the row.
LEMMA Finishes ==
  ASSUME Inv, FirstLease, NEW w \in Workers, Moves(w), Typed',
         pc[w] = "operate", pc'[w] = "release", t0'[w] = t0[w], mine'[w] = mine[w],
         UNCHANGED <<Row, clock>>
  PROVE  Inv' /\ FirstLease'
<1>1. \A v \in Workers : t0'[v] = t0[v] /\ mine'[v] = mine[v]
                           /\ (v # w => pc'[v] = pc[v])
  BY DEF Moves
<1>2. Started'
  BY <1>1 DEF Inv, Started, Acquiring
<1>3. LeaseWithinTTL'
  BY DEF Inv, LeaseWithinTTL
<1>4. \A v \in Workers : pc'[v] \in {"operate", "release"} =>
                             pc[v] \in {"operate", "release"}
  BY <1>1
<1>5. \A v \in Workers : pc'[v] = "operate" => pc[v] = "operate"
  BY <1>1
<1>6. Owned'
  BY <1>1, <1>4 DEF Inv, Owned, Operating
<1>7. OneOperation' /\ FirstLease'
  BY <1>1, <1>4, <1>5 DEF Inv, OneOperation, Operating, FirstLease
<1> QED BY <1>2, <1>3, <1>6, <1>7 DEF Inv

\* A request ends; if it operated, whatever it made of the row is nobody's.
LEMMA Ends ==
  ASSUME Inv, FirstLease, NEW w \in Workers, Moves(w), Typed', pc'[w] = "idle",
         UNCHANGED Row \/ (Operating(w) /\ Row'.status # "processing"),
         UNCHANGED clock
  PROVE  Inv' /\ FirstLease'
<1>1. \A v \in Workers : v # w => pc'[v] = pc[v] /\ t0'[v] = t0[v] /\ mine'[v] = mine[v]
  BY DEF Moves
<1>2. Started'
  BY <1>1 DEF Inv, Started, Acquiring
<1>3. LeaseWithinTTL'
  BY DEF Inv, LeaseWithinTTL
<1>4. \A v \in Workers : pc'[v] \in {"operate", "release"} =>
          /\ v # w /\ pc'[v] = pc[v] /\ t0'[v] = t0[v] /\ mine'[v] = mine[v]
          /\ UNCHANGED Row
  BY <1>1 DEF Inv, OneOperation, Operating
<1>5. Owned'
  BY <1>4 DEF Inv, Owned, Operating
<1>6. OneOperation' /\ FirstLease'
  BY <1>4 DEF Inv, OneOperation, Operating, FirstLease
<1> QED BY <1>2, <1>3, <1>5, <1>6 DEF Inv

-----------------------------------------------------------------------------
\* Every step but the clock's.
LEMMA WorkerInv ==
  ASSUME Inv, FirstLease, Lease <= TTL, NEW w \in Workers, Worker(w)
  PROVE  Inv' /\ FirstLease'
<1> USE DEF table
<1>t. /\ TableTyped /\ ProcsTyped /\ clock \in Nat /\ faults \in 0..MaxFaults
      /\ TTL \in Nat /\ Lease \in Nat \ {0} /\ RenewEvery \in Nat
      /\ t0[w] \in Nat /\ mine[w] \in Nat /\ op[w] \in Prints \cup {NoPrint}
      /\ t0[w] + Lease \in Nat /\ t0[w] + TTL \in Nat
      /\ clock + Lease \in Nat /\ clock + TTL \in Nat
  BY TimeAssumption DEF Inv, Typed, ProcsTyped
<1>r. Row.id \in Nat /\ Row.status \in RowStatuses \cup {"none"}
        /\ Row.lockedUntil \in Nat /\ Row.expiresAt \in Nat
  BY <1>t, RowTyped DEF RowType
<1>s. /\ pc[w] # "idle" => t0[w] <= clock
      /\ pc[w] \in Acquiring => t0[w] <= clock /\ clock < t0[w] + Lease
      /\ pc[w] \in Acquiring => ~Operating(w)
      /\ pc[w] = "reclaim" => mine[w] # 0
  BY DEF Inv, Started, Acquiring, Operating
<1>1. ASSUME NEW id \in Prints, Acquire(w, id)
      PROVE  Inv' /\ FirstLease'
  <2>1. TableTyped' /\ UNCHANGED <<Row, clock, faults>>
    BY <1>1, <1>t DEF Acquire, TableTyped, Row
  <2>2. /\ ProcsTyped' /\ Moves(w) /\ pc'[w] = "create" /\ t0'[w] = clock
        /\ pc[w] = "idle"
    BY <1>1, <1>t DEF Acquire, ProcsTyped, Moves, Steps, Acquiring
  <2>3. clock < clock + Lease
    BY <1>t
  <2> QED BY <1>t, <2>1, <2>2, <2>3, Waits DEF Typed, Acquiring, Operating
<1>2. ASSUME Create(w)
      PROVE  Inv' /\ FirstLease'
  <2>0. pc[w] = "create" /\ pc[w] \in Acquiring /\ UNCHANGED <<clock, faults>>
    BY <1>2 DEF Create, Acquiring
  <2>1. CASE /\ CreateProcessing(LockKey, op[w], t0[w] + Lease, t0[w] + TTL)
             /\ Acquired(w, lastId + 1)
             /\ UNCHANGED from
    <3>1. /\ TableTyped' /\ Row.id = 0 /\ Row'.id = lastId + 1
          /\ Row'.status = "processing"
          /\ Row'.lockedUntil = t0[w] + Lease /\ Row'.expiresAt = t0[w] + TTL
      BY <1>t, <2>1, CreateRow
    <3>2. lastId + 1 \in Nat /\ lastId + 1 # 0
      BY <1>t DEF TableTyped
    <3>3. ProcsTyped' /\ Moves(w) /\ pc'[w] = "operate" /\ t0'[w] = t0[w]
            /\ mine'[w] = lastId + 1
      BY <1>t, <2>1, <3>2, AcquiredTyped
    <3> QED BY <1>t, <2>0, <3>1, <3>2, <3>3, TakesRow DEF Typed
  <2>2. CASE Goto(w, "get") /\ UNCHANGED <<table, mine, from, renewBy>>
    <3>1. ProcsTyped' /\ Moves(w) /\ pc'[w] = "get" /\ t0'[w] = t0[w]
      BY <1>t, <2>0, <2>2, GotoTyped DEF Acquiring
    <3>2. TableTyped' /\ UNCHANGED Row
      BY <1>t, <2>2 DEF TableTyped, Row
    <3> QED BY <1>t, <1>s, <2>0, <3>1, <3>2, Waits DEF Typed, Acquiring
  <2> QED BY <1>2, <2>1, <2>2 DEF Create
<1>3. ASSUME GetExisting(w)
      PROVE  Inv' /\ FirstLease'
  <2>0. pc[w] = "get" /\ pc[w] \in Acquiring /\ UNCHANGED <<table, clock, faults>>
    BY <1>3 DEF GetExisting, Acquiring
  <2>1. TableTyped' /\ UNCHANGED Row
    BY <1>t, <2>0 DEF TableTyped, Row
  <2>2. CASE Leave(w)
    <3>1. ProcsTyped' /\ Moves(w) /\ pc'[w] = "idle"
      BY <1>t, <2>2, LeaveTyped
    <3> QED BY <1>t, <1>s, <2>0, <2>1, <3>1, Waits DEF Typed
  <2>3. CASE /\ Row.id # 0 /\ Goto(w, "reclaim")
             /\ mine' = [mine EXCEPT ![w] = Row.id]
             /\ from' = [from EXCEPT ![w] = Row.status]
             /\ UNCHANGED renewBy
    <3>1. ProcsTyped' /\ Moves(w) /\ pc'[w] = "reclaim" /\ t0'[w] = t0[w]
      BY <1>t, <1>r, <2>0, <2>3, GotoTyped DEF Acquiring
    <3>2. mine'[w] # 0
      BY <1>t, <2>3 DEF ProcsTyped
    <3> QED BY <1>t, <1>s, <2>0, <2>1, <3>1, <3>2, Waits DEF Typed, Acquiring
  <2> QED BY <1>3, <2>2, <2>3 DEF GetExisting
<1>4. ASSUME TryReclaim(w)
      PROVE  Inv' /\ FirstLease'
  <2>0. /\ pc[w] = "reclaim" /\ pc[w] \in Acquiring /\ mine[w] # 0
        /\ UNCHANGED <<lastId, clock, faults>>
    BY <1>4, <1>s DEF TryReclaim, Acquiring
  <2>1. CASE /\ Takes(w)
             /\ Reclaim(LockKey, t0[w] + Lease, t0[w] + TTL)
             /\ Acquired(w, mine[w])
             /\ UNCHANGED from
    <3>1. Row.id = mine[w] /\ Row.lockedUntil <= t0[w]
      BY <2>1 DEF Takes, Reclaimable, Row
    <3>2. /\ TableTyped' /\ Row'.id = Row.id /\ Row'.status = "processing"
          /\ Row'.lockedUntil = t0[w] + Lease /\ Row'.expiresAt = t0[w] + TTL
      BY <1>t, <2>0, <2>1, ReclaimRow
    <3>3. ProcsTyped' /\ Moves(w) /\ pc'[w] = "operate" /\ t0'[w] = t0[w]
            /\ mine'[w] = mine[w]
      BY <1>t, <2>1, AcquiredTyped
    <3> QED BY <1>t, <2>0, <3>1, <3>2, <3>3, TakesRow DEF Typed
  <2>2. CASE Leave(w) /\ UNCHANGED rows
    <3>1. ProcsTyped' /\ Moves(w) /\ pc'[w] = "idle"
      BY <1>t, <2>2, LeaveTyped
    <3>2. TableTyped' /\ UNCHANGED Row
      BY <1>t, <2>0, <2>2 DEF TableTyped, Row
    <3> QED BY <1>t, <1>s, <2>0, <3>1, <3>2, Waits DEF Typed
  <2> QED BY <1>4, <2>1, <2>2 DEF TryReclaim
<1>5. ASSUME Renew(w)
      PROVE  Inv' /\ FirstLease'
  <2>0. /\ UNCHANGED <<lastId, clock, pc, op, t0, mine, from>> /\ renewBy[w] # 0
        /\ \/ renewBy' = [renewBy EXCEPT ![w] = clock + RenewEvery]
           \/ renewBy' = [renewBy EXCEPT ![w] = 0]
    BY <1>5 DEF Renew
  <2>1. clock + RenewEvery \in Nat
    BY <1>t
  <2>2. ProcsTyped'
    BY <1>t, <2>0, <2>1 DEF ProcsTyped
  <2>3. faults' \in 0..MaxFaults
    BY <1>5, <1>t, FaultTyped DEF Renew
  <2>4. CASE rows' = [rows EXCEPT ![LockKey].lockedUntil = clock + Lease,
                                  ![LockKey].expiresAt = clock + TTL]
    <3>1. /\ TableTyped' /\ Row'.id = Row.id /\ Row'.status = Row.status
          /\ Row'.lockedUntil = clock + Lease /\ Row'.expiresAt = clock + TTL
      BY <1>t, <2>0, <2>4, RenewRow
    <3> QED BY <1>t, <2>0, <2>2, <2>3, <3>1, Extended DEF Typed
  <2>5. CASE UNCHANGED rows
    <3>1. TableTyped' /\ UNCHANGED Row
      BY <1>t, <2>0, <2>5 DEF TableTyped, Row
    <3>2. Started' /\ LeaseWithinTTL' /\ Owned' /\ OneOperation' /\ FirstLease'
      BY <2>0, <3>1 DEF Inv, Started, LeaseWithinTTL, Owned, OneOperation, Operating,
                        FirstLease
    <3> QED BY <1>t, <2>0, <2>2, <2>3, <3>1, <3>2 DEF Inv, Typed
  <2> QED BY <1>5, <2>4, <2>5 DEF Renew
<1>6. ASSUME Finish(w)
      PROVE  Inv' /\ FirstLease'
  <2>1. TableTyped' /\ UNCHANGED <<Row, clock, faults>>
    BY <1>6, <1>t DEF Finish, TableTyped, Row
  <2>2. /\ ProcsTyped' /\ Moves(w) /\ pc[w] = "operate" /\ pc'[w] = "release"
        /\ t0'[w] = t0[w] /\ mine'[w] = mine[w]
    BY <1>6, <1>t DEF Finish, Goto, ProcsTyped, Moves, Steps
  <2> QED BY <1>t, <2>1, <2>2, Finishes DEF Typed
<1>7. ASSUME Release(w)
      PROVE  Inv' /\ FirstLease'
  <2>1. Operating(w) /\ Leave(w) /\ UNCHANGED <<lastId, clock>>
    BY <1>7 DEF Release, Operating
  <2>2. TableTyped' /\ (UNCHANGED Row \/ Row'.status # "processing")
    BY <1>7, <1>t, <2>1, ReleasedRow DEF Release
  <2>3. faults' \in 0..MaxFaults
    BY <1>7, <1>t, FaultTyped DEF Release
  <2>4. ProcsTyped' /\ Moves(w) /\ pc'[w] = "idle"
    BY <1>t, <2>1, LeaveTyped
  <2> QED BY <1>t, <2>1, <2>2, <2>3, <2>4, Ends DEF Typed
<1>8. ASSUME StatementFails(w) \/ Crash(w)
      PROVE  Inv' /\ FirstLease'
  <2>1. TableTyped' /\ UNCHANGED <<Row, clock>> /\ Leave(w)
    BY <1>8, <1>t DEF StatementFails, Crash, TableTyped, Row
  <2>2. faults' \in 0..MaxFaults
    BY <1>8, <1>t, FaultTyped DEF StatementFails, Crash
  <2>3. ProcsTyped' /\ Moves(w) /\ pc'[w] = "idle"
    BY <1>t, <2>1, LeaveTyped
  <2> QED BY <1>t, <2>1, <2>2, <2>3, Ends DEF Typed
<1> QED BY <1>1, <1>2, <1>3, <1>4, <1>5, <1>6, <1>7, <1>8 DEF Worker

\* The cleanup job finds a row whose TTL is over, and hence its lease too.
LEMMA CleanupInv ==
  ASSUME Inv, FirstLease, Cleanup
  PROVE  Inv' /\ FirstLease'
<1>1. UNCHANGED <<clock, procs, faults>> /\ DeleteExpired(LockKey)
        /\ TableTyped /\ clock \in Nat
  BY DEF Cleanup, Inv, Typed
<1>2. TableTyped' /\ Row.expiresAt <= clock /\ Row' = NoRow
        /\ Row.lockedUntil \in Nat /\ Row.expiresAt \in Nat
  BY <1>1, DeletedRow, RowTyped
<1>3. \A w \in Workers : ~Operating(w)
  BY <1>1, <1>2 DEF Inv, Owned, LeaseWithinTTL
<1>4. Typed' /\ Started'
  BY <1>1, <1>2 DEF Inv, Typed, ProcsTyped, Started, procs
<1>5. LeaseWithinTTL'
  BY <1>2, NoRowTyped DEF LeaseWithinTTL
<1>6. Owned' /\ OneOperation' /\ FirstLease'
  BY <1>1, <1>3 DEF Owned, OneOperation, FirstLease, Operating, procs
<1> QED BY <1>4, <1>5, <1>6 DEF Inv

\* The clock moves on, and the lease still covers the operation.
LEMMA TickInv ==
  ASSUME Inv, FirstLease, Tick, HolderIsCovered'
  PROVE  Inv' /\ FirstLease'
<1>1. /\ UNCHANGED <<table, procs, faults, Row>> /\ clock' = clock + 1
      /\ clock \in Nat
      /\ \A w \in Workers : pc[w] # "release"
      /\ \A w \in Workers : pc[w] \in Acquiring => clock + 1 < t0[w] + Lease - RenewEvery
  BY DEF Tick, Inv, Typed, table, Row
<1>2. Typed'
  BY <1>1 DEF Inv, Typed, TableTyped, ProcsTyped, table, procs
<1>3. Started'
  <2>1. \A w \in Workers : t0[w] \in Nat
    BY DEF Inv, Typed, ProcsTyped
  <2> QED BY <1>1, <2>1, TimeAssumption DEF Inv, Started, procs
<1>4. LeaseWithinTTL' /\ OneOperation' /\ FirstLease'
  BY <1>1 DEF Inv, LeaseWithinTTL, OneOperation, Operating, FirstLease, procs
<1>5. Owned'
  BY <1>1 DEF Inv, Owned, Operating, HolderIsCovered, procs
<1> QED BY <1>2, <1>3, <1>4, <1>5 DEF Inv

LEMMA NextInv ==
  ASSUME Lease <= TTL
  PROVE  Inv /\ FirstLease /\ HolderIsCovered' /\ [Next]_vars => Inv' /\ FirstLease'
<1> SUFFICES ASSUME Inv, FirstLease, HolderIsCovered', [Next]_vars
             PROVE  Inv' /\ FirstLease'
  OBVIOUS
<1>1. CASE UNCHANGED vars
  <2>1. UNCHANGED <<table, clock, procs, faults, Row>>
    BY <1>1 DEF vars, table, Row
  <2>2. Typed'
    BY <2>1 DEF Inv, Typed, TableTyped, ProcsTyped, table, procs
  <2> QED BY <2>1, <2>2 DEF Inv, Started, LeaseWithinTTL, Owned, OneOperation, Operating,
                            FirstLease, procs
<1> QED BY <1>1, WorkerInv, CleanupInv, TickInv DEF Next

\* The clock does not reach the end of the first lease while a request lives.
LEMMA ShortStep ==
  ASSUME Short, Inv, FirstLease, HolderIsCovered, Lease <= TTL, [Next]_vars
  PROVE  HolderIsCovered'
<1>1. CASE Tick
  <2>1. /\ UNCHANGED <<pc, t0, Row>> /\ clock' = clock + 1
        /\ \A w \in Workers : pc[w] # "idle" => clock + 1 < t0[w] + Lease
    BY <1>1 DEF Tick, procs, table, Row
  <2>2. /\ \A w \in Workers : t0[w] \in Nat
        /\ Lease \in Nat /\ clock \in Nat /\ Row.lockedUntil \in Nat
    BY RowTyped, TimeAssumption DEF Inv, Typed, ProcsTyped
  <2>3. \A w \in Workers : pc[w] = "operate" =>
            Row.lockedUntil >= t0[w] + Lease /\ Row.status = "processing"
    BY DEF FirstLease, HolderIsCovered
  <2> QED BY <2>1, <2>2, <2>3 DEF HolderIsCovered
<1>2. CASE ~Tick
  <2>1. Inv'
    <3>1. CASE UNCHANGED vars
      <4>1. UNCHANGED <<table, clock, procs, faults, Row>>
        BY <3>1 DEF vars, table, Row
      <4>2. HolderIsCovered'
        BY <4>1 DEF HolderIsCovered, procs
      <4> QED BY <4>2, NextInv
    <3> QED BY <1>2, <3>1, WorkerInv, CleanupInv DEF Next
  <2> QED BY <2>1 DEF Inv, Owned, Operating, HolderIsCovered
<1> QED BY <1>1, <1>2

LEMMA InitCovered == Init => HolderIsCovered
  BY DEF Init, HolderIsCovered

-----------------------------------------------------------------------------
(* The types, whatever the times and however long operations take.         *)

LEMMA WorkerTyped ==
  ASSUME Typed, NEW w \in Workers, Worker(w)
  PROVE  Typed'
<1> USE DEF table
<1>1. /\ TableTyped /\ ProcsTyped /\ clock \in Nat /\ faults \in 0..MaxFaults
      /\ mine[w] \in Nat /\ op[w] \in Prints \cup {NoPrint}
      /\ t0[w] + Lease \in Nat /\ t0[w] + TTL \in Nat
      /\ clock + Lease \in Nat /\ clock + TTL \in Nat /\ clock + RenewEvery \in Nat
  BY TimeAssumption DEF Typed, ProcsTyped
<1>2. Row.id \in Nat /\ Row.status \in RowStatuses \cup {"none"}
  BY <1>1, RowTyped DEF RowType
<1>3. ASSUME UNCHANGED table, UNCHANGED clock, ProcsTyped',
             UNCHANGED faults \/ Fault("db") \/ Fault("crash")
      PROVE  Typed'
  <2>1. TableTyped' /\ faults' \in 0..MaxFaults
    BY <1>1, <1>3, FaultTyped DEF TableTyped
  <2> QED BY <1>1, <1>3, <2>1 DEF Typed
<1>4. ASSUME NEW id \in Prints, Acquire(w, id) PROVE Typed'
  <2>1. ProcsTyped'
    BY <1>1, <1>4 DEF Acquire, ProcsTyped, Steps, Acquiring
  <2> QED BY <1>3, <1>4, <2>1 DEF Acquire
<1>5. ASSUME Create(w) PROVE Typed'
  <2>1. pc[w] \in Acquiring /\ UNCHANGED <<clock, faults>>
    BY <1>5 DEF Create, Acquiring
  <2>2. CASE /\ CreateProcessing(LockKey, op[w], t0[w] + Lease, t0[w] + TTL)
             /\ Acquired(w, lastId + 1)
             /\ UNCHANGED from
    <3>1. TableTyped'
      BY <1>1, <2>2, CreateRow
    <3>2. lastId + 1 \in Nat
      BY <1>1 DEF TableTyped
    <3>3. ProcsTyped'
      BY <1>1, <2>2, <3>2, AcquiredTyped
    <3> QED BY <1>1, <2>1, <3>1, <3>3 DEF Typed
  <2>3. CASE Goto(w, "get") /\ UNCHANGED <<table, mine, from, renewBy>>
    <3>1. ProcsTyped'
      BY <1>1, <2>1, <2>3, GotoTyped DEF Acquiring
    <3> QED BY <1>3, <2>1, <2>3, <3>1
  <2> QED BY <1>5, <2>2, <2>3 DEF Create
<1>6. ASSUME GetExisting(w) PROVE Typed'
  <2>1. pc[w] \in Acquiring /\ UNCHANGED <<table, clock, faults>>
    BY <1>6 DEF GetExisting, Acquiring
  <2>2. CASE Leave(w)
    <3>1. ProcsTyped'
      BY <1>1, <2>2, LeaveTyped
    <3> QED BY <1>3, <2>1, <3>1
  <2>3. CASE /\ Goto(w, "reclaim")
             /\ mine' = [mine EXCEPT ![w] = Row.id]
             /\ from' = [from EXCEPT ![w] = Row.status]
             /\ UNCHANGED renewBy
    <3>1. ProcsTyped'
      BY <1>1, <1>2, <2>1, <2>3, GotoTyped DEF Acquiring
    <3> QED BY <1>3, <2>1, <3>1
  <2> QED BY <1>6, <2>2, <2>3 DEF GetExisting
<1>7. ASSUME TryReclaim(w) PROVE Typed'
  <2>1. UNCHANGED <<lastId, clock, faults>>
    BY <1>7 DEF TryReclaim
  <2>2. CASE /\ Reclaim(LockKey, t0[w] + Lease, t0[w] + TTL)
             /\ Acquired(w, mine[w])
             /\ UNCHANGED from
    <3>1. TableTyped'
      BY <1>1, <2>1, <2>2, ReclaimRow
    <3>2. ProcsTyped'
      BY <1>1, <2>2, AcquiredTyped
    <3> QED BY <1>1, <2>1, <3>1, <3>2 DEF Typed
  <2>3. CASE Leave(w) /\ UNCHANGED rows
    <3>1. ProcsTyped'
      BY <1>1, <2>3, LeaveTyped
    <3> QED BY <1>3, <2>1, <2>3, <3>1
  <2> QED BY <1>7, <2>2, <2>3 DEF TryReclaim
<1>8. ASSUME Renew(w) PROVE Typed'
  <2>1. /\ UNCHANGED <<lastId, clock, pc, op, t0, mine, from>> /\ renewBy[w] # 0
        /\ \/ renewBy' = [renewBy EXCEPT ![w] = clock + RenewEvery]
           \/ renewBy' = [renewBy EXCEPT ![w] = 0]
    BY <1>8 DEF Renew
  <2>2. ProcsTyped'
    BY <1>1, <2>1 DEF ProcsTyped
  <2>3. \/ UNCHANGED rows
        \/ rows' = [rows EXCEPT ![LockKey].lockedUntil = clock + Lease,
                                ![LockKey].expiresAt = clock + TTL]
    BY <1>8 DEF Renew
  <2>4. TableTyped'
    BY <1>1, <2>1, <2>3, RenewRow DEF TableTyped
  <2>5. faults' \in 0..MaxFaults
    BY <1>1, <1>8, FaultTyped DEF Renew
  <2> QED BY <1>1, <2>1, <2>2, <2>4, <2>5 DEF Typed
<1>9. ASSUME Finish(w) PROVE Typed'
  <2>1. ProcsTyped'
    BY <1>1, <1>9 DEF Finish, Goto, ProcsTyped, Steps
  <2> QED BY <1>3, <1>9, <2>1 DEF Finish
<1>10. ASSUME Release(w) PROVE Typed'
  <2>1. Leave(w) /\ UNCHANGED <<lastId, clock>>
    BY <1>10 DEF Release
  <2>2. TableTyped'
    BY <1>1, <1>10, <2>1, ReleasedRow DEF Release
  <2>3. ProcsTyped' /\ faults' \in 0..MaxFaults
    BY <1>1, <1>10, <2>1, LeaveTyped, FaultTyped DEF Release
  <2> QED BY <1>1, <2>1, <2>2, <2>3 DEF Typed
<1>11. ASSUME StatementFails(w) \/ Crash(w) PROVE Typed'
  <2>1. ProcsTyped'
    BY <1>1, <1>11, LeaveTyped DEF StatementFails, Crash
  <2> QED BY <1>3, <1>11, <2>1 DEF StatementFails, Crash
<1> QED BY <1>4, <1>5, <1>6, <1>7, <1>8, <1>9, <1>10, <1>11 DEF Worker

\* Every variable of the lock and its table keeps its type, and only a request that
\* has the lock has a renewal goroutine.
THEOREM LockTypes == Spec => []TypeOK
<1>1. Init => Typed
  BY InitInv DEF Inv
<1>2. Typed /\ [Next]_vars => Typed'
  <2> SUFFICES ASSUME Typed, [Next]_vars PROVE Typed'
    OBVIOUS
  <2>1. CASE Cleanup
    <3>1. TableTyped'
      BY <2>1, DeletedRow DEF Cleanup, Typed
    <3> QED BY <2>1, <3>1 DEF Cleanup, procs, Typed, ProcsTyped
  <2>2. CASE Tick \/ UNCHANGED vars
    BY <2>2 DEF Tick, vars, table, procs, Typed, TableTyped, ProcsTyped
  <2> QED BY <2>1, <2>2, WorkerTyped DEF Next
<1> QED BY <1>1, <1>2, TypeParts, PTL DEF Spec

-----------------------------------------------------------------------------
\* While the lease of the row outlives every operation in progress, no second
\* one begins: create, reclaim, renewal and cleanup by any number of requests,
\* failed statements and crashes included, respect a live lease.  It takes a TTL
\* that is not below the lease, or the cleanup deletes a row that is held.
THEOREM LeaseExcludes ==
  ASSUME Lease <= TTL
  PROVE  Spec /\ []HolderIsCovered => []OneOperation
<1>1. Init => Inv /\ FirstLease
  BY InitInv
<1>2. Inv /\ FirstLease /\ HolderIsCovered' /\ [Next]_vars => Inv' /\ FirstLease'
  BY NextInv
<1>3. Inv => OneOperation
  BY DEF Inv
<1> QED BY <1>1, <1>2, <1>3, PTL DEF Spec

\* An operation that ends before its first lease does is covered from its start
\* to its release, whatever becomes of the renewals.
THEOREM ShortIsCovered ==
  ASSUME Short, Lease <= TTL
  PROVE  Spec => []HolderIsCovered
<1>1. Init => Inv /\ FirstLease /\ HolderIsCovered
  BY InitInv, InitCovered
<1>2. Inv /\ FirstLease /\ HolderIsCovered /\ [Next]_vars
        => Inv' /\ FirstLease' /\ HolderIsCovered'
  BY NextInv, ShortStep
<1> QED BY <1>1, <1>2, PTL DEF Spec

\* Such operations never overlap.
THEOREM ShortExcludes ==
  ASSUME Short, Lease <= TTL
  PROVE  Spec => []OneOperation
  BY LeaseExcludes, ShortIsCovered, PTL
===============================================================================
