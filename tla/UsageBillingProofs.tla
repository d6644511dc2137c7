------------------------- MODULE UsageBillingProofs -------------------------
(***************************************************************************)
(* Proofs about UsageBilling: its types, that the balance is the sum of    *)
(* what changed it, that a half-open breaker waits for somebody, and that  *)
(* the cache forgets no change and exceeds the balance by no more than the *)
(* charges it has still to be told.                                        *)
(***************************************************************************)
EXTENDS UsageBilling, FiniteSetTheorems, TLAPS

(***************************************************************************)
(* The breaker by itself.                                                  *)
(***************************************************************************)

\* A closed breaker has not reached its threshold.
BreakerOK(b) == b \in BreakerStates /\ (b.state = "closed" => b.failures < Threshold)

LEMMA ClosedOK == BreakerOK(Closed)
  BY BreakerAssumption DEF BreakerOK, BreakerStates, Closed

LEMMA AwakeOK ==
  ASSUME NEW b, BreakerOK(b)
  PROVE  /\ BreakerOK(Awake(b))
         /\ Awake(b) # b => Awake(b).state = "half-open" /\ Awake(b).remaining > 0
<1>1. CASE b.state = "open" /\ b.elapsed
  <2>. DEFINE a == [b EXCEPT !.state = "half-open", !.remaining = HalfOpen]
  <2>1. Awake(b) = a
    BY <1>1, Zenon DEF Awake
  <2>. DEFINE h == [b EXCEPT !.state = "half-open"]
  <2>2. h \in BreakerStates /\ h.state = "half-open" /\ a = [h EXCEPT !.remaining = HalfOpen]
    BY DEF BreakerOK, BreakerStates
  <2>. HIDE DEF h
  <2>3. HalfOpen \in 0 .. HalfOpen /\ HalfOpen > 0
    BY BreakerAssumption
  <2>4. a \in BreakerStates /\ a.state = "half-open" /\ a.remaining = HalfOpen
    BY <2>2, <2>3 DEF BreakerStates
  <2>. HIDE DEF a
  <2>. QED
    BY <2>1, <2>3, <2>4 DEF BreakerOK
<1>2. CASE ~(b.state = "open" /\ b.elapsed)
  BY <1>2, Zenon DEF Awake
<1>. QED
  BY <1>1, <1>2

LEMMA AllowOK ==
  ASSUME NEW b, BreakerOK(b)
  PROVE  BreakerOK(AfterAllow(b)) /\ (~Allow(b) => AfterAllow(b) = b)
<1>. DEFINE a == Awake(b)
<1>1. BreakerOK(a) /\ (a # b => a.state = "half-open" /\ a.remaining > 0)
  BY AwakeOK
<1>2. AfterAllow(b) = IF a.state = "half-open" /\ a.remaining > 0
                      THEN [a EXCEPT !.remaining = a.remaining - 1] ELSE a
  BY DEF AfterAllow
<1>3. Allow(b) <=> (a.state = "closed" \/ (a.state = "half-open" /\ a.remaining > 0))
  BY Zenon DEF Allow
<1>. HIDE DEF a
<1>4. CASE a.state = "half-open" /\ a.remaining > 0
  <2>. DEFINE c == [a EXCEPT !.remaining = a.remaining - 1]
  <2>1. a.remaining - 1 \in 0 .. HalfOpen
    BY <1>1, <1>4, BreakerAssumption DEF BreakerOK, BreakerStates
  <2>2. c \in BreakerStates /\ c.state = "half-open"
    BY <1>1, <1>4, <2>1 DEF BreakerOK, BreakerStates
  <2>3. Allow(b)
    BY <1>3, <1>4, Zenon
  <2>4. BreakerOK(AfterAllow(b))
    BY <1>2, <1>4, <2>2 DEF BreakerOK
  <2>. QED
    BY <2>3, <2>4, Zenon
<1>5. CASE ~(a.state = "half-open" /\ a.remaining > 0)
  BY <1>1, <1>2, <1>5, Zenon
<1>. QED
  BY <1>4, <1>5

LEMMA OpenedOK ==
  ASSUME NEW b \in BreakerStates
  PROVE  Opened(b) \in BreakerStates /\ Opened(b).state = "open"
<1>. DEFINE s == [b EXCEPT !.state = "open"]
            r == [s EXCEPT !.remaining = 0]
            e == [r EXCEPT !.elapsed = FALSE]
<1>1. Opened(b) = e
  BY Zenon DEF Opened
<1>2. s \in BreakerStates /\ s.state = "open"
  BY DEF BreakerStates
<1>. HIDE DEF s
<1>3. r \in BreakerStates /\ r.state = "open"
  BY <1>2, BreakerAssumption DEF BreakerStates
<1>. HIDE DEF r
<1>4. e \in BreakerStates /\ e.state = "open"
  BY <1>3 DEF BreakerStates
<1>. QED
  BY <1>1, <1>4

LEMMA FailureOK ==
  ASSUME NEW b, BreakerOK(b)
  PROVE  BreakerOK(OnFailure(b)) /\ OnFailure(b).state # "half-open"
<1>1. CASE b.state = "open"
  BY <1>1 DEF BreakerOK, OnFailure
<1>2. CASE b.state = "half-open"
  <2>1. OnFailure(b) = Opened(b)
    BY <1>2 DEF OnFailure
  <2>. QED
    BY <2>1, OpenedOK DEF BreakerOK
<1>3. CASE b.state = "closed"
  <2>. DEFINE c == [b EXCEPT !.failures = b.failures + 1]
  <2>1. b.failures + 1 \in 0 .. Threshold
    BY <1>3, BreakerAssumption DEF BreakerOK, BreakerStates
  <2>2. c \in BreakerStates /\ c.state = "closed" /\ c.failures \in 0 .. Threshold
    BY <1>3, <2>1 DEF BreakerOK, BreakerStates
  <2>3. OnFailure(b) = IF c.failures >= Threshold THEN Opened(c) ELSE c
    BY <1>3 DEF OnFailure
  <2>. HIDE DEF c
  <2>. QED
    BY <2>2, <2>3, OpenedOK, BreakerAssumption DEF BreakerOK
<1>. QED
  BY <1>1, <1>2, <1>3 DEF BreakerOK, BreakerStates

LEMMA SuccessOK ==
  ASSUME NEW b
  PROVE  BreakerOK(OnSuccess(b)) /\ OnSuccess(b).state # "half-open"
  BY ClosedOK DEF OnSuccess, Closed

-----------------------------------------------------------------------------
(***************************************************************************)
(* The inductive invariant.                                                *)
(***************************************************************************)

DataTyped ==
    /\ balance \in Int
    /\ dedup \subseteq Ids /\ archive \subseteq Ids
    /\ added \subseteq TopUps /\ clearing \subseteq added
    /\ edit \in [copy: Int, topUp: TopUps \cup {None}, step: {"none", "read", "done"}]
    /\ edit.step = "read" => edit.topUp \in TopUps
    /\ clobbered \in BOOLEAN

PoolTyped ==
    /\ cached \in Entries \cup {Missing}
    /\ writes \subseteq Tasks /\ IsFiniteSet(writes)
    /\ Cardinality(writes) <= MaxWrites + CacheWriters
    /\ excused \subseteq Changes /\ faults \in 0 .. MaxFaults

Steps == {"idle", "read", "load", "join", "fill", "admit", "refuse", "fail", "serve",
          "apply", "finalize"}

\* Only the loader loads, it has a balance to write when it fills the cache, and a
\* usage that is being recorded has its request ID.
RequestOK(r) ==
    /\ pc[r] \in {"load", "fill"} => r = loader
    /\ pc[r] = "fill" => loaded \in Entries
    /\ pc[r] \in {"apply", "finalize"} => charge[r] \in Ids

RequestsTyped ==
    /\ pc \in [Requests -> Steps]
    /\ charge \in [Requests -> Ids \cup {None}]
    /\ loader \in Requests \cup {NoRequest} /\ loaded \in Entries \cup {Missing}
    /\ \A r \in Requests : RequestOK(r)

Typed == DataTyped /\ PoolTyped /\ RequestsTyped /\ BreakerOK(breaker)

LEMMA TypedIsTypeOK == Typed => TypeOK
  BY DEF Typed, DataTyped, PoolTyped, RequestsTyped, Steps, BreakerOK, TypeOK

LEMMA MissingIsNoEntry == Missing \notin Entries
  BY BillingAssumption DEF Missing, Entries, Changes

LEMMA CurrentIsEntry ==
  ASSUME DataTyped
  PROVE  Current \in Entries
  BY DEF DataTyped, Current, Entries, Changes

LEMMA EnqueueTyped ==
  ASSUME writes \subseteq Tasks, IsFiniteSet(writes), NEW task \in Tasks, Enqueue(task)
  PROVE  /\ writes' \subseteq Tasks /\ IsFiniteSet(writes')
         /\ Cardinality(writes') <= MaxWrites + CacheWriters
<1>1. writes' = writes \cup {task} /\ Cardinality(writes) < MaxWrites + CacheWriters
  BY DEF Enqueue, NotFull
<1>2. IsFiniteSet(writes') /\ Cardinality(writes') <= Cardinality(writes) + 1
  <2>1. /\ IsFiniteSet(writes \cup {task})
        /\ Cardinality(writes \cup {task}) =
             IF task \in writes THEN Cardinality(writes) ELSE Cardinality(writes) + 1
    BY FS_AddElement
  <2>. QED
    BY <1>1, <2>1, FS_CardinalityType
<1>3. Cardinality(writes) \in Nat /\ Cardinality(writes') \in Nat
  BY <1>2, FS_CardinalityType
<1>4. Cardinality(writes') <= MaxWrites + CacheWriters
  BY <1>1, <1>2, <1>3, BillingAssumption
<1>. QED
  BY <1>1, <1>2, <1>4

LEMMA DeductTyped ==
  ASSUME cached \in Entries \cup {Missing}, excused \subseteq Changes,
         faults \in 0 .. MaxFaults, NEW id \in Ids, Deduct(id)
  PROVE  /\ cached' \in Entries \cup {Missing} /\ excused' \subseteq Changes
         /\ faults' \in 0 .. MaxFaults
<1>1. cached \in Entries =>
        [amount |-> cached.amount - 1, knows |-> cached.knows \cup {id}] \in Entries
  BY DEF Entries, Changes
<1>2. Told(id) \subseteq {id} /\ id \in Changes
  BY DEF Told, Changes
<1>3. CASE UNCHANGED faults /\ excused' = excused \cup Told(id)
           /\ cached' = IF cached = Missing THEN Missing
                  ELSE [amount |-> cached.amount - 1, knows |-> cached.knows \cup {id}]
  BY <1>1, <1>2, <1>3
<1>4. CASE Fault("redis") /\ excused' = excused \cup {id} /\ UNCHANGED cached
  BY <1>2, <1>4, BillingAssumption DEF Fault
<1>. QED
  BY <1>3, <1>4 DEF Deduct

-----------------------------------------------------------------------------
LEMMA InitTyped == Init => Typed
<1>. SUFFICES ASSUME Init PROVE Typed
  OBVIOUS
<1>1. DataTyped
  <2>1. edit = [copy |-> 0, topUp |-> None, step |-> "none"]
    BY DEF Init, NoEdit
  <2>2. /\ balance \in Int /\ dedup = {} /\ archive = {} /\ added = {} /\ clearing = {}
    BY BillingAssumption DEF Init
  <2>3. clobbered \in BOOLEAN
    BY DEF Init
  <2>. QED
    BY <2>1, <2>2, <2>3 DEF DataTyped
<1>2. PoolTyped
  BY BillingAssumption, FS_EmptySet DEF Init, PoolTyped
<1>3. RequestsTyped
  BY DEF Init, RequestsTyped, RequestOK, Steps
<1>. QED
  BY <1>1, <1>2, <1>3, ClosedOK DEF Init, Typed

\* What a step of a request leaves alone.
LEMMA DataOfRequest ==
  ASSUME NEW r \in Requests, Request(r)
  PROVE  Apply(r) \/ UNCHANGED <<database, clearing, clobbered>>
  BY DEF Request, Check, ReadCache, LoadBalance, FillCache, Report, Serve, Finalize, memory

LEMMA DataStep ==
  ASSUME DataTyped, RequestsTyped, [Next]_vars
  PROVE  DataTyped'
<1>1. ASSUME UNCHANGED <<database, clearing, clobbered>> PROVE DataTyped'
  BY <1>1 DEF DataTyped, database
<1>2. ASSUME NEW r \in Requests, Apply(r) PROVE DataTyped'
  <2>1. charge[r] \in Ids
    BY <1>2 DEF Apply, RequestsTyped, RequestOK
  <2>2. dedup' \in {dedup, dedup \cup {charge[r]}} /\ balance' \in {balance, balance - 1}
        /\ UNCHANGED <<archive, added, edit, clearing, clobbered>>
    BY <1>2 DEF Apply
  <2>. QED
    BY <2>1, <2>2 DEF DataTyped
<1>3. ASSUME NEW t \in TopUps, Redeem(t) PROVE DataTyped'
  BY <1>3 DEF DataTyped, Redeem
<1>4. ASSUME NEW t \in TopUps, ReadUser(t) PROVE DataTyped'
  BY <1>4 DEF DataTyped, ReadUser
<1>5. ASSUME NEW t \in TopUps, InvalidateUserBalance(t) PROVE DataTyped'
  BY <1>5 DEF DataTyped, InvalidateUserBalance, database
<1>6. CASE UpdateUser
  <2>1. edit.topUp \in TopUps /\ edit.copy + 1 \in Int
    BY <1>6 DEF UpdateUser, DataTyped
  <2>2. /\ balance' = edit.copy + 1 /\ added' = added \cup {edit.topUp}
        /\ clearing' = clearing \cup {edit.topUp}
        /\ UNCHANGED <<dedup, archive>>
    BY <1>6 DEF UpdateUser
  <2>3. edit' = [copy |-> 0, topUp |-> None, step |-> "done"]
    BY <1>6 DEF UpdateUser, NoEdit
  <2>4. clobbered' \in BOOLEAN
    BY <1>6 DEF UpdateUser
  <2>. QED
    BY <2>1, <2>2, <2>3, <2>4 DEF DataTyped
<1>7. ASSUME NEW i \in Ids, Archive(i) PROVE DataTyped'
  BY <1>7 DEF DataTyped, Archive
<1>8. CASE Crash
  BY <1>8 DEF DataTyped, Crash, NoEdit
<1>9. ASSUME NEW t \in writes, Write(t) PROVE DataTyped'
  BY <1>1, <1>9 DEF Write
<1>10. CASE CacheLapses \/ ResetTimeout \/ UNCHANGED vars
  BY <1>1, <1>10 DEF CacheLapses, ResetTimeout, vars
<1>. QED
  BY <1>1, <1>2, <1>3, <1>4, <1>5, <1>6, <1>7, <1>8, <1>9, <1>10, DataOfRequest DEF Next

LEMMA FaultTyped ==
  ASSUME faults \in 0 .. MaxFaults, NEW kind, Fault(kind)
  PROVE  faults' \in 0 .. MaxFaults
  BY BillingAssumption DEF Fault

LEMMA SetTask ==
  ASSUME NEW e \in Entries
  PROVE  [kind |-> "set", entry |-> e] \in Tasks
  BY DEF Tasks

LEMMA DeductTask ==
  ASSUME NEW i \in Ids
  PROVE  [kind |-> "deduct", id |-> i] \in Tasks
  BY DEF Tasks

LEMMA TaskFields ==
  ASSUME NEW t \in Tasks
  PROVE  /\ t.kind \in {"set", "deduct"}
         /\ t.kind = "set" => t.entry \in Entries
         /\ t.kind = "deduct" => t.id \in Ids
  BY DEF Tasks

LEMMA UnfinishedTyped ==
  ASSUME DataTyped, PoolTyped, RequestsTyped
  PROVE  Unfinished \subseteq Changes
<1>1. clearing \subseteq Changes
  BY DEF DataTyped, Changes
<1>2. ASSUME NEW r \in Requests, pc[r] = "finalize" PROVE charge[r] \in Changes
  BY <1>2 DEF RequestsTyped, RequestOK, Changes
<1>3. ASSUME NEW t \in writes, t.kind = "deduct" PROVE t.id \in Changes
  BY <1>3, TaskFields DEF PoolTyped, Changes
<1>. QED
  BY <1>1, <1>2, <1>3 DEF Unfinished

LEMMA PoolOfRequest ==
  ASSUME NEW r \in Requests, Request(r)
  PROVE  \/ FillCache(r) \/ Apply(r) \/ Finalize(r)
         \/ /\ UNCHANGED <<cached, writes, excused>>
            /\ UNCHANGED faults \/ \E k \in {"redis", "db", "full"} : Fault(k)
  BY DEF Request, Check, ReadCache, LoadBalance, Report, Serve, memory

LEMMA PoolStep ==
  ASSUME DataTyped, PoolTyped, RequestsTyped, [Next]_vars
  PROVE  PoolTyped'
<1>1. ASSUME UNCHANGED <<cached, writes, excused>>,
             UNCHANGED faults \/ \E k \in {"redis", "db", "full"} : Fault(k)
      PROVE PoolTyped'
  BY <1>1, FaultTyped DEF PoolTyped
<1>2. ASSUME NEW r \in Requests, FillCache(r) PROVE PoolTyped'
  <2>1. loaded \in Entries /\ UNCHANGED <<cached, excused, faults>>
    BY <1>2 DEF FillCache, RequestsTyped, RequestOK
  <2>2. CASE Enqueue([kind |-> "set", entry |-> loaded])
    BY <2>1, <2>2, SetTask, EnqueueTyped DEF PoolTyped
  <2>3. CASE UNCHANGED writes
    BY <2>1, <2>3 DEF PoolTyped
  <2>. QED
    BY <1>2, <2>2, <2>3 DEF FillCache
<1>3. ASSUME NEW r \in Requests, Apply(r) PROVE PoolTyped'
  <2>1. charge[r] \in Ids /\ UNCHANGED <<cached, writes>>
    BY <1>3 DEF Apply, RequestsTyped, RequestOK, memory
  <2>2. excused' \in {excused, excused \cup {charge[r]}}
        /\ (UNCHANGED faults \/ Fault("lost") \/ Fault("db"))
    BY <1>3 DEF Apply
  <2>. QED
    BY <2>1, <2>2, FaultTyped DEF PoolTyped, Changes
<1>4. ASSUME NEW r \in Requests, Finalize(r) PROVE PoolTyped'
  <2>1. charge[r] \in Ids
    BY <1>4 DEF Finalize, RequestsTyped, RequestOK
  <2>2. CASE Enqueue([kind |-> "deduct", id |-> charge[r]])
             /\ UNCHANGED <<cached, excused, faults>>
    BY <2>1, <2>2, DeductTask, EnqueueTyped DEF PoolTyped
  <2>3. CASE Deduct(charge[r]) /\ UNCHANGED writes
    BY <2>1, <2>3, DeductTyped DEF PoolTyped
  <2>. QED
    BY <1>4, <2>2, <2>3 DEF Finalize
<1>5. ASSUME NEW t \in writes, Write(t) PROVE PoolTyped'
  <2>1. t \in Tasks
    BY DEF PoolTyped
  <2>2. writes' = writes \ {t}
    BY <1>5 DEF Write
  <2>3. /\ IsFiniteSet(writes \ {t}) /\ Cardinality(writes \ {t}) \in Nat
        /\ Cardinality(writes) \in Nat
        /\ Cardinality(writes \ {t}) <= Cardinality(writes)
    BY FS_Subset, FS_CardinalityType DEF PoolTyped
  <2>4. /\ writes' \subseteq Tasks /\ IsFiniteSet(writes')
        /\ Cardinality(writes') <= MaxWrites + CacheWriters
    BY <2>2, <2>3, BillingAssumption DEF PoolTyped
  <2>5. CASE /\ t.kind = "set" /\ UNCHANGED excused
             /\ \/ cached' = t.entry /\ UNCHANGED faults
                \/ Fault("redis") /\ UNCHANGED cached
    BY <2>1, <2>4, <2>5, TaskFields, FaultTyped DEF PoolTyped
  <2>6. CASE t.kind = "deduct" /\ Deduct(t.id)
    BY <2>1, <2>4, <2>6, TaskFields, DeductTyped DEF PoolTyped
  <2>. QED
    BY <1>5, <2>5, <2>6 DEF Write
<1>6. ASSUME NEW t \in TopUps, InvalidateUserBalance(t) PROVE PoolTyped'
  <2>1. t \in Changes /\ Told(t) \subseteq {t}
    BY DEF Changes, Told
  <2>2. /\ cached' \in {cached, Missing}
        /\ excused' \in {excused \cup Told(t), excused \cup {t}}
        /\ UNCHANGED faults \/ Fault("redis")
        /\ UNCHANGED writes
    BY <1>6 DEF InvalidateUserBalance, memory
  <2>. QED
    BY <2>1, <2>2, FaultTyped DEF PoolTyped
<1>7. CASE Crash
  BY <1>7, UnfinishedTyped, FaultTyped, FS_EmptySet, BillingAssumption
     DEF Crash, PoolTyped
<1>8. CASE CacheLapses
  BY <1>8 DEF CacheLapses, PoolTyped, memory
<1>9. ASSUME NEW t \in TopUps, Redeem(t) \/ ReadUser(t) PROVE PoolTyped'
  BY <1>1, <1>9 DEF Redeem, ReadUser, memory
<1>10. ASSUME NEW i \in Ids, Archive(i) PROVE PoolTyped'
  BY <1>1, <1>10 DEF Archive, memory
<1>11. CASE UpdateUser \/ ResetTimeout \/ UNCHANGED vars
  BY <1>1, <1>11 DEF UpdateUser, ResetTimeout, vars, memory
<1>. QED
  BY <1>1, <1>2, <1>3, <1>4, <1>5, <1>6, <1>7, <1>8, <1>9, <1>10, <1>11, PoolOfRequest
     DEF Next

-----------------------------------------------------------------------------
LEMMA GotoTyped ==
  ASSUME RequestsTyped, NEW r \in Requests, NEW step \in Steps, Goto(r, step)
  PROVE  /\ pc' \in [Requests -> Steps] /\ pc'[r] = step
         /\ \A q \in Requests : q # r => pc'[q] = pc[q]
  BY DEF RequestsTyped, Goto

\* A request that goes on to a step that asks nothing of it.
LEMMA GotoFree ==
  ASSUME RequestsTyped, NEW r \in Requests, NEW step \in Steps \ {"load", "fill", "apply", "finalize"},
         Goto(r, step), UNCHANGED <<charge, loader, loaded>>
  PROVE  RequestsTyped'
  BY GotoTyped DEF RequestsTyped, RequestOK

LEMMA ReturnTyped ==
  ASSUME RequestsTyped, NEW r \in Requests, Return(r), UNCHANGED <<loader, loaded>>
  PROVE  RequestsTyped'
<1>1. /\ pc' \in [Requests -> Steps] /\ pc'[r] = "idle"
      /\ \A q \in Requests : q # r => pc'[q] = pc[q]
  BY GotoTyped DEF Return, Steps
<1>2. charge' \in [Requests -> Ids \cup {None}]
      /\ \A q \in Requests : q # r => charge'[q] = charge[q]
  BY DEF RequestsTyped, Return
<1>. QED
  BY <1>1, <1>2 DEF RequestsTyped, RequestOK

LEMMA DeliverTyped ==
  ASSUME RequestsTyped, NEW step \in {"admit", "refuse", "fail"}, Deliver(step),
         UNCHANGED charge
  PROVE  RequestsTyped'
<1>1. pc' = [r \in Requests |-> IF r = loader \/ pc[r] = "join" THEN step ELSE pc[r]]
      /\ loader' = NoRequest /\ loaded' = Missing
  BY DEF Deliver
<1>2. pc' \in [Requests -> Steps]
  BY <1>1 DEF RequestsTyped, Steps
<1>3. ASSUME NEW r \in Requests PROVE RequestOK(r)'
  BY <1>1, <1>3 DEF RequestsTyped, RequestOK
<1>. QED
  BY <1>1, <1>2, <1>3 DEF RequestsTyped

LEMMA RequestsStep ==
  ASSUME DataTyped, RequestsTyped, [Next]_vars
  PROVE  RequestsTyped'
<1>1. ASSUME UNCHANGED <<locals, loader, loaded>> PROVE RequestsTyped'
  BY <1>1 DEF RequestsTyped, RequestOK, locals
<1>2. ASSUME NEW r \in Requests, Check(r) PROVE RequestsTyped'
  <2>1. CASE Goto(r, "read")
    BY <1>2, <2>1, GotoFree DEF Check, Steps
  <2>2. CASE UNCHANGED pc
    BY <1>1, <1>2, <2>2 DEF Check, locals
  <2>. QED
    BY <1>2, <2>1, <2>2 DEF Check
<1>3. ASSUME NEW r \in Requests, ReadCache(r) PROVE RequestsTyped'
  <2>1. CASE Goto(r, Verdict(cached.amount)) /\ UNCHANGED loader
    BY <1>3, <2>1, GotoFree DEF ReadCache, Steps, Verdict
  <2>2. CASE loader = NoRequest /\ loader' = r /\ Goto(r, "load")
    <3>1. pc' \in [Requests -> Steps] /\ pc'[r] = "load"
          /\ \A q \in Requests : q # r => pc'[q] = pc[q]
      BY <2>2, GotoTyped DEF Steps
    <3>2. \A q \in Requests : pc[q] \notin {"load", "fill"}
      BY <2>2, BillingAssumption DEF RequestsTyped, RequestOK
    <3>. QED
      BY <1>3, <2>2, <3>1, <3>2 DEF ReadCache, RequestsTyped, RequestOK
  <2>3. CASE Goto(r, "join") /\ UNCHANGED loader
    BY <1>3, <2>3, GotoFree DEF ReadCache, Steps
  <2>. QED
    BY <1>3, <2>1, <2>2, <2>3 DEF ReadCache
<1>4. ASSUME NEW r \in Requests, LoadBalance(r) PROVE RequestsTyped'
  <2>1. CASE loaded' = Current /\ Goto(r, "fill") /\ UNCHANGED loader
    <3>1. pc' \in [Requests -> Steps] /\ pc'[r] = "fill"
          /\ \A q \in Requests : q # r => pc'[q] = pc[q]
      BY <2>1, GotoTyped DEF Steps
    <3>2. r = loader /\ loaded' \in Entries /\ UNCHANGED charge
      BY <1>4, <2>1, CurrentIsEntry DEF LoadBalance, RequestsTyped, RequestOK
    <3>. QED
      BY <2>1, <3>1, <3>2 DEF RequestsTyped, RequestOK
  <2>2. CASE Deliver("fail")
    BY <1>4, <2>2, DeliverTyped DEF LoadBalance
  <2>. QED
    BY <1>4, <2>1, <2>2 DEF LoadBalance
<1>5. ASSUME NEW r \in Requests, FillCache(r) PROVE RequestsTyped'
  BY <1>5, DeliverTyped DEF FillCache, Verdict
<1>6. ASSUME NEW r \in Requests, Report(r) PROVE RequestsTyped'
  BY <1>6, GotoFree DEF Report, Steps
<1>7. ASSUME NEW r \in Requests, Serve(r) PROVE RequestsTyped'
  <2>1. CASE Goto(r, "idle") /\ UNCHANGED charge
    BY <1>7, <2>1, GotoFree DEF Serve, Steps, memory
  <2>2. ASSUME NEW i \in Ids, charge' = [charge EXCEPT ![r] = i], Goto(r, "apply")
        PROVE RequestsTyped'
    <3>1. pc' \in [Requests -> Steps] /\ pc'[r] = "apply"
          /\ \A q \in Requests : q # r => pc'[q] = pc[q]
      BY <2>2, GotoTyped DEF Steps
    <3>2. /\ charge' \in [Requests -> Ids \cup {None}] /\ charge'[r] = i
          /\ \A q \in Requests : q # r => charge'[q] = charge[q]
      BY <2>2 DEF RequestsTyped
    <3>. QED
      BY <1>7, <3>1, <3>2 DEF Serve, memory, RequestsTyped, RequestOK
  <2>. QED
    BY <1>7, <2>1, <2>2 DEF Serve
<1>8. ASSUME NEW r \in Requests, Apply(r) PROVE RequestsTyped'
  <2>1. CASE Goto(r, "finalize") /\ UNCHANGED charge
    <3>1. pc' \in [Requests -> Steps] /\ pc'[r] = "finalize"
          /\ \A q \in Requests : q # r => pc'[q] = pc[q]
      BY <2>1, GotoTyped DEF Steps
    <3>2. charge[r] \in Ids
      BY <1>8 DEF Apply, RequestsTyped, RequestOK
    <3>. QED
      BY <1>8, <2>1, <3>1, <3>2 DEF Apply, memory, RequestsTyped, RequestOK
  <2>2. CASE Return(r)
    BY <1>8, <2>2, ReturnTyped DEF Apply, memory
  <2>. QED
    BY <1>8, <2>1, <2>2 DEF Apply
<1>9. ASSUME NEW r \in Requests, Finalize(r) PROVE RequestsTyped'
  BY <1>9, ReturnTyped DEF Finalize
<1>10. CASE Crash
  BY <1>10 DEF Crash, RequestsTyped, RequestOK, Steps
<1>11. ASSUME NEW t \in TopUps, Redeem(t) \/ ReadUser(t) \/ InvalidateUserBalance(t)
       PROVE RequestsTyped'
  BY <1>1, <1>11 DEF Redeem, ReadUser, InvalidateUserBalance, memory
<1>12. ASSUME NEW i \in Ids, Archive(i) PROVE RequestsTyped'
  BY <1>1, <1>12 DEF Archive, memory
<1>13. ASSUME NEW t \in writes, Write(t) PROVE RequestsTyped'
  BY <1>1, <1>13 DEF Write
<1>14. CASE UpdateUser \/ CacheLapses \/ ResetTimeout \/ UNCHANGED vars
  BY <1>1, <1>14 DEF UpdateUser, CacheLapses, ResetTimeout, vars, memory
<1>. QED
  BY <1>2, <1>3, <1>4, <1>5, <1>6, <1>7, <1>8, <1>9, <1>10, <1>11, <1>12, <1>13, <1>14
     DEF Next, Request

LEMMA BreakerStep ==
  ASSUME BreakerOK(breaker), [Next]_vars
  PROVE  BreakerOK(breaker')
<1>1. ASSUME NEW r \in Requests, Check(r) PROVE BreakerOK(breaker')
  BY <1>1, AllowOK DEF Check
<1>2. ASSUME NEW r \in Requests, Report(r) PROVE BreakerOK(breaker')
  BY <1>2, FailureOK, SuccessOK DEF Report
<1>3. ASSUME NEW r \in Requests, Request(r), ~Check(r), ~Report(r) PROVE UNCHANGED breaker
  BY <1>3 DEF Request, ReadCache, LoadBalance, FillCache, Serve, Apply, Finalize, memory
<1>4. CASE ResetTimeout
  BY <1>4 DEF ResetTimeout, BreakerOK, BreakerStates
<1>5. CASE Crash
  BY <1>5, ClosedOK DEF Crash
<1>6. ASSUME NEW t \in TopUps, Redeem(t) \/ ReadUser(t) \/ InvalidateUserBalance(t)
      PROVE UNCHANGED breaker
  BY <1>6 DEF Redeem, ReadUser, InvalidateUserBalance, memory
<1>7. ASSUME NEW t \in writes, Write(t) PROVE UNCHANGED breaker
  BY <1>7 DEF Write
<1>8. ASSUME NEW i \in Ids, Archive(i) PROVE UNCHANGED breaker
  BY <1>8 DEF Archive, memory
<1>9. CASE UpdateUser \/ CacheLapses \/ UNCHANGED vars
  BY <1>9 DEF UpdateUser, CacheLapses, vars, memory
<1>. QED
  BY <1>1, <1>2, <1>3, <1>4, <1>5, <1>6, <1>7, <1>8, <1>9 DEF Next

LEMMA TypedHolds == Spec => []Typed
<1>1. Typed /\ [Next]_vars => Typed'
  <2>. SUFFICES ASSUME Typed, [Next]_vars PROVE Typed'
    OBVIOUS
  <2>1. DataTyped'
    BY DataStep DEF Typed
  <2>2. PoolTyped'
    BY PoolStep DEF Typed
  <2>3. RequestsTyped'
    BY RequestsStep DEF Typed
  <2>4. BreakerOK(breaker')
    BY BreakerStep DEF Typed
  <2>. QED
    BY <2>1, <2>2, <2>3, <2>4 DEF Typed, BreakerOK
<1>. QED
  BY InitTyped, <1>1, PTL DEF Spec

\* Every variable keeps its type; the pool never holds more tasks than its channel
\* and its workers can.
THEOREM BillingTypes == Spec => []TypeOK
  BY TypedHolds, TypedIsTypeOK, PTL

-----------------------------------------------------------------------------
(***************************************************************************)
(* The balance.                                                            *)
(***************************************************************************)

LEMMA FiniteChanges ==
  ASSUME DataTyped
  PROVE  /\ IsFiniteSet(added) /\ Cardinality(added) \in Nat
         /\ IsFiniteSet(dedup \cup archive) /\ Cardinality(dedup \cup archive) \in Nat
<1>1. added \in SUBSET TopUps /\ dedup \cup archive \in SUBSET Ids
  BY DEF DataTyped
<1>2. IsFiniteSet(added) /\ IsFiniteSet(dedup \cup archive)
  BY <1>1, BillingAssumption, FS_Subset
<1>. QED
  BY <1>2, FS_CardinalityType

LEMMA SumStep ==
  ASSUME DataTyped, RequestsTyped, BalanceIsSum, [Next]_vars
  PROVE  BalanceIsSum'
<1>1. ASSUME UNCHANGED <<balance, added, dedup \cup archive>>, clobbered => clobbered'
      PROVE BalanceIsSum'
  BY <1>1 DEF BalanceIsSum
<1>2. ASSUME NEW t, t \notin added, added' = added \cup {t}, balance' = balance + 1,
             UNCHANGED <<dedup, archive>>, clobbered => clobbered'
      PROVE BalanceIsSum'
  <2>1. Cardinality(added') = Cardinality(added) + 1
    BY <1>2, FiniteChanges, FS_AddElement
  <2>. QED
    BY <1>2, <2>1, FiniteChanges, BillingAssumption DEF BalanceIsSum, DataTyped
<1>3. ASSUME NEW r \in Requests, Apply(r) PROVE BalanceIsSum'
  <2>1. CASE Claims(charge[r]) /\ dedup' = dedup \cup {charge[r]} /\ balance' = balance - 1
    <3>1. charge[r] \notin dedup \cup archive
          /\ (dedup \cup archive)' = (dedup \cup archive) \cup {charge[r]}
          /\ UNCHANGED <<added, clobbered>>
      BY <1>3, <2>1 DEF Apply, Claims
    <3>2. Cardinality((dedup \cup archive)') = Cardinality(dedup \cup archive) + 1
      BY <3>1, FiniteChanges, FS_AddElement
    <3>. QED
      BY <2>1, <3>1, <3>2, FiniteChanges, BillingAssumption DEF BalanceIsSum, DataTyped
  <2>2. CASE UNCHANGED <<dedup, balance>>
    BY <1>1, <1>3, <2>2 DEF Apply
  <2>. QED
    BY <1>3, <2>1, <2>2 DEF Apply
<1>4. ASSUME NEW t \in TopUps, Redeem(t) PROVE BalanceIsSum'
  BY <1>2, <1>4 DEF Redeem
<1>5. CASE UpdateUser
  <2>1. CASE balance = edit.copy
    BY <1>2, <1>5, <2>1 DEF UpdateUser
  <2>2. CASE balance # edit.copy
    BY <1>5, <2>2 DEF UpdateUser, BalanceIsSum
  <2>. QED
    BY <2>1, <2>2
<1>6. ASSUME NEW i \in Ids, Archive(i) PROVE BalanceIsSum'
  <2>1. (dedup \cup archive)' = dedup \cup archive
    BY <1>6 DEF Archive
  <2>. QED
    BY <1>1, <1>6, <2>1 DEF Archive
<1>7. ASSUME NEW r \in Requests, Request(r), ~Apply(r) PROVE BalanceIsSum'
  BY <1>1, <1>7, DataOfRequest DEF database
<1>8. ASSUME NEW t \in TopUps, ReadUser(t) \/ InvalidateUserBalance(t) PROVE BalanceIsSum'
  BY <1>1, <1>8 DEF ReadUser, InvalidateUserBalance, database
<1>9. ASSUME NEW t \in writes, Write(t) PROVE BalanceIsSum'
  BY <1>1, <1>9 DEF Write, database
<1>10. CASE CacheLapses \/ ResetTimeout \/ Crash \/ UNCHANGED vars
  BY <1>1, <1>10 DEF CacheLapses, ResetTimeout, Crash, vars, database
<1>. QED
  BY <1>3, <1>4, <1>5, <1>6, <1>7, <1>8, <1>9, <1>10 DEF Next

\* However requests, top-ups, edits, retries with one request ID and the archiving
\* of claims interleave, the balance is what was there at first plus the top-ups
\* minus one charge for each request ID, unless a write of the whole row has overwritten
\* a change.
THEOREM BalanceCorrect == Spec => []BalanceIsSum
<1>1. Init => BalanceIsSum
  BY FS_EmptySet, BillingAssumption DEF Init, BalanceIsSum
<1>2. Typed /\ BalanceIsSum /\ [Next]_vars => BalanceIsSum'
  BY SumStep DEF Typed
<1>. QED
  BY TypedHolds, <1>1, <1>2, PTL DEF Spec

-----------------------------------------------------------------------------
(***************************************************************************)
(* The breaker.                                                            *)
(***************************************************************************)

\* r has been let through by the breaker and has not reported yet.
Probing(r) == pc[r] \in {"read", "load", "join", "fill", "admit", "refuse", "fail"}

LEMMA ProbeStep ==
  ASSUME Typed, ProbeOutstanding, [Next]_vars
  PROVE  ProbeOutstanding'
<1>. USE DEF Typed
<1>1. ProbeOutstanding <=> (breaker.state = "half-open" /\ breaker.remaining = 0 =>
                              \E r \in Requests : Probing(r))
  BY Zenon DEF ProbeOutstanding, Probing
<1>2. ASSUME breaker'.state # "half-open" PROVE ProbeOutstanding'
  BY <1>2 DEF ProbeOutstanding
<1>3. ASSUME UNCHANGED breaker, \A q \in Requests : Probing(q) => Probing(q)'
      PROVE ProbeOutstanding'
  BY <1>1, <1>3 DEF ProbeOutstanding, Probing
<1>4. ASSUME NEW r \in Requests, Check(r) PROVE ProbeOutstanding'
  <2>1. CASE Allow(breaker)
    <3>1. pc'[r] = "read"
      BY <1>4, <2>1, GotoTyped DEF Check, Steps
    <3>. QED
      BY <3>1 DEF ProbeOutstanding
  <2>2. CASE ~Allow(breaker)
    BY <1>3, <1>4, <2>2, AllowOK DEF Check, Probing
  <2>. QED
    BY <2>1, <2>2
<1>5. ASSUME NEW r \in Requests, Report(r) PROVE ProbeOutstanding'
  BY <1>2, <1>5, FailureOK, SuccessOK DEF Report
<1>6. ASSUME NEW r \in Requests, ReadCache(r) PROVE ProbeOutstanding'
  <2>1. /\ UNCHANGED breaker
        /\ Goto(r, "admit") \/ Goto(r, "refuse") \/ Goto(r, "load") \/ Goto(r, "join")
    BY <1>6 DEF ReadCache, Verdict
  <2>. QED
    BY <1>3, <2>1, GotoTyped DEF Probing, Steps
<1>7. ASSUME NEW step \in {"admit", "refuse", "fail"}, Deliver(step), UNCHANGED breaker
      PROVE ProbeOutstanding'
  BY <1>3, <1>7 DEF Deliver, Probing
<1>8. ASSUME NEW r \in Requests, LoadBalance(r) PROVE ProbeOutstanding'
  <2>1. CASE Goto(r, "fill")
    BY <1>3, <1>8, <2>1, GotoTyped DEF LoadBalance, Probing, Steps
  <2>. QED
    BY <1>7, <1>8, <2>1 DEF LoadBalance
<1>9. ASSUME NEW r \in Requests, FillCache(r) PROVE ProbeOutstanding'
  BY <1>7, <1>9 DEF FillCache, Verdict
<1>10. ASSUME NEW r \in Requests, Serve(r) \/ Apply(r) \/ Finalize(r) PROVE ProbeOutstanding'
  <2>1. pc[r] \in {"serve", "apply", "finalize"} /\ UNCHANGED breaker
    BY <1>10 DEF Serve, Apply, Finalize, memory
  <2>2. \E step \in {"apply", "finalize", "idle"} : Goto(r, step)
    BY <1>10 DEF Serve, Apply, Finalize, Return
  <2>. QED
    BY <1>3, <2>1, <2>2, GotoTyped DEF Probing, Steps
<1>11. CASE ResetTimeout
  BY <1>2, <1>11 DEF ResetTimeout, BreakerOK, BreakerStates
<1>12. CASE Crash
  BY <1>2, <1>12 DEF Crash, Closed
<1>13. ASSUME UNCHANGED <<breaker, pc>> PROVE ProbeOutstanding'
  BY <1>3, <1>13 DEF Probing
<1>14. ASSUME NEW t \in TopUps, Redeem(t) \/ ReadUser(t) \/ InvalidateUserBalance(t)
       PROVE ProbeOutstanding'
  BY <1>13, <1>14 DEF Redeem, ReadUser, InvalidateUserBalance, memory, locals
<1>15. ASSUME NEW t \in writes, Write(t) PROVE ProbeOutstanding'
  BY <1>13, <1>15 DEF Write, locals
<1>16. ASSUME NEW i \in Ids, Archive(i) PROVE ProbeOutstanding'
  BY <1>13, <1>16 DEF Archive, memory, locals
<1>17. CASE UpdateUser \/ CacheLapses \/ UNCHANGED vars
  BY <1>13, <1>17 DEF UpdateUser, CacheLapses, vars, memory, locals
<1>. QED
  BY <1>4, <1>5, <1>6, <1>8, <1>9, <1>10, <1>11, <1>12, <1>14, <1>15, <1>16, <1>17
     DEF Next, Request

\* A half-open breaker that lets nobody through waits for a request that it has let
\* through, which will report and so close or open it.
THEOREM ProbeReports == Spec => []ProbeOutstanding
<1>1. Init => ProbeOutstanding
  BY DEF Init, ProbeOutstanding, Closed
<1>2. Typed /\ ProbeOutstanding /\ [Next]_vars => ProbeOutstanding'
  BY ProbeStep
<1>. QED
  BY TypedHolds, <1>1, <1>2, PTL DEF Spec

-----------------------------------------------------------------------------
(***************************************************************************)
(* The cache.  NothingForgotten is about the balance that is in the cache; *)
(* inductive is the same of every balance that may still get there.        *)
(***************************************************************************)

Made   == dedup \cup archive \cup added
Rest   == Unfinished \cup excused
Copies == Underway \cup ({cached} \ {Missing})

NoneForgotten == \A e \in Copies : Made \subseteq e.knows \cup Rest

LEMMA NoneForgottenSuffices == NoneForgotten => NothingForgotten
  BY DEF NoneForgotten, NothingForgotten, Copies, Made, Rest

LEMMA UnderwayShrinks ==
  ASSUME \A t \in writes' : t.kind = "set" => t \in writes, loaded' \in {loaded, Missing}
  PROVE  Underway' \subseteq Underway
  BY DEF Underway

LEMMA UnfinishedKept ==
  ASSUME clearing \subseteq clearing',
         \A q \in Requests : pc[q] = "finalize" => pc'[q] = "finalize" /\ charge'[q] = charge[q],
         \A t \in writes : t.kind = "deduct" => t \in writes'
  PROVE  Unfinished \subseteq Unfinished'
  BY DEF Unfinished

\* New changes X are still to be told, or excused.
LEMMA CopiesKept ==
  ASSUME NoneForgotten, Copies' \subseteq Copies, NEW X, Made' \subseteq Made \cup X,
         Rest \cup X \subseteq Rest'
  PROVE  NoneForgotten'
  BY DEF NoneForgotten

\* The change has been told to the cached balance, and to no other.
LEMMA CopyTold ==
  ASSUME NoneForgotten, NEW change, UNCHANGED <<dedup, archive, added>>,
         Underway' \subseteq Underway,
         cached' # Missing => cached # Missing /\ cached'.knows = cached.knows \cup {change},
         excused' = excused \cup Told(change), Unfinished \subseteq Unfinished' \cup {change}
  PROVE  NoneForgotten'
<1>. SUFFICES ASSUME NEW e \in Copies', NEW c \in Made' PROVE c \in e.knows \/ c \in Rest'
  BY DEF NoneForgotten
<1>1. c \in Made
  BY DEF Made
<1>2. CASE e \in Underway
  <2>1. c \in e.knows \cup Unfinished \cup excused
    BY <1>1, <1>2 DEF NoneForgotten, Copies, Rest
  <2>2. change \in e.knows \/ change \in excused'
    BY <1>2 DEF Told
  <2>. QED
    BY <2>1, <2>2 DEF Rest
<1>3. CASE e = cached' /\ cached' # Missing
  <2>1. cached \in Copies /\ e.knows = cached.knows \cup {change}
    BY <1>3 DEF Copies
  <2>2. c \in cached.knows \cup Unfinished \cup excused
    BY <1>1, <2>1 DEF NoneForgotten, Rest
  <2>. QED
    BY <2>1, <2>2 DEF Rest
<1>. QED
  BY <1>2, <1>3 DEF Copies

LEMMA DeductKeeps ==
  ASSUME NoneForgotten, NEW id, Deduct(id), UNCHANGED <<dedup, archive, added>>,
         Underway' \subseteq Underway, Unfinished \subseteq Unfinished' \cup {id}
  PROVE  NoneForgotten'
<1>1. CASE /\ cached' = IF cached = Missing THEN Missing
                        ELSE [amount |-> cached.amount - 1, knows |-> cached.knows \cup {id}]
           /\ excused' = excused \cup Told(id)
  <2>1. cached' # Missing => cached # Missing /\ cached'.knows = cached.knows \cup {id}
    BY <1>1
  <2>. QED
    BY <1>1, <2>1, CopyTold
<1>2. CASE excused' = excused \cup {id} /\ UNCHANGED cached
  <2>1. Copies' \subseteq Copies /\ Made' = Made /\ Rest \subseteq Rest'
    BY <1>2 DEF Copies, Made, Rest
  <2>. QED
    BY <2>1, CopiesKept
<1>. QED
  BY <1>1, <1>2 DEF Deduct

\* A step of a request that tells nothing and finishes nothing.
LEMMA QuietStep ==
  ASSUME NoneForgotten, UNCHANGED <<dedup, archive, added, clearing, cached, excused>>,
         \A q \in Requests : pc[q] = "finalize" => pc'[q] = "finalize" /\ charge'[q] = charge[q],
         \A t \in writes : t.kind = "deduct" => t \in writes',
         Underway' \subseteq Underway
  PROVE  NoneForgotten'
<1>1. Copies' \subseteq Copies /\ Made' = Made
  BY DEF Copies, Made
<1>2. Rest \subseteq Rest'
  BY UnfinishedKept DEF Rest
<1>. QED
  BY <1>1, <1>2, CopiesKept

\* Nobody whose usage is waiting to be finalized is moved by these.
LEMMA GotoQuiet ==
  ASSUME RequestsTyped, NEW r \in Requests, pc[r] # "finalize", NEW step \in Steps, Goto(r, step)
  PROVE  \A q \in Requests : pc[q] = "finalize" => q # r /\ pc'[q] = "finalize"
  BY GotoTyped

LEMMA DeliverQuiet ==
  ASSUME RequestsTyped, NEW r \in Requests, pc[r] \in {"load", "fill"}, NEW step, Deliver(step)
  PROVE  \A q \in Requests : pc[q] = "finalize" => pc'[q] = "finalize"
<1>1. r = loader
  BY DEF RequestsTyped, RequestOK
<1>. QED
  BY <1>1 DEF RequestsTyped, Deliver

LEMMA ReturnQuiet ==
  ASSUME RequestsTyped, NEW r \in Requests, Return(r)
  PROVE  \A q \in Requests : q # r => pc'[q] = pc[q] /\ charge'[q] = charge[q]
  BY DEF RequestsTyped, Return, Goto

LEMMA ApplyKeeps ==
  ASSUME RequestsTyped, NoneForgotten, NEW r \in Requests, Apply(r)
  PROVE  NoneForgotten'
<1>1. /\ pc[r] = "apply"
      /\ UNCHANGED <<archive, added, clearing, cached, writes, loaded>>
  BY DEF Apply, memory
<1>2. Copies' \subseteq Copies
  BY <1>1 DEF Copies, Underway
<1>3. CASE Return(r) /\ UNCHANGED <<dedup, excused>>
  BY <1>1, <1>3, ReturnQuiet, QuietStep, UnderwayShrinks
<1>4. CASE /\ dedup' = dedup \cup {charge[r]}
           /\ \/ Goto(r, "finalize") /\ UNCHANGED <<charge, excused>>
              \/ Return(r) /\ excused' = excused \cup {charge[r]}
  <2>1. Made' = Made \cup {charge[r]}
    BY <1>1, <1>4 DEF Made
  <2>2. Unfinished \subseteq Unfinished'
    <3>1. CASE Goto(r, "finalize") /\ UNCHANGED charge
      BY <1>1, <3>1, GotoQuiet, UnfinishedKept DEF Steps
    <3>2. CASE Return(r)
      BY <1>1, <3>2, ReturnQuiet, UnfinishedKept
    <3>. QED
      BY <1>4, <3>1, <3>2
  <2>3. charge[r] \in Rest'
    <3>1. CASE Goto(r, "finalize") /\ UNCHANGED charge
      <4>1. pc'[r] = "finalize" /\ charge'[r] = charge[r]
        BY <3>1, GotoTyped DEF Steps
      <4>. QED
        BY <4>1 DEF Rest, Unfinished
    <3>2. CASE excused' = excused \cup {charge[r]}
      BY <3>2 DEF Rest
    <3>. QED
      BY <1>4, <3>1, <3>2
  <2>4. Rest \cup {charge[r]} \subseteq Rest'
    BY <1>4, <2>2, <2>3 DEF Rest
  <2>. QED
    BY <1>2, <2>1, <2>4, CopiesKept
<1>. QED
  BY <1>3, <1>4 DEF Apply

LEMMA FinalizeKeeps ==
  ASSUME RequestsTyped, NoneForgotten, NEW r \in Requests, Finalize(r)
  PROVE  NoneForgotten'
<1>1. /\ Return(r)
      /\ UNCHANGED <<dedup, archive, added, clearing, loaded>>
  BY DEF Finalize, database
<1>2. \A q \in Requests : q # r => pc'[q] = pc[q] /\ charge'[q] = charge[q]
  BY <1>1, ReturnQuiet
<1>3. CASE Enqueue([kind |-> "deduct", id |-> charge[r]]) /\ UNCHANGED <<cached, excused>>
  <2>. DEFINE task == [kind |-> "deduct", id |-> charge[r]]
  <2>1. writes' = writes \cup {task} /\ task.kind = "deduct" /\ task.id = charge[r]
    BY <1>3 DEF Enqueue
  <2>. HIDE DEF task
  <2>2. Unfinished \subseteq Unfinished'
    BY <1>1, <1>2, <2>1 DEF Unfinished
  <2>3. Underway' \subseteq Underway
    BY <1>1, <2>1, UnderwayShrinks
  <2>4. Copies' \subseteq Copies /\ Made' = Made /\ Rest \subseteq Rest'
    BY <1>1, <1>3, <2>2, <2>3 DEF Copies, Made, Rest
  <2>. QED
    BY <2>4, CopiesKept
<1>4. CASE Deduct(charge[r]) /\ UNCHANGED writes
  <2>1. Underway' \subseteq Underway
    BY <1>1, <1>4, UnderwayShrinks
  <2>2. Unfinished \subseteq Unfinished' \cup {charge[r]}
    BY <1>1, <1>2, <1>4 DEF Unfinished
  <2>. QED
    BY <1>1, <1>4, <2>1, <2>2, DeductKeeps
<1>. QED
  BY <1>3, <1>4 DEF Finalize

LEMMA LoadKeeps ==
  ASSUME RequestsTyped, NoneForgotten, NEW r \in Requests, LoadBalance(r)
  PROVE  NoneForgotten'
<1>1. /\ pc[r] = "load"
      /\ UNCHANGED <<dedup, archive, added, clearing, cached, writes, charge, excused>>
  BY DEF LoadBalance, database
<1>2. CASE loaded' = Current /\ Goto(r, "fill")
  <2>1. Copies' \subseteq Copies \cup {Current} /\ Made' = Made
    BY <1>1, <1>2 DEF Copies, Underway, Made
  <2>2. Rest \subseteq Rest'
    BY <1>1, <1>2, GotoQuiet, UnfinishedKept DEF Rest, Steps
  <2>3. Made \subseteq Current.knows
    BY DEF Made, Current
  <2>. QED
    BY <2>1, <2>2, <2>3 DEF NoneForgotten
<1>3. CASE Deliver("fail")
  <2>1. loaded' = Missing /\ \A q \in Requests : pc[q] = "finalize" => pc'[q] = "finalize"
    BY <1>1, <1>3, DeliverQuiet DEF Deliver
  <2>. QED
    BY <1>1, <2>1, UnderwayShrinks, QuietStep
<1>. QED
  BY <1>2, <1>3 DEF LoadBalance

LEMMA FillKeeps ==
  ASSUME RequestsTyped, NoneForgotten, NEW r \in Requests, FillCache(r)
  PROVE  NoneForgotten'
<1>1. /\ pc[r] = "fill" /\ loaded \in Entries
      /\ UNCHANGED <<dedup, archive, added, clearing, cached, charge, excused>>
      /\ Deliver("admit") \/ Deliver("refuse")
  BY DEF FillCache, RequestsTyped, RequestOK, database, Verdict
<1>2. loaded \in Underway
  BY <1>1, MissingIsNoEntry DEF Underway
<1>3. loaded' = Missing /\ \A q \in Requests : pc[q] = "finalize" => pc'[q] = "finalize"
  BY <1>1, DeliverQuiet DEF Deliver
<1>4. writes' = writes \/ writes' = writes \cup {[kind |-> "set", entry |-> loaded]}
  BY DEF FillCache, Enqueue
<1>5. Underway' \subseteq Underway
  BY <1>2, <1>3, <1>4 DEF Underway
<1>. QED
  BY <1>1, <1>3, <1>4, <1>5, QuietStep

LEMMA WriteKeeps ==
  ASSUME NoneForgotten, NEW t \in writes, Write(t)
  PROVE  NoneForgotten'
<1>1. /\ writes' = writes \ {t}
      /\ UNCHANGED <<dedup, archive, added, clearing, loaded, pc, charge>>
  BY DEF Write, database, locals
<1>2. Underway' \subseteq Underway
  BY <1>1, UnderwayShrinks
<1>3. CASE t.kind = "set" /\ cached' \in {cached, t.entry} /\ UNCHANGED excused
  <2>1. t.entry \in Underway
    BY <1>3 DEF Underway
  <2>2. Copies' \subseteq Copies /\ Made' = Made
    BY <1>1, <1>2, <1>3, <2>1 DEF Copies, Made
  <2>3. Rest \subseteq Rest'
    BY <1>1, <1>3, UnfinishedKept DEF Rest
  <2>. QED
    BY <2>2, <2>3, CopiesKept
<1>4. CASE t.kind = "deduct" /\ Deduct(t.id)
  <2>1. Unfinished \subseteq Unfinished' \cup {t.id}
    BY <1>1 DEF Unfinished
  <2>. QED
    BY <1>1, <1>2, <1>4, <2>1, DeductKeeps
<1>. QED
  BY <1>3, <1>4 DEF Write

LEMMA InvalidateKeeps ==
  ASSUME NoneForgotten, NEW t \in TopUps, InvalidateUserBalance(t)
  PROVE  NoneForgotten'
<1>1. /\ clearing' = clearing \ {t}
      /\ UNCHANGED <<dedup, archive, added, writes, loaded, pc, charge>>
  BY DEF InvalidateUserBalance, database, memory, locals
<1>2. Underway' \subseteq Underway /\ Unfinished \subseteq Unfinished' \cup {t}
  BY <1>1, UnderwayShrinks DEF Unfinished
<1>3. CASE cached' = Missing /\ excused' = excused \cup Told(t)
  BY <1>1, <1>2, <1>3, CopyTold
<1>4. CASE UNCHANGED cached /\ excused' = excused \cup {t}
  <2>1. Copies' \subseteq Copies /\ Made' = Made /\ Rest \subseteq Rest'
    BY <1>1, <1>2, <1>4 DEF Copies, Made, Rest
  <2>. QED
    BY <2>1, CopiesKept
<1>. QED
  BY <1>3, <1>4 DEF InvalidateUserBalance

\* A top-up comes with its invalidation.
LEMMA TopUpKeeps ==
  ASSUME NoneForgotten, NEW t, added' = added \cup {t}, clearing' = clearing \cup {t},
         UNCHANGED <<dedup, archive, cached, writes, loaded, pc, charge, excused>>
  PROVE  NoneForgotten'
<1>1. Copies' \subseteq Copies /\ Made' = Made \cup {t}
  BY DEF Copies, Underway, Made
<1>2. Rest \cup {t} \subseteq Rest'
  BY UnfinishedKept DEF Rest, Unfinished
<1>. QED
  BY <1>1, <1>2, CopiesKept

LEMMA CacheStep ==
  ASSUME Typed, NoneForgotten, [Next]_vars
  PROVE  NoneForgotten'
<1>. RequestsTyped
  BY DEF Typed
<1>1. ASSUME UNCHANGED <<dedup, archive, added, clearing, cached, writes, loaded, pc,
                         charge, excused>>
      PROVE NoneForgotten'
  BY <1>1, QuietStep, UnderwayShrinks
<1>2. ASSUME NEW r \in Requests, NEW step \in Steps, pc[r] # "finalize", Goto(r, step),
             UNCHANGED <<dedup, archive, added, clearing, cached, writes, loaded, excused>>,
             \A q \in Requests : q # r => charge'[q] = charge[q]
      PROVE NoneForgotten'
  BY <1>2, GotoQuiet, QuietStep, UnderwayShrinks
<1>3. ASSUME NEW r \in Requests, Check(r) PROVE NoneForgotten'
  <2>1. CASE Goto(r, "read")
    BY <1>2, <1>3, <2>1 DEF Check, database, Steps
  <2>2. CASE UNCHANGED pc
    BY <1>1, <1>3, <2>2 DEF Check, database
  <2>. QED
    BY <1>3, <2>1, <2>2 DEF Check
<1>4. ASSUME NEW r \in Requests, ReadCache(r) PROVE NoneForgotten'
  <2>1. \E step \in Steps : Goto(r, step)
    BY <1>4 DEF ReadCache, Verdict, Steps
  <2>. QED
    BY <1>2, <1>4, <2>1 DEF ReadCache, database
<1>5. ASSUME NEW r \in Requests, Report(r) PROVE NoneForgotten'
  <2>1. (\E step \in Steps : Goto(r, step)) /\ pc[r] # "finalize"
    BY <1>5 DEF Report, Steps
  <2>. QED
    BY <1>2, <1>5, <2>1 DEF Report, database
<1>6. ASSUME NEW r \in Requests, Serve(r) PROVE NoneForgotten'
  <2>1. /\ \E step \in Steps : Goto(r, step)
        /\ UNCHANGED charge \/ \E i \in Ids : charge' = [charge EXCEPT ![r] = i]
    BY <1>6 DEF Serve, Steps
  <2>2. \A q \in Requests : q # r => charge'[q] = charge[q]
    BY <2>1 DEF RequestsTyped
  <2>. QED
    BY <1>2, <1>6, <2>1, <2>2 DEF Serve, database, memory
<1>7. ASSUME NEW t \in TopUps, Redeem(t) PROVE NoneForgotten'
  BY <1>7, TopUpKeeps DEF Redeem, memory, locals
<1>8. CASE UpdateUser
  BY <1>8, TopUpKeeps DEF UpdateUser, memory, locals
<1>9. ASSUME NEW i \in Ids, Archive(i) PROVE NoneForgotten'
  <2>1. Made' = Made /\ Copies' = Copies /\ Rest' = Rest
    BY <1>9 DEF Archive, Made, Copies, Underway, Rest, Unfinished, memory, locals
  <2>. QED
    BY <2>1, CopiesKept
<1>10. CASE CacheLapses
  <2>1. Made' = Made /\ Copies' \subseteq Copies /\ Rest' = Rest
    BY <1>10 DEF CacheLapses, Made, Copies, Underway, Rest, Unfinished, database, memory,
                 locals
  <2>. QED
    BY <2>1, CopiesKept
<1>11. CASE Crash
  <2>1. Made' = Made /\ Copies' \subseteq Copies
    BY <1>11 DEF Crash, Made, Copies, Underway
  <2>2. Rest \subseteq Rest'
    BY <1>11 DEF Crash, Rest
  <2>. QED
    BY <2>1, <2>2, CopiesKept
<1>12. ASSUME NEW t \in TopUps, ReadUser(t) PROVE NoneForgotten'
  BY <1>1, <1>12 DEF ReadUser, memory, locals
<1>13. CASE ResetTimeout \/ UNCHANGED vars
  BY <1>1, <1>13 DEF ResetTimeout, database, locals, vars, memory
<1>. QED
  BY <1>3, <1>4, <1>5, <1>6, <1>7, <1>8, <1>9, <1>10, <1>11, <1>12, <1>13, LoadKeeps,
     FillKeeps, ApplyKeeps, FinalizeKeeps, WriteKeeps, InvalidateKeeps
     DEF Next, Request

\* Asynchronous and unordered as the writes are, and although a full channel drops
\* balances, the cached balance reflects every change that is not still to be told
\* to it, except after a fault or where a change overtook a balance read before it.
THEOREM CacheForgetsNothing == Spec => []NothingForgotten
<1>1. Init => NoneForgotten
  BY DEF Init, NoneForgotten, Copies, Underway, Made
<1>2. Typed /\ NoneForgotten /\ [Next]_vars => NoneForgotten'
  BY CacheStep
<1>. QED
  BY TypedHolds, <1>1, <1>2, NoneForgottenSuffices, PTL DEF Spec
-----------------------------------------------------------------------------
(***************************************************************************)
(* The amount in the cache: a balance there or on its way there is worth   *)
(* no more than what it has been told of, and it forgets only what is      *)
(* still to be told or excused.                                            *)
(***************************************************************************)

TopUpsOf(e)  == e.knows \cap TopUps
ChargesOf(e) == e.knows \cap Ids

Worth(e) ==
    TopUpsOf(e) \subseteq added /\
    (e.amount <= Initial + Cardinality(TopUpsOf(e)) - Cardinality(ChargesOf(e)) \/ clobbered)

CopiesWorth == \A e \in Copies : Worth(e)

Charged(e, id) == [amount |-> e.amount - 1, knows |-> e.knows \cup {id}]

LEMMA CopiesTyped ==
  ASSUME PoolTyped, RequestsTyped
  PROVE  Copies \subseteq Entries
<1>1. \A t \in writes : t.kind = "set" => t.entry \in Entries
  BY TaskFields DEF PoolTyped
<1>. QED
  BY <1>1 DEF Copies, Underway, PoolTyped, RequestsTyped

\* What a balance knows of is finite.
LEMMA KnownFinite ==
  ASSUME NEW e
  PROVE  /\ IsFiniteSet(TopUpsOf(e)) /\ Cardinality(TopUpsOf(e)) \in Nat
         /\ IsFiniteSet(ChargesOf(e)) /\ Cardinality(ChargesOf(e)) \in Nat
<1>1. TopUpsOf(e) \in SUBSET TopUps /\ ChargesOf(e) \in SUBSET Ids
  BY DEF TopUpsOf, ChargesOf
<1>2. IsFiniteSet(TopUpsOf(e)) /\ IsFiniteSet(ChargesOf(e))
  BY <1>1, BillingAssumption, FS_Subset
<1>. QED
  BY <1>2, FS_CardinalityType

\* A balance just read knows of every change, and is their sum.
LEMMA CurrentWorth ==
  ASSUME DataTyped, BalanceIsSum
  PROVE  Worth(Current)
<1>1. TopUpsOf(Current) = added /\ ChargesOf(Current) = dedup \cup archive
  BY BillingAssumption DEF DataTyped, Current, TopUpsOf, ChargesOf
<1>2. Current.amount = balance
  BY DEF Current
<1>. QED
  BY <1>1, <1>2, FiniteChanges, BillingAssumption DEF Worth, BalanceIsSum, DataTyped

\* A deduction lowers the amount whether or not the charge was known.
LEMMA ChargedWorth ==
  ASSUME NEW e \in Entries, Worth(e), NEW id \in Ids
  PROVE  Worth(Charged(e, id))
<1>. DEFINE c == Charged(e, id)
<1>1. c.amount = e.amount - 1 /\ c.knows = e.knows \cup {id} /\ e.amount \in Int
  BY DEF Charged, Entries
<1>. HIDE DEF c
<1>2. TopUpsOf(c) = TopUpsOf(e) /\ ChargesOf(c) = ChargesOf(e) \cup {id}
  BY <1>1, BillingAssumption DEF TopUpsOf, ChargesOf
<1>3. IsFiniteSet(ChargesOf(e)) /\ Cardinality(ChargesOf(e)) \in Nat
      /\ Cardinality(TopUpsOf(e)) \in Nat
  BY KnownFinite
<1>4. Cardinality(ChargesOf(c)) \in {Cardinality(ChargesOf(e)), Cardinality(ChargesOf(e)) + 1}
  BY <1>2, <1>3, FS_AddElement
<1>5. Worth(c)
  BY <1>1, <1>2, <1>3, <1>4, BillingAssumption DEF Worth
<1>. QED
  BY <1>5 DEF c

\* Nothing else makes a balance that may reach the cache.
LEMMA DeductCopies ==
  ASSUME NEW id, Deduct(id), Underway' \subseteq Underway
  PROVE  \A e \in Copies' : e \in Copies \/ \E c \in Copies : e = Charged(c, id)
  BY DEF Deduct, Copies, Charged

LEMMA CopiesOfRequest ==
  ASSUME RequestsTyped, NEW r \in Requests, Request(r)
  PROVE  \A e \in Copies' : \/ e \in Copies \cup {Current}
                            \/ \E c \in Copies, id \in Ids : e = Charged(c, id)
<1>1. CASE LoadBalance(r)
  BY <1>1 DEF LoadBalance, Deliver, Copies, Underway
<1>2. CASE FillCache(r)
  <2>1. loaded \in Underway /\ loaded' = Missing /\ UNCHANGED cached
    BY <1>2, MissingIsNoEntry DEF FillCache, RequestsTyped, RequestOK, Deliver, Underway
  <2>2. writes' = writes \/ writes' = writes \cup {[kind |-> "set", entry |-> loaded]}
    BY <1>2 DEF FillCache, Enqueue
  <2>. QED
    BY <2>1, <2>2 DEF Underway, Copies
<1>3. CASE Finalize(r)
  <2>1. charge[r] \in Ids /\ UNCHANGED loaded
    BY <1>3 DEF Finalize, RequestsTyped, RequestOK
  <2>2. CASE UNCHANGED cached /\ Enqueue([kind |-> "deduct", id |-> charge[r]])
    BY <2>1, <2>2 DEF Enqueue, Copies, Underway
  <2>3. CASE Deduct(charge[r]) /\ UNCHANGED writes
    BY <2>1, <2>3, DeductCopies DEF Underway
  <2>. QED
    BY <1>3, <2>2, <2>3 DEF Finalize
<1>4. CASE Check(r) \/ ReadCache(r) \/ Report(r) \/ Serve(r) \/ Apply(r)
  BY <1>4 DEF Check, ReadCache, Report, Serve, Apply, memory, Copies, Underway
<1>. QED
  BY <1>1, <1>2, <1>3, <1>4 DEF Request

LEMMA CopiesStep ==
  ASSUME Typed, [Next]_vars
  PROVE  \A e \in Copies' : \/ e \in Copies \cup {Current}
                            \/ \E c \in Copies, id \in Ids : e = Charged(c, id)
<1>1. ASSUME NEW t \in writes, Write(t)
      PROVE  \A e \in Copies' : \/ e \in Copies
                                \/ \E c \in Copies, id \in Ids : e = Charged(c, id)
  <2>1. Underway' \subseteq Underway
    BY <1>1, UnderwayShrinks DEF Write
  <2>2. CASE t.kind = "set" /\ cached' \in {cached, t.entry}
    BY <2>1, <2>2 DEF Copies, Underway
  <2>3. CASE t.kind = "deduct" /\ Deduct(t.id)
    <3>1. t.id \in Ids
      BY <2>3, TaskFields DEF Typed, PoolTyped
    <3>. QED
      BY <2>1, <2>3, <3>1, DeductCopies
  <2>. QED
    BY <1>1, <2>2, <2>3 DEF Write
<1>2. ASSUME NEW t \in TopUps, Redeem(t) \/ ReadUser(t) \/ InvalidateUserBalance(t)
      PROVE  Copies' \subseteq Copies
  BY <1>2 DEF Redeem, ReadUser, InvalidateUserBalance, memory, Copies, Underway
<1>3. ASSUME NEW i \in Ids, Archive(i)
      PROVE  Copies' \subseteq Copies
  BY <1>3 DEF Archive, memory, Copies, Underway
<1>4. CASE UpdateUser \/ CacheLapses \/ ResetTimeout \/ Crash \/ UNCHANGED vars
  <2>1. cached' \in {cached, Missing} /\ writes' \in {writes, {}} /\ loaded' \in {loaded, Missing}
    BY <1>4 DEF UpdateUser, CacheLapses, ResetTimeout, Crash, vars, memory
  <2>. QED
    BY <2>1 DEF Copies, Underway
<1>. QED
  BY <1>1, <1>2, <1>3, <1>4, CopiesOfRequest DEF Next, Typed

\* Top-ups are not unmade, and an overwritten change stays overwritten.
LEMMA BooksGrow ==
  ASSUME [Next]_vars
  PROVE  added \subseteq added' /\ (clobbered => clobbered')
<1>1. ASSUME NEW r \in Requests, Request(r)
      PROVE  UNCHANGED <<added, clobbered>>
  BY <1>1 DEF Request, Check, ReadCache, LoadBalance, FillCache, Report, Serve, Apply,
              Finalize, database
<1>2. ASSUME NEW t \in TopUps, Redeem(t) \/ ReadUser(t) \/ InvalidateUserBalance(t)
      PROVE  added \subseteq added' /\ (clobbered => clobbered')
  BY <1>2 DEF Redeem, ReadUser, InvalidateUserBalance, database
<1>3. ASSUME NEW t \in writes, Write(t)
      PROVE  UNCHANGED <<added, clobbered>>
  BY <1>3 DEF Write, database
<1>4. ASSUME NEW i \in Ids, Archive(i)
      PROVE  UNCHANGED <<added, clobbered>>
  BY <1>4 DEF Archive
<1>5. CASE UpdateUser
  BY <1>5 DEF UpdateUser
<1>6. CASE CacheLapses \/ ResetTimeout \/ Crash \/ UNCHANGED vars
  BY <1>6 DEF CacheLapses, ResetTimeout, Crash, vars, database
<1>. QED
  BY <1>1, <1>2, <1>3, <1>4, <1>5, <1>6 DEF Next

LEMMA WorthStep ==
  ASSUME Typed, BalanceIsSum, CopiesWorth, [Next]_vars
  PROVE  CopiesWorth'
<1>1. Copies \subseteq Entries /\ Worth(Current)
  BY CopiesTyped, CurrentWorth DEF Typed
<1>2. \A e \in Copies' : Worth(e)
  BY <1>1, CopiesStep, ChargedWorth DEF CopiesWorth
<1>3. added \subseteq added' /\ (clobbered => clobbered')
  BY BooksGrow
<1>4. ASSUME NEW e \in Copies', Worth(e), added \subseteq added', clobbered => clobbered'
      PROVE  /\ TopUpsOf(e) \subseteq added'
             /\ \/ e.amount <= Initial + Cardinality(TopUpsOf(e)) - Cardinality(ChargesOf(e))
                \/ clobbered'
  BY <1>4 DEF Worth
<1>. QED
  BY <1>2, <1>3, <1>4 DEF CopiesWorth, Worth, TopUpsOf, ChargesOf

\* The charges a cached balance lacks are among those still to come or excused.
LEMMA WorthSuffices ==
  ASSUME Typed, BalanceIsSum, NoneForgotten, CopiesWorth
  PROVE  CachedIsCovered
<1>. SUFFICES ASSUME cached # Missing, ~clobbered
              PROVE  cached.amount <= balance + Cardinality(Rest \cap Ids)
  BY DEF CachedIsCovered, Rest
<1>. DEFINE known   == ChargesOf(cached)
            missed  == Rest \cap Ids
            charges == dedup \cup archive
<1>1. cached \in Copies /\ cached.amount \in Int /\ balance \in Int
  BY DEF Copies, Typed, PoolTyped, DataTyped, Entries
<1>2. /\ TopUpsOf(cached) \subseteq added
      /\ cached.amount <= Initial + Cardinality(TopUpsOf(cached)) - Cardinality(known)
  BY <1>1 DEF CopiesWorth, Worth
<1>3. /\ IsFiniteSet(known) /\ Cardinality(known) \in Nat
      /\ Cardinality(TopUpsOf(cached)) \in Nat
  BY KnownFinite
<1>4. IsFiniteSet(missed) /\ Cardinality(missed) \in Nat
  <2>1. missed \in SUBSET Ids
    OBVIOUS
  <2>. QED
    BY <2>1, BillingAssumption, FS_Subset, FS_CardinalityType
<1>5. /\ IsFiniteSet(added) /\ Cardinality(added) \in Nat
      /\ Cardinality(charges) \in Nat
      /\ balance = Initial + Cardinality(added) - Cardinality(charges)
  BY FiniteChanges DEF Typed, BalanceIsSum
<1>6. Cardinality(TopUpsOf(cached)) <= Cardinality(added)
  BY <1>2, <1>5, FS_Subset
<1>7. charges \subseteq known \cup missed
  BY <1>1 DEF NoneForgotten, Made, ChargesOf, Typed, DataTyped
<1>8. Cardinality(charges) <= Cardinality(known) + Cardinality(missed)
  <2>1. /\ IsFiniteSet(known \cup missed) /\ Cardinality(known \cap missed) \in Nat
        /\ Cardinality(known \cup missed) =
             Cardinality(known) + Cardinality(missed) - Cardinality(known \cap missed)
    BY <1>3, <1>4, FS_Union, FS_Intersection, FS_CardinalityType
  <2>2. Cardinality(charges) <= Cardinality(known \cup missed)
    BY <1>7, <2>1, FS_Subset
  <2>. HIDE DEF known, missed, charges
  <2>. QED
    BY <1>3, <1>4, <1>5, <2>1, <2>2
<1>. HIDE DEF known, missed, charges
<1>9. cached.amount <= balance + Cardinality(missed)
  BY <1>1, <1>2, <1>3, <1>4, <1>5, <1>6, <1>8, BillingAssumption
<1>. QED
  BY <1>9 DEF missed

\* Requests are admitted on the cached balance.  It exceeds the real one by at most
\* the charges whose deductions are still to come, have failed or overtook it: in
\* whatever order the pool fills and decrements, a user is not let in on more.
THEOREM CacheIsCovered == Spec => []CachedIsCovered
<1>1. Init => NoneForgotten /\ CopiesWorth
  BY DEF Init, NoneForgotten, CopiesWorth, Copies, Underway, Made
<1>2. Typed /\ NoneForgotten /\ [Next]_vars => NoneForgotten'
  BY CacheStep
<1>3. Typed /\ BalanceIsSum /\ CopiesWorth /\ [Next]_vars => CopiesWorth'
  BY WorthStep
<1>4. Typed /\ BalanceIsSum /\ NoneForgotten /\ CopiesWorth => CachedIsCovered
  BY WorthSuffices
<1>. QED
  BY TypedHolds, BalanceCorrect, <1>1, <1>2, <1>3, <1>4, PTL DEF Spec
=============================================================================
