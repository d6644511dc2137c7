-------------------------- MODULE TokenRefreshProofs --------------------------
(***************************************************************************)
(* Proofs about TokenRefresh: what every worker knows of the tokens, from  *)
(* which the stored token only moves forward, the accepted one is kept, a  *)
(* live account is not disabled and no stale access token is cached; and   *)
(* that each worker who refreshes without the lock was let in by a loss of *)
(* the lock.                                                               *)
(***************************************************************************)
EXTENDS TokenRefresh, FiniteSetTheorems, TLAPS

\* Refreshing an account that cannot be saved any more, or nobody could know.
Doomed == (stored # live /\ ~InHand(live)) \/ misjudged

\* The worker is about to mark the account as failed for good.
Condemns(w) == (pc[w] = "unlock" /\ result[w] = "invalid") \/ pc[w] = "disable"

\* What a worker knows when it is about to take a step.
OwnOK(w) ==
    /\ pc[w] # "idle" => given[w] >= 1
    /\ pc[w] = "refresh" => Fresh(w) <= due
    /\ pc[w] = "recover" => Fresh(w) <= stored /\ Fresh(w) # live
    /\ pc[w] = "unlock" =>
          result[w] # "none" /\ (result[w] = "refreshed" => Fresh(w) <= stored)
    /\ pc[w] \in {"clear", "invalidate", "sync"} => given[w] <= stored
    /\ checked[w] <= invalidated
    /\ pc[w] = "set" => checked[w] < invalidated \/ given[w] >= invalidated

\* A new token that is not stored yet is newer than the stored one, and the only
\* one on its way.
Persisting(w) ==
    pc[w] = "persist" =>
        /\ hand[w] > stored /\ (live = 0 \/ live = hand[w])
        /\ \A v \in Workers : pc[v] = "persist" => v = w

WorkersOK == \A w \in Workers :
                OwnOK(w) /\ Persisting(w) /\ (Condemns(w) => Doomed)

WorldOK ==
    /\ due <= stored /\ due < MaxToken
    /\ 1 <= stored /\ 1 <= snapshot /\ snapshot <= stored
    /\ live = 0 \/ stored <= live
    /\ invalidated <= stored
    /\ status = "error" => Doomed
    /\ NoStaleTokenCached
    /\ LiveTokenIsKept

Core == TypeOK /\ WorkersOK /\ WorldOK

-----------------------------------------------------------------------------
LEMMA Numbers ==
  ASSUME TypeOK
  PROVE  /\ MaxToken \in Nat \ {0} /\ MaxRetries \in Nat \ {0} /\ MaxFaults \in Nat
         /\ stored \in Nat /\ snapshot \in Nat /\ live \in Nat /\ due \in Nat
         /\ cached \in Nat /\ invalidated \in Nat /\ lost \in Nat /\ exposed \in Nat
         /\ \A w \in Workers : /\ given[w] \in Nat /\ fresh[w] \in Nat
                               /\ hand[w] \in Nat /\ checked[w] \in Nat
                               /\ Fresh(w) \in Nat /\ Fresh(w) \in Tokens
  BY RefreshAssumption DEF TypeOK, Tokens, Fresh, Credentials

LEMMA FaultTypes ==
  ASSUME TypeOK
  PROVE  /\ \A kind : Fault(kind) => faults' \in 0 .. MaxFaults
         /\ \A w, kind : Fails(w, kind) => faults' \in 0 .. MaxFaults
         /\ UNCHANGED faults => faults' \in 0 .. MaxFaults
  BY RefreshAssumption DEF TypeOK, Fault, Fails

\* The workers outside S keep their variables.
Frame(S) ==
    \A v \in Workers \ S :
        /\ pc'[v] = pc[v] /\ given'[v] = given[v] /\ fresh'[v] = fresh[v]
        /\ hand'[v] = hand[v] /\ result'[v] = result[v] /\ checked'[v] = checked[v]

LEMMA HandKept ==
  ASSUME TypeOK, NEW S \in SUBSET Workers, Frame(S),
         \A w \in S : pc[w] # "persist" /\ pc'[w] # "persist"
  PROVE  \A t : InHand(t)' <=> InHand(t)
  BY DEF Frame, InHand

\* A step that neither gets nor stores a token.
LEMMA CalmStep ==
  ASSUME Core, NEW S \in SUBSET Workers, Frame(S),
         UNCHANGED <<stored, live, lost>>, misjudged => misjudged',
         due' \in Nat, due <= due', due' <= stored, due' < MaxToken,
         invalidated' \in Nat, invalidated <= invalidated', invalidated' <= stored,
         1 <= snapshot', snapshot' <= stored,
         status' = "error" => Doomed \/ misjudged',
         NoStaleTokenCached',
         \A w \in S : /\ pc[w] # "persist" /\ pc'[w] # "persist" /\ OwnOK(w)'
                      /\ Condemns(w)' => Doomed \/ misjudged'
  PROVE  (WorkersOK /\ WorldOK)'
<1>1. \A t : InHand(t)' <=> InHand(t)
  BY HandKept DEF Core
<1>2. Doomed \/ misjudged' => Doomed'
  <2>1. InHand(live)' <=> InHand(live)
    BY <1>1, Zenon
  <2> QED BY <2>1 DEF Doomed
<1>3. WorldOK'
  <2>1. InHand(live)' <=> InHand(live)
    BY <1>1, Zenon
  <2> QED BY <1>2, <2>1 DEF Core, WorldOK, LiveTokenIsKept
<1>4. ASSUME NEW v \in Workers \ S PROVE OwnOK(v)'
  <2>1. /\ pc'[v] = pc[v] /\ given'[v] = given[v] /\ fresh'[v] = fresh[v]
        /\ hand'[v] = hand[v] /\ result'[v] = result[v] /\ checked'[v] = checked[v]
        /\ Fresh(v)' = Fresh(v) /\ OwnOK(v)
        /\ checked[v] \in Nat /\ given[v] \in Nat /\ Fresh(v) \in Nat
    BY Numbers DEF Frame, Core, WorkersOK, Fresh, Credentials
  <2> QED BY <2>1, Numbers DEF OwnOK, Core
<1>5. ASSUME NEW v \in Workers PROVE Persisting(v)'
  <2>1. \A u \in Workers : pc'[u] = "persist" =>
            pc[u] = "persist" /\ hand'[u] = hand[u]
    BY DEF Frame
  <2> QED BY <2>1 DEF Persisting, Core, WorkersOK
<1>6. ASSUME NEW v \in Workers \ S PROVE Condemns(v)' => Doomed
  BY DEF Frame, Condemns, Core, WorkersOK
<1> QED BY <1>2, <1>3, <1>4, <1>5, <1>6 DEF WorkersOK

\* Most of a worker's steps touch none of what the workers share.
LEMMA QuietStep ==
  ASSUME Core, NEW w \in Workers, Frame({w}),
         UNCHANGED <<stored, status, snapshot, live, due, cached, invalidated, outrun,
                     misjudged, lost>>,
         pc[w] # "persist", pc'[w] # "persist", OwnOK(w)', Condemns(w)' => Doomed
  PROVE  (WorkersOK /\ WorldOK)'
<1>1. NoStaleTokenCached'
  BY DEF Core, WorldOK, NoStaleTokenCached
<1>2. due <= due' /\ invalidated <= invalidated'
  BY Numbers DEF Core
<1> QED BY <1>1, <1>2, CalmStep, Numbers DEF Core, WorldOK

-----------------------------------------------------------------------------
(* RefreshIfNeeded.                                                        *)

LEMMA LockLocalStep ==
  ASSUME Core, NEW w \in Workers, LockLocal(w)
  PROVE  Core'
<1>1. TypeOK'
  BY DEF Core, TypeOK, LockLocal, Goto, row, world, locals, marks
<1>2. /\ Frame({w}) /\ pc[w] = "mutex" /\ pc'[w] = "lock" /\ given'[w] = given[w]
      /\ checked'[w] = checked[w]
  BY DEF Core, TypeOK, LockLocal, Goto, Frame, locals, marks
<1>3. OwnOK(w)'
  BY <1>2 DEF Core, WorkersOK, OwnOK, LockLocal, marks
<1>4. ~Condemns(w)'
  BY <1>2 DEF Condemns
<1> QED BY <1>1, <1>2, <1>3, <1>4, QuietStep DEF Core, LockLocal, row, world, marks

LEMMA AcquireStep ==
  ASSUME Core, NEW w \in Workers, AcquireRefreshLock(w)
  PROVE  Core'
<1>1. TypeOK'
  <2>1. faults' \in 0 .. MaxFaults
    BY FaultTypes DEF Core, AcquireRefreshLock
  <2>2. /\ lock' \in Workers \cup {NoWorker} /\ exposed' \in Nat
        /\ owns' \in [Workers -> BOOLEAN]
    <3>1. lock' \in {lock, w} /\ exposed' \in {exposed, exposed + 1}
      BY DEF AcquireRefreshLock
    <3>2. UNCHANGED owns \/ owns' = [owns EXCEPT ![w] = TRUE]
      BY DEF AcquireRefreshLock
    <3>3. exposed' \in Nat
      BY <3>1, Numbers DEF Core
    <3>4. owns' \in [Workers -> BOOLEAN]
      BY <3>2 DEF Core, TypeOK
    <3>5. lock' \in Workers \cup {NoWorker}
      BY <3>1 DEF Core, TypeOK
    <3> QED BY <3>3, <3>4, <3>5
  <2>3. \E step \in {"reread", "unlock"} : pc' = [pc EXCEPT ![w] = step]
    BY DEF AcquireRefreshLock, Goto
  <2>4. UNCHANGED result \/ result' = [result EXCEPT ![w] = "held"]
    BY DEF AcquireRefreshLock
  <2>5. UNCHANGED <<row, world, cached, mutex, home, given, fresh, hand, attempt, gone,
                    invalidated, checked, outrun, lost, misjudged>>
    BY DEF AcquireRefreshLock
  <2> QED BY <2>1, <2>2, <2>3, <2>4, <2>5 DEF Core, TypeOK, row, world
<1>2. /\ Frame({w}) /\ pc[w] = "lock" /\ given'[w] = given[w]
      /\ checked'[w] = checked[w]
      /\ pc'[w] = "reread" \/ (pc'[w] = "unlock" /\ result'[w] = "held")
  BY DEF Core, TypeOK, AcquireRefreshLock, Goto, Frame
<1>3. OwnOK(w)'
  BY <1>2 DEF Core, WorkersOK, OwnOK, AcquireRefreshLock
<1>4. ~Condemns(w)'
  BY <1>2 DEF Condemns
<1> QED BY <1>1, <1>2, <1>3, <1>4, QuietStep DEF Core, AcquireRefreshLock, row, world

LEMMA RereadStep ==
  ASSUME Core, NEW w \in Workers, Reread(w)
  PROVE  Core'
<1>1. TypeOK'
  <2>1. faults' \in 0 .. MaxFaults
    BY FaultTypes DEF Core, Reread
  <2>2. 0 \in Tokens
    BY Numbers DEF Core, Tokens
  <2> QED BY <2>1, <2>2 DEF Core, TypeOK, Reread, Goto, row, world, marks
<1>2. /\ Frame({w}) /\ pc[w] = "reread" /\ given'[w] = given[w]
      /\ checked'[w] = checked[w]
      /\ \/ pc'[w] = "unlock" /\ result'[w] = "account"
         \/ /\ pc'[w] = "refresh"
            /\ TRUE \in Decisions(w, Credentials(w, fresh'[w]))
  BY DEF Core, TypeOK, Reread, Goto, Frame, marks
<1>3. OwnOK(w)'
  <2>1. pc'[w] = "refresh" => Fresh(w)' <= due
    BY <1>2 DEF Decisions, NeedsRefresh, Fresh, Credentials
  <2> QED BY <1>2, <2>1 DEF Core, WorkersOK, OwnOK, Reread, marks, world
<1>4. ~Condemns(w)'
  BY <1>2 DEF Condemns
<1> QED BY <1>1, <1>2, <1>3, <1>4, QuietStep DEF Core, Reread, row, world, marks

\* Nobody uses a token that is not due, so a token that works is the stored one.
LEMMA LiveIsStored ==
  ASSUME Core, NEW w \in Workers, pc[w] = "refresh", Fresh(w) = live
  PROVE  /\ live = stored /\ live <= due
         /\ \A v \in Workers : pc[v] # "persist"
<1>1. Fresh(w) >= 1 /\ Fresh(w) <= due /\ due <= stored
  BY Numbers DEF Core, WorkersOK, OwnOK, WorldOK, Fresh, Credentials
<1>2. live = stored
  BY <1>1, Numbers DEF Core, WorldOK
<1>3. ASSUME NEW v \in Workers, pc[v] = "persist" PROVE FALSE
  BY <1>1, <1>2, <1>3, Numbers DEF Core, WorkersOK, Persisting
<1> QED BY <1>1, <1>2, <1>3

\* The provider takes the token; w has the new one, or nobody has.
LEMMA NewTokenStep ==
  ASSUME Core, NEW w \in Workers, pc[w] = "refresh", Fresh(w) = live,
         Frame({w}), live' = live + 1,
         UNCHANGED <<stored, status, snapshot, due, cached, invalidated, outrun, misjudged>>,
         given'[w] = given[w], checked'[w] = checked[w], fresh'[w] = fresh[w],
         \/ pc'[w] = "persist" /\ hand'[w] = live + 1
         \/ /\ pc'[w] = "unlock" /\ result'[w] = "failed"
            /\ lost' = lost + 1
  PROVE  (WorkersOK /\ WorldOK)'
<1>1. live = stored /\ \A v \in Workers : pc[v] # "persist"
  BY LiveIsStored
<1>2. \A v \in Workers : pc'[v] = "persist" => v = w
  BY <1>1 DEF Frame
<1>3. Doomed => Doomed'
  BY <1>1 DEF Doomed
<1>4. WorldOK'
  <2>1. LiveTokenIsKept'
    BY Numbers DEF Core, LiveTokenIsKept, InHand
  <2> QED BY <1>1, <1>3, <2>1, Numbers DEF Core, WorldOK, NoStaleTokenCached
<1>5. ASSUME NEW v \in Workers PROVE OwnOK(v)'
  <2>1. OwnOK(v) /\ given'[v] = given[v] /\ checked'[v] = checked[v]
        /\ Fresh(v)' = Fresh(v) /\ Fresh(v) \in Nat
    BY Numbers DEF Core, WorkersOK, Frame, Fresh, Credentials
  <2>2. CASE v = w
    BY <2>1, <2>2 DEF OwnOK
  <2>3. CASE v # w
    <3>1. pc'[v] = pc[v] /\ result'[v] = result[v]
      BY <2>3 DEF Frame
    <3> QED BY <1>1, <2>1, <3>1, Numbers DEF OwnOK, Core
  <2> QED BY <2>2, <2>3
<1>6. ASSUME NEW v \in Workers PROVE Persisting(v)'
  BY <1>1, <1>2, Numbers DEF Persisting, Core
<1>7. ASSUME NEW v \in Workers PROVE Condemns(v)' => Doomed'
  <2>1. Condemns(v)' => Condemns(v)
    BY DEF Frame, Condemns
  <2> QED BY <1>3, <2>1 DEF Core, WorkersOK
<1> QED BY <1>4, <1>5, <1>6, <1>7 DEF WorkersOK

LEMMA RefreshStep ==
  ASSUME Core, NEW w \in Workers, Refresh(w)
  PROVE  Core'
<1>1. TypeOK'
  <2>1. faults' \in 0 .. MaxFaults
    BY FaultTypes DEF Core, Refresh
  <2>2. pc[w] = "refresh" /\ Fresh(w) = live => live + 1 \in Tokens
    BY LiveIsStored, Numbers DEF Core, WorldOK, Tokens
  <2>3. live' \in Tokens /\ hand' \in [Workers -> Tokens] /\ lost' \in Nat
    BY <2>2 DEF Core, TypeOK, Refresh
  <2> QED BY <2>1, <2>3 DEF Core, TypeOK, Refresh, Finish, Goto, row
<1>2. /\ Frame({w}) /\ pc[w] = "refresh" /\ given'[w] = given[w]
      /\ checked'[w] = checked[w] /\ fresh'[w] = fresh[w]
      /\ UNCHANGED <<stored, status, snapshot, due, cached, invalidated, outrun, misjudged>>
  BY DEF Core, TypeOK, Refresh, Finish, Goto, Frame, row
<1>3. CASE UNCHANGED <<live, lost>> /\ pc'[w] = "recover" /\ Fresh(w) # live
  <2>1. Fresh(w)' = Fresh(w) /\ Fresh(w) <= due /\ due <= stored
    BY <1>2 DEF Core, WorkersOK, WorldOK, OwnOK, Fresh, Credentials
  <2>2. OwnOK(w)'
    BY <1>2, <1>3, <2>1, Numbers DEF Core, WorkersOK, OwnOK
  <2> QED BY <1>1, <1>2, <1>3, <2>2, QuietStep DEF Core, Condemns
<1>4. CASE UNCHANGED <<live, lost>> /\ pc'[w] = "unlock" /\ result'[w] = "failed"
  <2>1. OwnOK(w)'
    BY <1>2, <1>4 DEF Core, WorkersOK, OwnOK
  <2> QED BY <1>1, <1>2, <1>4, <2>1, QuietStep DEF Core, Condemns
<1>5. CASE /\ Fresh(w) = live /\ live' = live + 1
           /\ \/ pc'[w] = "persist" /\ hand'[w] = live + 1
              \/ pc'[w] = "unlock" /\ result'[w] = "failed" /\ lost' = lost + 1
  BY <1>1, <1>2, <1>5, NewTokenStep DEF Core
<1> QED BY <1>3, <1>4, <1>5 DEF Refresh, Finish, Goto, Core, TypeOK

LEMMA RecoverStep ==
  ASSUME Core, NEW w \in Workers, Recover(w)
  PROVE  Core'
<1>1. TypeOK'
  <2>1. faults' \in 0 .. MaxFaults
    BY FaultTypes DEF Core, Recover
  <2>2. misjudged' \in BOOLEAN
    BY DEF Core, TypeOK, Recover, InHand
  <2> QED BY <2>1, <2>2 DEF Core, TypeOK, Recover, Finish, Goto, row, world
<1>2. /\ Frame({w}) /\ pc[w] = "recover" /\ given'[w] = given[w]
      /\ checked'[w] = checked[w] /\ pc'[w] = "unlock"
      /\ result'[w] \in {"account", "invalid"}
      /\ UNCHANGED <<stored, status, snapshot, live, due, cached, invalidated, outrun, lost>>
  BY DEF Core, TypeOK, Recover, Finish, Goto, Frame, row, world
<1>3. misjudged => misjudged'
  BY DEF Recover
<1>4. OwnOK(w)'
  BY <1>2 DEF Core, WorkersOK, OwnOK
<1>5. Condemns(w)' => Doomed \/ misjudged'
  <2> SUFFICES ASSUME result'[w] = "invalid", ~misjudged'
               PROVE  stored # live /\ ~InHand(live)
    BY <1>2 DEF Condemns, Doomed
  <2>1. stored = Fresh(w) /\ ~InHand(live)
    BY DEF Recover, Finish, Core, TypeOK
  <2> QED BY <1>2, <2>1 DEF Core, WorkersOK, OwnOK
<1>6. NoStaleTokenCached' /\ (status' = "error" => Doomed)
  BY <1>2 DEF Core, WorldOK, NoStaleTokenCached
<1>7. due <= due' /\ invalidated <= invalidated'
  BY <1>2, Numbers DEF Core
<1> QED BY <1>1, <1>2, <1>3, <1>4, <1>5, <1>6, <1>7, CalmStep, Numbers DEF Core, WorldOK

LEMMA PersistFacts ==
  ASSUME Core, NEW w \in Workers, Persist(w)
  PROVE  /\ TypeOK' /\ Frame({w})
         /\ pc[w] = "persist" /\ pc'[w] = "unlock" /\ checked'[w] = checked[w]
         /\ result'[w] \in {"refreshed", "failed"}
         /\ given'[w] \in {given[w], hand[w]} /\ Fresh(w)' = hand[w]
         /\ \/ stored' = hand[w] /\ lost' = lost
            \/ stored' = stored /\ lost' = lost + 1 /\ result'[w] = "failed"
         /\ UNCHANGED <<status, snapshot, live, due, cached, invalidated, outrun, misjudged>>
<1>1. pc[w] = "persist" /\ hand[w] \in Tokens /\ 0 \in Tokens /\ hand[w] # 0
  <2>1. pc[w] = "persist"
    BY DEF Persist
  <2>2. hand[w] > stored /\ stored >= 1
    BY <2>1 DEF Core, WorkersOK, Persisting, WorldOK
  <2> QED BY <2>1, <2>2, Numbers DEF Core, TypeOK, Tokens
<1>2. \E how \in {"refreshed", "failed"} :
         result' = [result EXCEPT ![w] = how] /\ pc' = [pc EXCEPT ![w] = "unlock"]
  BY DEF Persist, Finish, Goto
<1>3. \/ stored' = hand[w] /\ lost' = lost
      \/ stored' = stored /\ lost' = lost + 1 /\ result' = [result EXCEPT ![w] = "failed"]
  BY DEF Persist, Finish
<1>4. \/ given' = [given EXCEPT ![w] = hand[w]] /\ fresh' = fresh /\ fresh[w] = 0
      \/ fresh' = [fresh EXCEPT ![w] = hand[w]] /\ given' = given
  BY DEF Persist
<1>5. /\ hand' = [hand EXCEPT ![w] = 0]
      /\ UNCHANGED <<status, paused, world, cached, lock, mutex, home, owns, attempt, gone,
                     invalidated, checked, outrun, exposed, misjudged>>
  BY DEF Persist
<1>6. TypeOK'
  <2>1. faults' \in 0 .. MaxFaults
    BY FaultTypes DEF Core, Persist
  <2>2. stored' \in Tokens /\ lost' \in Nat
    BY <1>1, <1>3 DEF Core, TypeOK
  <2> QED BY <1>1, <1>2, <1>4, <1>5, <2>1, <2>2 DEF Core, TypeOK, world
<1>7. Fresh(w)' = hand[w] /\ given'[w] \in {given[w], hand[w]}
  BY <1>1, <1>4 DEF Core, TypeOK, Fresh, Credentials
<1>8. Frame({w}) /\ pc'[w] = "unlock" /\ result'[w] \in {"refreshed", "failed"}
  BY <1>2, <1>4, <1>5 DEF Core, TypeOK, Frame
<1>9. result' = [result EXCEPT ![w] = "failed"] => result'[w] = "failed"
  BY DEF Core, TypeOK
<1> QED BY <1>1, <1>3, <1>5, <1>6, <1>7, <1>8, <1>9 DEF world

LEMMA PersistStep ==
  ASSUME Core, NEW w \in Workers, Persist(w)
  PROVE  Core'
<1>0. /\ Frame({w}) /\ pc[w] = "persist" /\ pc'[w] = "unlock" /\ checked'[w] = checked[w]
      /\ result'[w] \in {"refreshed", "failed"}
      /\ given'[w] \in {given[w], hand[w]} /\ Fresh(w)' = hand[w]
      /\ \/ stored' = hand[w] /\ lost' = lost
         \/ stored' = stored /\ lost' = lost + 1 /\ result'[w] = "failed"
      /\ UNCHANGED <<status, snapshot, live, due, cached, invalidated, outrun, misjudged>>
  BY PersistFacts
<1>1. /\ hand[w] > stored /\ stored >= 1 /\ (live = 0 \/ live = hand[w])
      /\ \A v \in Workers : pc[v] = "persist" => v = w
  BY <1>0 DEF Core, WorkersOK, Persisting, WorldOK
<1>2. /\ hand[w] \in Nat /\ stored \in Nat /\ live \in Nat /\ lost \in Nat
      /\ stored' \in Nat /\ stored <= stored' /\ stored' \in {stored, hand[w]}
  <2>1. hand[w] \in Nat /\ stored \in Nat /\ live \in Nat /\ lost \in Nat
    BY Numbers DEF Core
  <2> QED BY <1>1, <2>1, <1>0
<1>3. \A v \in Workers : pc'[v] # "persist"
  BY <1>1, <1>0 DEF Frame
<1>4. Doomed => Doomed'
  <2> SUFFICES ASSUME stored # live, ~InHand(live), ~misjudged
               PROVE  stored' # live' /\ ~InHand(live)'
    BY <1>0 DEF Doomed
  <2>1. live = 0
    BY <1>1, <1>0 DEF InHand
  <2>2. stored' # live'
    BY <1>1, <1>2, <2>1, <1>0
  <2> QED BY <1>3, <2>2 DEF InHand
<1>5. WorldOK'
  <2>1. LiveTokenIsKept'
    BY <1>1, <1>2, <1>0 DEF LiveTokenIsKept
  <2>2. live' = 0 \/ stored' <= live'
    BY <1>1, <1>2, <1>0
  <2>3. due \in Nat /\ snapshot \in Nat /\ invalidated \in Nat /\ MaxToken \in Nat
    BY Numbers DEF Core
  <2> QED BY <1>2, <1>4, <2>1, <2>2, <2>3, <1>0
       DEF Core, WorldOK, NoStaleTokenCached
<1>6. ASSUME NEW v \in Workers PROVE OwnOK(v)'
  <2>1. CASE v = w
    <3>1. given[w] >= 1 /\ checked[w] <= invalidated
      BY <1>0 DEF Core, WorkersOK, OwnOK
    <3>2. given'[w] >= 1 /\ (result'[w] = "refreshed" => Fresh(w)' <= stored')
      BY <1>1, <1>2, <3>1, <1>0
    <3> QED BY <2>1, <3>1, <3>2, <1>0 DEF OwnOK
  <2>2. CASE v # w
    <3>1. /\ pc'[v] = pc[v] /\ given'[v] = given[v] /\ result'[v] = result[v]
          /\ checked'[v] = checked[v] /\ Fresh(v)' = Fresh(v) /\ OwnOK(v)
          /\ Fresh(v) \in Nat /\ given[v] \in Nat
      BY <2>2, Numbers, <1>0 DEF Core, WorkersOK, Frame, Fresh, Credentials
    <3> QED BY <1>2, <3>1, <1>0 DEF OwnOK
  <2> QED BY <2>1, <2>2
<1>7. ASSUME NEW v \in Workers PROVE Persisting(v)' /\ (Condemns(v)' => Doomed')
  <2>1. Condemns(v)' => Condemns(v)
    BY <1>0 DEF Frame, Condemns
  <2> QED BY <1>3, <1>4, <2>1 DEF Core, WorkersOK, Persisting
<1> QED BY <1>5, <1>6, <1>7, PersistFacts DEF Core, WorkersOK

\* Where a worker goes on after RefreshIfNeeded.
LEMMA AfterSteps ==
  ASSUME Core, NEW w \in Workers, pc[w] = "unlock",
         ~(w \in Background /\ result[w] \in {"held", "account"})
  PROVE  \/ w \in Requests /\ AfterRefresh(w) \in {"recheck", "version"}
         \/ result[w] = "refreshed" /\ AfterRefresh(w) = "clear"
         \/ result[w] = "invalid" /\ AfterRefresh(w) = "disable"
         \/ /\ result[w] = "failed" /\ attempt[w] < MaxRetries
            /\ AfterRefresh(w) = "mutex"
         \/ result[w] = "failed" /\ AfterRefresh(w) = "pause"
<1>1. CASE w \in Requests
  BY <1>1 DEF AfterRefresh
<1>2. CASE w \notin Requests
  <2>1. result[w] \in {"refreshed", "failed", "invalid"}
    BY <1>2 DEF Core, TypeOK, WorkersOK, OwnOK, Workers
  <2> QED BY <1>2, <2>1 DEF AfterRefresh
<1> QED BY <1>1, <1>2

LEMMA ReturnFacts ==
  ASSUME Core, NEW w \in Workers, Return(w)
  PROVE  /\ pc'[w] = "idle"
         /\ pc' \in [Workers -> {pc[v] : v \in Workers} \cup {"idle"}]
         /\ home' \in [Requests -> Processes \cup {Nowhere}]
         /\ given' \in [Workers -> Tokens] /\ fresh' \in [Workers -> Tokens]
         /\ hand' \in [Workers -> Tokens]
         /\ result' \in [Workers -> {"none", "held", "account", "refreshed", "failed", "invalid"}]
         /\ attempt' \in [Workers -> 0 .. MaxRetries]
         /\ gone' \subseteq Requests
         /\ \A v \in Workers \ {w} :
              /\ pc'[v] = pc[v] /\ given'[v] = given[v] /\ fresh'[v] = fresh[v]
              /\ hand'[v] = hand[v] /\ result'[v] = result[v]
<1>1. 0 \in Tokens /\ 0 \in 0 .. MaxRetries
  BY Numbers DEF Core, Tokens
<1> QED BY <1>1 DEF Core, TypeOK, Return, Goto

LEMMA UnlockFacts ==
  ASSUME Core, NEW w \in Workers, Unlock(w)
  PROVE  /\ TypeOK' /\ Frame({w}) /\ pc[w] = "unlock"
         /\ UNCHANGED <<stored, status, snapshot, live, due, cached, invalidated, outrun,
                        misjudged, lost, exposed, checked>>
         /\ owns' = [owns EXCEPT ![w] = FALSE]
         /\ lock' \in {lock, NoWorker} /\ (~owns[w] => lock' = lock)
         /\ \/ pc'[w] = "idle"
            \/ /\ pc'[w] = AfterRefresh(w)
               /\ ~(w \in Background /\ result[w] \in {"held", "account"})
               /\ given'[w] = IF result[w] \in {"account", "refreshed"}
                              THEN Fresh(w) ELSE given[w]
<1>1. /\ pc[w] = "unlock" /\ ReleaseRefreshLock(w)
      /\ mutex' = [mutex EXCEPT ![ProcessOf(w)] = NoWorker]
      /\ UNCHANGED <<row, world, cached, marks>>
  BY DEF Unlock
<1>2. /\ owns' = [owns EXCEPT ![w] = FALSE]
      /\ lock' \in {lock, NoWorker} /\ (~owns[w] => lock' = lock)
      /\ faults' \in 0 .. MaxFaults
  BY <1>1, FaultTypes DEF ReleaseRefreshLock, Core
<1>3. CASE Return(w)
  <2>1. pc'[w] = "idle" /\ Frame({w})
    BY <1>1, <1>3, ReturnFacts DEF Frame, marks
  <2>2. pc' \in [Workers -> {"idle", "get", "mutex", "lock", "reread", "refresh", "recover",
                             "persist", "unlock", "recheck", "version", "set",
                             "clear", "invalidate", "sync", "disable", "pause"}]
    BY <1>3 DEF Return, Goto, Core, TypeOK
  <2>3. TypeOK'
    BY <1>1, <1>2, <1>3, <2>2, ReturnFacts DEF Core, TypeOK, row, world, marks
  <2> QED BY <1>1, <1>2, <2>1, <2>3 DEF row, world, marks
<1>4. CASE /\ ~(w \in Background /\ result[w] \in {"held", "account"})
           /\ Goto(w, AfterRefresh(w))
           /\ given' = [given EXCEPT ![w] =
                           IF result[w] \in {"account", "refreshed"} THEN Fresh(w) ELSE @]
           /\ fresh' = [fresh EXCEPT ![w] = 0]
           /\ result' = [result EXCEPT ![w] = "none"]
           /\ attempt' = [attempt EXCEPT ![w] =
                           IF AfterRefresh(w) = "mutex" THEN @ + 1 ELSE @]
           /\ UNCHANGED <<home, hand, gone>>
  <2>1. AfterRefresh(w) \in {"recheck", "version", "clear", "disable", "mutex", "pause"}
        /\ (AfterRefresh(w) = "mutex" => attempt[w] < MaxRetries)
    BY <1>1, <1>4, AfterSteps
  <2>2. pc'[w] = AfterRefresh(w) /\ Frame({w})
        /\ given'[w] = IF result[w] \in {"account", "refreshed"} THEN Fresh(w) ELSE given[w]
    BY <1>1, <1>4 DEF Core, TypeOK, Goto, Frame, marks
  <2>3. attempt' \in [Workers -> 0 .. MaxRetries]
    <3>1. attempt[w] \in 0 .. MaxRetries /\ MaxRetries \in Nat
      BY RefreshAssumption DEF Core, TypeOK
    <3>2. (IF AfterRefresh(w) = "mutex" THEN attempt[w] + 1 ELSE attempt[w])
             \in 0 .. MaxRetries
      BY <2>1, <3>1
    <3> QED BY <1>4, <3>2 DEF Core, TypeOK
  <2>4. given' \in [Workers -> Tokens] /\ fresh' \in [Workers -> Tokens]
    <3>1. Fresh(w) \in Tokens /\ 0 \in Tokens
      BY Numbers DEF Core, Tokens
    <3> QED BY <1>4, <3>1 DEF Core, TypeOK
  <2>5. pc' \in [Workers -> {"idle", "get", "mutex", "lock", "reread", "refresh", "recover",
                             "persist", "unlock", "recheck", "version", "set",
                             "clear", "invalidate", "sync", "disable", "pause"}]
    BY <1>4, <2>1 DEF Goto, Core, TypeOK
  <2>6. TypeOK'
    BY <1>1, <1>2, <1>4, <2>3, <2>4, <2>5 DEF Core, TypeOK, row, world, marks
  <2> QED BY <1>1, <1>2, <1>4, <2>2, <2>6 DEF row, world, marks
<1> QED BY <1>3, <1>4 DEF Unlock

LEMMA UnlockStep ==
  ASSUME Core, NEW w \in Workers, Unlock(w)
  PROVE  Core'
<1>1. /\ TypeOK' /\ Frame({w}) /\ pc[w] = "unlock"
      /\ UNCHANGED <<stored, status, snapshot, live, due, cached, invalidated, outrun,
                     misjudged, lost>>
      /\ checked'[w] = checked[w]
  BY UnlockFacts
<1>2. /\ checked[w] <= invalidated /\ given[w] >= 1 /\ Fresh(w) >= 1
      /\ result[w] = "refreshed" => Fresh(w) <= stored
      /\ result[w] = "invalid" => Doomed
  BY <1>1, Numbers DEF Core, WorkersOK, OwnOK, Condemns, Fresh, Credentials
<1>3. CASE pc'[w] = "idle"
  <2>1. OwnOK(w)' /\ ~Condemns(w)'
    BY <1>1, <1>2, <1>3 DEF OwnOK, Condemns
  <2> QED BY <1>1, <1>3, <2>1, QuietStep DEF Core
<1>4. CASE /\ pc'[w] = AfterRefresh(w)
           /\ ~(w \in Background /\ result[w] \in {"held", "account"})
           /\ given'[w] = IF result[w] \in {"account", "refreshed"} THEN Fresh(w) ELSE given[w]
  <2>1. /\ AfterRefresh(w) \in {"recheck", "version", "clear", "disable", "mutex", "pause"}
        /\ AfterRefresh(w) = "clear" => result[w] = "refreshed" \/ given'[w] <= stored
        /\ AfterRefresh(w) = "disable" => result[w] = "invalid"
    BY <1>1, <1>4, AfterSteps
  <2>2. given'[w] >= 1
    BY <1>2, <1>4
  <2>3. OwnOK(w)'
    BY <1>1, <1>2, <1>4, <2>1, <2>2 DEF OwnOK
  <2>4. Condemns(w)' => Doomed
    BY <1>2, <1>4, <2>1 DEF Condemns
  <2> QED BY <1>1, <1>4, <2>1, <2>3, <2>4, QuietStep DEF Core
<1> QED BY <1>3, <1>4, UnlockFacts

-----------------------------------------------------------------------------
(* GetAccessToken.                                                         *)

LEMMA ReturnTypes ==
  ASSUME Core, NEW w \in Workers, Return(w), UNCHANGED <<mutex, owns, exposed, lost, live, due>>,
         stored' \in Tokens, status' \in {"active", "error"}, paused' \in BOOLEAN,
         snapshot' \in Tokens, cached' \in Tokens, lock' \in Workers \cup {NoWorker},
         invalidated' \in Tokens, checked' \in [Workers -> Tokens],
         outrun' \in BOOLEAN, misjudged' \in BOOLEAN, faults' \in 0 .. MaxFaults
  PROVE  TypeOK'
<1>1. pc' \in [Workers -> {"idle", "get", "mutex", "lock", "reread", "refresh", "recover",
                           "persist", "unlock", "recheck", "version", "set",
                           "clear", "invalidate", "sync", "disable", "pause"}]
  BY DEF Return, Goto, Core, TypeOK
<1> QED BY <1>1, ReturnFacts DEF Core, TypeOK

LEMMA NewRequestStep ==
  ASSUME Core, NEW q \in Requests, NEW p \in Processes, NewRequest(q, p)
  PROVE  Core'
<1>1. TypeOK'
  BY DEF Core, TypeOK, NewRequest, Goto, row, world, marks, Workers
<1>2. /\ q \in Workers /\ Frame({q}) /\ pc[q] = "idle" /\ pc'[q] = "get"
      /\ given'[q] = snapshot /\ checked'[q] = checked[q]
  BY DEF Core, TypeOK, NewRequest, Goto, Frame, marks, Workers
<1>3. OwnOK(q)' /\ ~Condemns(q)'
  BY <1>2 DEF Core, WorkersOK, WorldOK, OwnOK, Condemns, NewRequest, marks
<1> QED BY <1>1, <1>2, <1>3, QuietStep DEF Core, NewRequest, row, world, marks

LEMMA GetCachedStep ==
  ASSUME Core, NEW q \in Requests, GetCached(q)
  PROVE  Core'
<1>0. /\ q \in Workers /\ pc[q] \in {"get", "recheck"} /\ faults' \in 0 .. MaxFaults
      /\ UNCHANGED <<row, world, cached, lock, mutex, owns, marks>>
  BY FaultTypes DEF Core, GetCached, Workers
<1>1. OwnOK(q)
  BY <1>0 DEF Core, WorkersOK
<1>2. CASE Return(q)
  <2>1. TypeOK'
    BY <1>0, <1>2, ReturnTypes DEF Core, TypeOK, row, world, marks
  <2>2. Frame({q}) /\ pc'[q] = "idle" /\ checked'[q] = checked[q]
    BY <1>0, <1>2, ReturnFacts DEF Frame, marks
  <2>3. OwnOK(q)' /\ ~Condemns(q)'
    BY <1>0, <1>1, <2>2 DEF OwnOK, Condemns, marks
  <2> QED BY <1>0, <2>1, <2>2, <2>3, QuietStep DEF Core, row, world, marks
<1>3. CASE /\ \E step \in {"mutex", "version"} : Goto(q, step)
           /\ UNCHANGED <<home, given, fresh, hand, result, attempt, gone>>
  <2>1. TypeOK'
    BY <1>0, <1>3 DEF Goto, Core, TypeOK, row, world, marks
  <2>2. Frame({q}) /\ pc'[q] \in {"mutex", "version"} /\ checked'[q] = checked[q]
        /\ given'[q] = given[q]
    BY <1>0, <1>3 DEF Goto, Frame, Core, TypeOK, marks
  <2>3. OwnOK(q)' /\ ~Condemns(q)'
    BY <1>0, <1>1, <2>2 DEF OwnOK, Condemns, marks
  <2> QED BY <1>0, <2>1, <2>2, <2>3, QuietStep DEF Core, row, world, marks
<1> QED BY <1>2, <1>3 DEF GetCached

\* A token that is not stale is as new as any for which the cache was cleared.
LEMMA NotStale ==
  ASSUME Core, NEW t \in Nat, t >= 1, ~Stale(t)
  PROVE  t >= invalidated
<1>1. stored \in Nat /\ invalidated \in Nat /\ invalidated <= stored /\ 1 <= stored
  BY Numbers DEF Core, WorldOK
<1>2. CASE stored = 1
  BY <1>1, <1>2
<1>3. CASE stored # 1
  <2>1. Version(stored) = stored /\ Version(t) \in Nat /\ Version(t) <= t
    BY <1>3 DEF Version
  <2>2. ~(stored > Version(t))
    BY <2>1 DEF Stale
  <2> QED BY <1>1, <2>1, <2>2
<1> QED BY <1>2, <1>3

LEMMA CheckTokenVersionStep ==
  ASSUME Core, NEW q \in Requests, CheckTokenVersion(q)
  PROVE  Core'
<1>0. /\ q \in Workers /\ pc[q] = "version" /\ faults' \in 0 .. MaxFaults
      /\ UNCHANGED <<row, world, cached, lock, mutex, owns,
                     invalidated, outrun, exposed, lost, misjudged>>
  BY FaultTypes DEF Core, CheckTokenVersion, Workers
<1>1. OwnOK(q) /\ given[q] \in Nat /\ invalidated \in Nat /\ given[q] >= 1
  BY <1>0, Numbers DEF Core, WorkersOK, OwnOK
<1>2. CASE Return(q) /\ UNCHANGED checked
  <2>1. TypeOK'
    BY <1>0, <1>2, ReturnTypes DEF Core, TypeOK, row, world
  <2>2. Frame({q}) /\ pc'[q] = "idle" /\ checked'[q] = checked[q]
    BY <1>0, <1>2, ReturnFacts DEF Frame
  <2>3. OwnOK(q)' /\ ~Condemns(q)'
    BY <1>0, <1>1, <2>2 DEF OwnOK, Condemns
  <2> QED BY <1>0, <2>1, <2>2, <2>3, QuietStep DEF Core, row, world
<1>3. ASSUME NEW c \in {0, invalidated}, c < invalidated \/ given[q] >= invalidated,
             Goto(q, "set"), checked' = [checked EXCEPT ![q] = c],
             UNCHANGED <<home, given, fresh, hand, result, attempt, gone>>
      PROVE  Core'
  <2>0. c \in Tokens
    BY Numbers DEF Core, TypeOK, Tokens
  <2>1. TypeOK'
    BY <1>0, <1>3, <2>0 DEF Goto, Core, TypeOK, row, world
  <2>2. Frame({q}) /\ pc'[q] = "set" /\ checked'[q] = c /\ given'[q] = given[q]
    BY <1>0, <1>3 DEF Goto, Frame, Core, TypeOK
  <2>3. OwnOK(q)' /\ ~Condemns(q)'
    BY <1>0, <1>1, <1>3, <2>2 DEF OwnOK, Condemns
  <2> QED BY <1>0, <2>1, <2>2, <2>3, QuietStep DEF Core, row, world
<1>4. ~Stale(given[q]) => given[q] >= invalidated
  BY <1>1, NotStale
<1>5. 0 < invalidated \/ given[q] >= invalidated
  BY <1>1
<1> QED BY <1>2, <1>3, <1>4, <1>5 DEF CheckTokenVersion

LEMMA SetAccessTokenStep ==
  ASSUME Core, NEW q \in Requests, SetAccessToken(q)
  PROVE  Core'
<1>0. /\ q \in Workers /\ pc[q] = "set" /\ faults' \in 0 .. MaxFaults
      /\ checked' = [checked EXCEPT ![q] = 0] /\ Return(q)
      /\ UNCHANGED <<row, world, lock, mutex, owns, invalidated, exposed, lost, misjudged>>
      /\ \/ cached' = given[q] /\ outrun' = (outrun \/ checked[q] < invalidated)
         \/ UNCHANGED <<cached, outrun>>
  BY FaultTypes DEF Core, SetAccessToken, Workers
<1>1. TypeOK'
  <2>1. checked' \in [Workers -> Tokens] /\ cached' \in Tokens /\ outrun' \in BOOLEAN
    <3>1. 0 \in Tokens /\ given[q] \in Tokens
      BY <1>0, Numbers DEF Core, TypeOK, Tokens
    <3> QED BY <1>0, <3>1 DEF Core, TypeOK
  <2> QED BY <1>0, <2>1, ReturnTypes DEF Core, TypeOK, row, world
<1>2. Frame({q}) /\ pc'[q] = "idle" /\ checked'[q] = 0
  BY <1>0, ReturnFacts DEF Frame, Core, TypeOK
<1>3. OwnOK(q)' /\ ~Condemns(q)'
  BY <1>0, <1>2, Numbers DEF OwnOK, Condemns, Core
<1>4. NoStaleTokenCached'
  <2>1. NoStaleTokenCached
    BY DEF Core, WorldOK
  <2>2. checked[q] < invalidated \/ given[q] >= invalidated
    BY <1>0 DEF Core, WorkersOK, OwnOK
  <2>3. CASE checked[q] < invalidated
    <3>1. CASE outrun' = (outrun \/ checked[q] < invalidated)
      <4>1. outrun'
        BY <2>3, <3>1, Zenon
      <4> QED BY <4>1 DEF NoStaleTokenCached
    <3>2. CASE UNCHANGED <<cached, outrun>>
      BY <1>0, <2>1, <3>2 DEF NoStaleTokenCached
    <3> QED BY <1>0, <3>1, <3>2
  <2>4. CASE given[q] >= invalidated
    BY <1>0, <2>1, <2>4 DEF NoStaleTokenCached
  <2> QED BY <2>2, <2>3, <2>4
<1>5. /\ UNCHANGED <<stored, status, snapshot, live, due>>
      /\ due <= due' /\ invalidated <= invalidated'
  BY <1>0, Numbers DEF Core, row, world
<1> QED BY <1>0, <1>1, <1>2, <1>3, <1>4, <1>5, CalmStep, Numbers DEF Core, WorldOK

-----------------------------------------------------------------------------
(* The background service.                                                 *)

LEMMA CheckStep ==
  ASSUME Core, NEW b \in Background, Check(b)
  PROVE  Core'
<1>1. 1 \in 0 .. MaxRetries
  BY RefreshAssumption
<1>2. TypeOK'
  BY <1>1 DEF Core, TypeOK, Check, Goto, row, world, marks, Workers
<1>3. /\ b \in Workers /\ Frame({b}) /\ pc[b] = "idle" /\ pc'[b] = "mutex"
      /\ given'[b] = stored /\ checked'[b] = checked[b]
  BY DEF Core, TypeOK, Check, Goto, Frame, marks, Workers
<1>4. OwnOK(b)' /\ ~Condemns(b)'
  BY <1>3 DEF Core, WorkersOK, WorldOK, OwnOK, Condemns, Check, marks
<1> QED BY <1>2, <1>3, <1>4, QuietStep DEF Core, Check, row, world, marks

LEMMA ClearStep ==
  ASSUME Core, NEW b \in Background, ClearTempUnschedulable(b)
  PROVE  Core'
<1>1. TypeOK'
  BY DEF Core, TypeOK, ClearTempUnschedulable, Goto, locals, world, marks, Workers
<1>2. /\ b \in Workers /\ Frame({b}) /\ pc[b] = "clear" /\ pc'[b] = "invalidate"
      /\ given'[b] = given[b] /\ checked'[b] = checked[b]
  BY DEF Core, TypeOK, ClearTempUnschedulable, Goto, Frame, locals, marks, Workers
<1>3. OwnOK(b)' /\ ~Condemns(b)'
  BY <1>2 DEF Core, WorkersOK, OwnOK, Condemns, ClearTempUnschedulable, marks
<1> QED BY <1>1, <1>2, <1>3, QuietStep DEF Core, ClearTempUnschedulable, world, marks

LEMMA InvalidateStep ==
  ASSUME Core, NEW b \in Background, InvalidateToken(b)
  PROVE  Core'
<1>0. /\ b \in Workers /\ pc[b] = "invalidate" /\ faults' \in 0 .. MaxFaults
      /\ pc' = [pc EXCEPT ![b] = "sync"]
      /\ \/ /\ cached' = 0
            /\ invalidated' = IF given[b] > invalidated THEN given[b] ELSE invalidated
         \/ UNCHANGED <<cached, invalidated>>
      /\ UNCHANGED <<row, world, lock, mutex, locals, gone,
                     checked, outrun, exposed, lost, misjudged>>
  BY FaultTypes DEF Core, InvalidateToken, Goto, Workers
<1>1. OwnOK(b) /\ given[b] \in Nat /\ given[b] <= stored
  BY <1>0, Numbers DEF Core, WorkersOK, OwnOK
<1>2. TypeOK'
  <2>1. cached' \in Tokens /\ invalidated' \in Tokens
    <3>1. 0 \in Tokens /\ given[b] \in Tokens
      BY <1>0, Numbers DEF Core, TypeOK, Tokens
    <3> QED BY <1>0, <3>1 DEF Core, TypeOK
  <2> QED BY <1>0, <2>1 DEF Core, TypeOK, row, world, locals
<1>3. /\ Frame({b}) /\ pc'[b] = "sync" /\ given'[b] = given[b]
      /\ checked'[b] = checked[b] /\ UNCHANGED <<stored, status, snapshot, live, due>>
  BY <1>0 DEF Core, TypeOK, Frame, locals, row, world
<1>4. invalidated' \in Nat /\ invalidated <= invalidated' /\ invalidated' <= stored
  BY <1>0, <1>1, Numbers DEF Core, WorldOK
<1>5. OwnOK(b)' /\ ~Condemns(b)'
  BY <1>0, <1>1, <1>3, <1>4, Numbers DEF OwnOK, Condemns, Core
<1>6. NoStaleTokenCached' /\ due <= due'
  BY <1>0, <1>3, Numbers DEF Core, WorldOK, NoStaleTokenCached
<1> QED BY <1>0, <1>2, <1>3, <1>4, <1>5, <1>6, CalmStep, Numbers DEF Core, WorldOK

LEMMA SyncStep ==
  ASSUME Core, NEW b \in Background, SyncScheduler(b)
  PROVE  Core'
<1>0. /\ b \in Workers /\ pc[b] = "sync" /\ faults' \in 0 .. MaxFaults
      /\ snapshot' \in {snapshot, given[b]} /\ Return(b)
      /\ UNCHANGED <<row, live, due, cached, lock, mutex, owns, marks>>
  BY FaultTypes DEF Core, SyncScheduler, Workers
<1>1. OwnOK(b) /\ given[b] \in Nat /\ given[b] \in Tokens
      /\ given[b] <= stored /\ given[b] >= 1
  BY <1>0, Numbers DEF Core, WorkersOK, OwnOK, TypeOK
<1>2. TypeOK'
  BY <1>0, <1>1, ReturnTypes DEF Core, TypeOK, row, marks
<1>3. /\ Frame({b}) /\ pc'[b] = "idle" /\ checked'[b] = checked[b]
      /\ UNCHANGED <<stored, status, invalidated, misjudged, lost>>
  BY <1>0, ReturnFacts DEF Frame, marks, row
<1>4. OwnOK(b)' /\ ~Condemns(b)'
  BY <1>1, <1>3 DEF OwnOK, Condemns
<1>5. NoStaleTokenCached' /\ due <= due' /\ invalidated <= invalidated'
  BY <1>0, <1>3, Numbers DEF Core, WorldOK, NoStaleTokenCached, marks
<1>6. 1 <= snapshot' /\ snapshot' <= stored
  BY <1>0, <1>1 DEF Core, WorldOK
<1> QED BY <1>0, <1>2, <1>3, <1>4, <1>5, <1>6, CalmStep, Numbers DEF Core, WorldOK

LEMMA MarkStep ==
  ASSUME Core, NEW b \in Background, Mark(b)
  PROVE  Core'
<1>0. /\ b \in Workers /\ pc[b] \in {"disable", "pause"} /\ faults' \in 0 .. MaxFaults
      /\ status' = status \/ (status' = "error" /\ pc[b] = "disable")
      /\ paused' \in {paused, TRUE} /\ Return(b)
      /\ UNCHANGED <<stored, world, cached, lock, mutex, owns, marks>>
  BY FaultTypes DEF Core, Mark, Workers
<1>1. OwnOK(b) /\ (pc[b] = "disable" => Doomed)
  BY <1>0 DEF Core, WorkersOK, Condemns
<1>2. TypeOK'
  <2>1. status' \in {"active", "error"} /\ paused' \in BOOLEAN
    BY <1>0 DEF Core, TypeOK
  <2> QED BY <1>0, <2>1, ReturnTypes DEF Core, TypeOK, world, marks
<1>3. /\ Frame({b}) /\ pc'[b] = "idle" /\ checked'[b] = checked[b]
      /\ UNCHANGED <<snapshot, live, due, invalidated, outrun, misjudged, lost>>
  BY <1>0, ReturnFacts DEF Frame, marks, world
<1>4. OwnOK(b)' /\ ~Condemns(b)'
  BY <1>1, <1>3 DEF OwnOK, Condemns
<1>5. NoStaleTokenCached' /\ due <= due' /\ invalidated <= invalidated'
  BY <1>0, <1>3, Numbers DEF Core, WorldOK, NoStaleTokenCached
<1>6. status' = "error" => Doomed
  BY <1>0, <1>1 DEF Core, WorldOK
<1> QED BY <1>0, <1>2, <1>3, <1>4, <1>5, <1>6, CalmStep, Numbers DEF Core, WorldOK

-----------------------------------------------------------------------------
(* The world around.                                                       *)

\* Steps that no worker takes and that touch neither database nor provider.
LEMMA WorldStep ==
  ASSUME Core, \/ Age \/ Snapshot \/ CacheLapses \/ PauseEnds \/ LockLapses
               \/ \E q \in Requests : Disconnect(q)
  PROVE  Core'
<1>1. /\ UNCHANGED <<stored, status, live, pc, given, fresh, hand, result, checked,
                     invalidated, outrun, lost, misjudged>>
      /\ due' = due \/ (due' = stored /\ stored < MaxToken)
      /\ snapshot' \in {snapshot, stored} /\ cached' \in {cached, 0}
  BY DEF Age, Snapshot, CacheLapses, PauseEnds, LockLapses, Disconnect,
         row, world, locals, marks
<1>2. TypeOK'
  <2>1. due' \in Tokens /\ snapshot' \in Tokens /\ cached' \in Tokens
    BY <1>1, Numbers DEF Core, TypeOK, Tokens
  <2>2. faults' \in 0 .. MaxFaults
    BY FaultTypes DEF Core, Age, Snapshot, CacheLapses, PauseEnds, LockLapses, Disconnect
  <2>3. exposed' \in Nat
    <3>1. exposed' \in {exposed, exposed + 1}
      BY DEF Age, Snapshot, CacheLapses, PauseEnds, LockLapses, Disconnect, marks
    <3> QED BY <3>1, Numbers DEF Core
  <2>4. lock' \in {lock, NoWorker} /\ paused' \in {paused, FALSE}
    BY DEF Age, Snapshot, CacheLapses, PauseEnds, LockLapses, Disconnect, row
  <2>5. gone' \subseteq Requests
    BY DEF Core, TypeOK, Age, Snapshot, CacheLapses, PauseEnds, LockLapses, Disconnect
  <2>6. UNCHANGED <<mutex, home, owns, attempt>>
    BY DEF Age, Snapshot, CacheLapses, PauseEnds, LockLapses, Disconnect, locals
  <2> QED BY <1>1, <2>1, <2>2, <2>3, <2>4, <2>5, <2>6 DEF Core, TypeOK
<1>3. Frame({})
  BY <1>1 DEF Frame
<1>4. NoStaleTokenCached'
  BY <1>1 DEF Core, WorldOK, NoStaleTokenCached
<1>5. /\ due' \in Nat /\ due <= due' /\ due' <= stored /\ due' < MaxToken
      /\ 1 <= snapshot' /\ snapshot' <= stored
      /\ invalidated <= invalidated' /\ invalidated' \in Nat
  BY <1>1, Numbers DEF Core, WorldOK
<1> QED BY <1>1, <1>2, <1>3, <1>4, <1>5, CalmStep DEF Core, WorldOK

LEMMA RevokeStep ==
  ASSUME Core, Revoke
  PROVE  Core'
<1>1. /\ live' = 0 /\ faults' \in 0 .. MaxFaults
      /\ UNCHANGED <<row, snapshot, due, cached, lock, mutex, pc, locals, gone, marks>>
  BY FaultTypes DEF Core, Revoke
<1>2. TypeOK'
  <2>1. live' \in Tokens
    BY <1>1, Numbers DEF Core, Tokens
  <2> QED BY <1>1, <2>1 DEF Core, TypeOK, row, locals, marks
<1>3. stored >= 1 /\ stored # 0
  BY Numbers DEF Core, WorldOK
<1>4. Doomed'
  <2>1. ~InHand(0)
    BY <1>3, Numbers DEF Core, WorkersOK, Persisting, InHand
  <2>2. ~InHand(live)'
    BY <1>1, <2>1 DEF InHand, locals
  <2> QED BY <1>1, <1>3, <2>2 DEF Doomed, row
<1>5. WorldOK'
  BY <1>1, <1>4 DEF Core, WorldOK, NoStaleTokenCached, LiveTokenIsKept, row, marks
<1>6. ASSUME NEW v \in Workers PROVE OwnOK(v)' /\ Persisting(v)'
  <2>1. OwnOK(v) /\ Persisting(v) /\ Fresh(v)' = Fresh(v)
    BY <1>1 DEF Core, WorkersOK, Fresh, Credentials, locals
  <2>2. pc[v] # "idle" => Fresh(v) # 0
    BY <2>1, Numbers DEF Core, OwnOK, Fresh, Credentials
  <2> QED BY <1>1, <2>1, <2>2 DEF OwnOK, Persisting, row, locals, marks
<1> QED BY <1>2, <1>4, <1>5, <1>6 DEF Core, WorkersOK

\* At most one new token is lost with a process.
LEMMA DyingHands ==
  ASSUME Core, NEW dead \in SUBSET Workers
  PROVE  LET P == {w \in dead : pc[w] = "persist"}
         IN  IsFiniteSet(P) /\ Cardinality(P) \in Nat /\ (P # {} => Cardinality(P) > 0)
<1> DEFINE P == {w \in dead : pc[w] = "persist"}
<1>1. CASE P = {}
  BY <1>1, FS_EmptySet
<1>2. CASE P # {}
  <2>1. PICK v \in P : TRUE
    BY <1>2
  <2>2. P = {v}
    BY <2>1 DEF Core, WorkersOK, Persisting
  <2>3. IsFiniteSet({v}) /\ Cardinality({v}) = 1
    BY FS_Singleton
  <2>4. IsFiniteSet(P) /\ Cardinality(P) = 1
    BY <2>2, <2>3, Zenon
  <2> QED BY <2>4
<1> QED BY <1>1, <1>2

LEMMA CrashStep ==
  ASSUME Core, NEW p \in Processes, Crash(p)
  PROVE  Core'
<1> DEFINE dead == {w \in Workers : ProcessOf(w) = p}
           P == {w \in dead : pc[w] = "persist"}
<1>1. /\ faults' \in 0 .. MaxFaults
      /\ mutex'   = [mutex EXCEPT ![p] = NoWorker]
      /\ home'    = [q \in Requests |-> IF q \in dead THEN Nowhere ELSE home[q]]
      /\ pc'      = [w \in Workers |-> IF w \in dead THEN "idle" ELSE pc[w]]
      /\ given'   = [w \in Workers |-> IF w \in dead THEN 0 ELSE given[w]]
      /\ fresh'   = [w \in Workers |-> IF w \in dead THEN 0 ELSE fresh[w]]
      /\ hand'    = [w \in Workers |-> IF w \in dead THEN 0 ELSE hand[w]]
      /\ owns'    = [w \in Workers |-> IF w \in dead THEN FALSE ELSE owns[w]]
      /\ result'  = [w \in Workers |-> IF w \in dead THEN "none" ELSE result[w]]
      /\ attempt' = [w \in Workers |-> IF w \in dead THEN 0 ELSE attempt[w]]
      /\ checked' = [w \in Workers |-> IF w \in dead THEN 0 ELSE checked[w]]
      /\ gone'    = gone \ dead
      /\ lost'    = lost + Cardinality(P)
      /\ UNCHANGED <<row, world, cached, lock, invalidated, outrun, exposed, misjudged>>
  BY FaultTypes DEF Core, Crash
<1>2. Cardinality(P) \in Nat /\ (P # {} => Cardinality(P) > 0) /\ lost \in Nat
  BY DyingHands, Numbers DEF Core
<1> HIDE DEF dead, P
<1>3. TypeOK'
  <2>1. 0 \in Tokens /\ 0 \in 0 .. MaxRetries /\ lost' \in Nat
    BY <1>1, <1>2, Numbers DEF Core, Tokens
  <2> QED BY <1>1, <2>1 DEF Core, TypeOK, row, world
<1>4. \A v \in Workers : v \notin dead =>
          /\ pc'[v] = pc[v] /\ given'[v] = given[v] /\ hand'[v] = hand[v]
          /\ result'[v] = result[v] /\ checked'[v] = checked[v] /\ Fresh(v)' = Fresh(v)
  BY <1>1 DEF Fresh, Credentials
<1>5. \A v \in Workers : v \in dead => pc'[v] = "idle" /\ checked'[v] = 0
  BY <1>1
<1>6. /\ UNCHANGED <<stored, status, live, due, snapshot, cached, invalidated, outrun, misjudged>>
      /\ InHand(live)' => InHand(live)
  BY <1>1, <1>4, <1>5 DEF InHand, row, world
<1>7. Doomed => Doomed'
  BY <1>6 DEF Doomed
<1>8. LiveTokenIsKept'
  <2>1. CASE live \in {0, stored}
    BY <1>6, <2>1 DEF LiveTokenIsKept
  <2>2. CASE lost > 0
    BY <1>1, <1>2, <2>2 DEF LiveTokenIsKept
  <2>3. CASE InHand(live)
    <3>1. PICK v \in Workers : pc[v] = "persist" /\ hand[v] = live
      BY <2>3 DEF InHand
    <3>2. CASE v \in dead
      <4>1. P # {}
        BY <3>1, <3>2 DEF P
      <4> QED BY <1>1, <1>2, <4>1 DEF LiveTokenIsKept
    <3>3. CASE v \notin dead
      <4>1. InHand(live)'
        BY <1>4, <1>6, <3>1, <3>3 DEF InHand
      <4> QED BY <4>1 DEF LiveTokenIsKept
    <3> QED BY <3>2, <3>3
  <2> QED BY <2>1, <2>2, <2>3 DEF Core, WorldOK, LiveTokenIsKept
<1>9. WorldOK'
  BY <1>6, <1>7, <1>8 DEF Core, WorldOK, NoStaleTokenCached
<1>10. ASSUME NEW v \in Workers
       PROVE  OwnOK(v)' /\ Persisting(v)' /\ (Condemns(v)' => Doomed')
  <2>1. CASE v \in dead
    <3>1. 0 <= invalidated
      BY Numbers DEF Core
    <3> QED BY <1>5, <1>6, <2>1, <3>1 DEF OwnOK, Persisting, Condemns
  <2>2. CASE v \notin dead
    <3>1. OwnOK(v) /\ Persisting(v) /\ (Condemns(v) => Doomed)
      BY DEF Core, WorkersOK
    <3>2. OwnOK(v)'
      BY <1>4, <1>6, <2>2, <3>1 DEF OwnOK
    <3>3. Condemns(v)' => Doomed'
      BY <1>4, <1>7, <2>2, <3>1 DEF Condemns
    <3>4. Persisting(v)'
      BY <1>4, <1>5, <1>6, <2>2, <3>1 DEF Persisting
    <3> QED BY <3>2, <3>3, <3>4
  <2> QED BY <2>1, <2>2
<1> QED BY <1>3, <1>9, <1>10 DEF Core, WorkersOK

-----------------------------------------------------------------------------
LEMMA CoreInit == Init => Core
<1> SUFFICES ASSUME Init PROVE Core
  OBVIOUS
<1>1. 0 \in Tokens /\ 1 \in Tokens /\ MaxToken \in Nat \ {0} /\ 0 \in 0 .. MaxRetries
      /\ 0 \in 0 .. MaxFaults
  BY RefreshAssumption DEF Tokens
<1>2. TypeOK
  BY <1>1 DEF Init, TypeOK
<1>3. WorldOK
  BY <1>1 DEF Init, WorldOK, NoStaleTokenCached, LiveTokenIsKept, Doomed
<1>4. WorkersOK
  BY DEF Init, WorkersOK, OwnOK, Persisting, Condemns
<1> QED BY <1>2, <1>3, <1>4 DEF Core

LEMMA RefreshIfNeededStep ==
  ASSUME Core, NEW w \in Workers, RefreshIfNeeded(w)
  PROVE  Core'
  BY LockLocalStep, AcquireStep, RereadStep, RefreshStep, RecoverStep, PersistStep,
     UnlockStep DEF RefreshIfNeeded

LEMMA CoreStep == Core /\ [Next]_vars => Core'
<1> SUFFICES ASSUME Core, [Next]_vars PROVE Core'
  OBVIOUS
<1>1. ASSUME NEW b \in Background, Service(b) PROVE Core'
  <2>1. b \in Workers
    BY DEF Workers
  <2> QED BY <1>1, <2>1, CheckStep, RefreshIfNeededStep, ClearStep, InvalidateStep,
       SyncStep, MarkStep DEF Service
<1>2. ASSUME NEW q \in Requests, GetAccessToken(q) PROVE Core'
  <2>1. q \in Workers
    BY DEF Workers
  <2> QED BY <1>2, <2>1, GetCachedStep, RefreshIfNeededStep, CheckTokenVersionStep,
       SetAccessTokenStep DEF GetAccessToken
<1>3. CASE UNCHANGED vars
  BY <1>3 DEF vars, Core, TypeOK, WorkersOK, OwnOK, Persisting, Condemns, Doomed, InHand,
     Fresh, Credentials, WorldOK, NoStaleTokenCached, LiveTokenIsKept,
     row, world, locals, marks
<1> QED BY <1>1, <1>2, <1>3, NewRequestStep, CrashStep, RevokeStep, WorldStep DEF Next

LEMMA CoreAlways == Spec => []Core
  BY CoreInit, CoreStep, PTL DEF Spec

\* Every variable keeps its type: in particular the number of refreshed tokens stays
\* within its bound, because only a token that is due is refreshed.
THEOREM RefreshTypes == Spec => []TypeOK
<1>1. Core => TypeOK
  BY DEF Core
<1> QED BY <1>1, CoreAlways, PTL

\* The token the provider accepts is stored or on its way to the database, unless
\* an answer of the provider or a write of it has failed: with any number of
\* services, requests, processes, crashes and lapsed locks.
THEOREM LiveTokenKept == Spec => []LiveTokenIsKept
<1>1. Core => LiveTokenIsKept
  BY DEF Core, WorldOK
<1> QED BY <1>1, CoreAlways, PTL

\* No account is disabled whose refresh token still works, unless the worker who
\* judged it could not see that the database was behind.
THEOREM NeverDisabledAlive == Spec => []DisabledOnlyWhenDead
<1>1. Core => DisabledOnlyWhenDead
  BY DEF Core, WorldOK, Doomed, DisabledOnlyWhenDead
<1> QED BY <1>1, CoreAlways, PTL

\* No access token older than the last clearing of the cache is in the cache, unless
\* a request wrote it there after a check that came before the clearing.
THEOREM CacheNotStale == Spec => []NoStaleTokenCached
<1>1. Core => NoStaleTokenCached
  BY DEF Core, WorldOK
<1> QED BY <1>1, CoreAlways, PTL

\* No step replaces the stored credentials by older ones, whoever refreshes at the
\* same time and whichever locks have lapsed.
THEOREM StoredForward == Spec => StoredMovesForward
<1>1. Core /\ [Next]_vars => [stored' >= stored]_vars
  <2> SUFFICES ASSUME Core, [Next]_vars, ~UNCHANGED vars PROVE stored' >= stored
    OBVIOUS
  <2>1. stored \in Nat
    BY Numbers DEF Core
  <2>2. ASSUME NEW w \in Workers, RefreshIfNeeded(w) PROVE stored' >= stored
    <3>1. CASE Persist(w)
      <4>1. hand[w] > stored /\ hand[w] \in Nat /\ stored' \in {stored, hand[w]}
        BY <3>1, PersistFacts, Numbers DEF Core, WorkersOK, Persisting
      <4> QED BY <2>1, <4>1
    <3>2. CASE UNCHANGED stored
      BY <2>1, <3>2
    <3> QED BY <2>2, <3>1, <3>2 DEF RefreshIfNeeded, LockLocal, AcquireRefreshLock, Reread,
         Refresh, Recover, Unlock, row
  <2>3. ASSUME UNCHANGED stored PROVE stored' >= stored
    BY <2>1, <2>3
  <2>4. UNCHANGED stored \/ \E w \in Workers : RefreshIfNeeded(w)
    BY DEF Next, Service, GetAccessToken, Workers, Check, ClearTempUnschedulable,
       InvalidateToken, SyncScheduler, Mark, GetCached, CheckTokenVersion, SetAccessToken,
       Disconnect, NewRequest, Crash, Age, Revoke, Snapshot, CacheLapses, PauseEnds,
       LockLapses, row
  <2> QED BY <2>2, <2>3, <2>4
<1> QED BY <1>1, CoreAlways, PTL DEF Spec, StoredMovesForward

-----------------------------------------------------------------------------
(* Exclusion.  A worker between the lock and the unlocking is covered if it *)
(* owns the lock and the key in Redis is its own.  One that is not covered  *)
(* has lost the key to its TTL or to somebody's deletion, or never had it.  *)
(* A deletion takes the key of another only if the one who deletes had lost *)
(* its own, and that one is done: so uncovered workers are never more than  *)
(* the losses.                                                              *)

Busy == {"reread", "refresh", "recover", "persist"}

Loose(w) == (pc[w] \in Busy \/ owns[w]) /\ ~(owns[w] /\ lock = w)

Uncovered == {w \in Workers : Loose(w)}

Exposure == IsFiniteSet(Uncovered) /\ Cardinality(Uncovered) <= exposed

LEMMA ExposureKept ==
  ASSUME Exposure, exposed \in Nat, exposed' \in Nat, exposed <= exposed',
         \A v \in Workers : Loose(v)' => Loose(v)
  PROVE  Exposure'
<1>1. Uncovered' \in SUBSET Uncovered
  BY DEF Uncovered
<1>2. /\ IsFiniteSet(Uncovered') /\ Cardinality(Uncovered') <= Cardinality(Uncovered)
      /\ Cardinality(Uncovered') \in Nat /\ Cardinality(Uncovered) \in Nat
  BY <1>1, FS_Subset, FS_CardinalityType DEF Exposure
<1> QED BY <1>2 DEF Exposure

\* One more worker is uncovered, and one more loss counted.
LEMMA ExposureGrows ==
  ASSUME Exposure, exposed \in Nat, exposed' = exposed + 1, NEW x,
         \A v \in Workers : Loose(v)' => Loose(v) \/ v = x
  PROVE  Exposure'
<1> DEFINE T == Uncovered \cup {x}
<1>1. Uncovered' \in SUBSET T
  BY DEF Uncovered
<1>2. IsFiniteSet(T) /\ Cardinality(T) <= Cardinality(Uncovered) + 1
      /\ Cardinality(Uncovered) \in Nat /\ Cardinality(T) \in Nat
  BY FS_AddElement, FS_CardinalityType DEF Exposure
<1> HIDE DEF T
<1>3. /\ IsFiniteSet(Uncovered') /\ Cardinality(Uncovered') <= Cardinality(T)
      /\ Cardinality(Uncovered') \in Nat
  BY <1>1, <1>2, FS_Subset, FS_CardinalityType
<1> QED BY <1>2, <1>3 DEF Exposure

\* An uncovered worker leaves and deletes the key of another one.
LEMMA ExposureMoves ==
  ASSUME Exposure, exposed \in Nat, exposed' = exposed,
         NEW w \in Workers, Loose(w), ~Loose(w)', NEW x,
         \A v \in Workers : Loose(v)' => Loose(v) \/ v = x
  PROVE  Exposure'
<1> DEFINE R == Uncovered \ {w}
           T == R \cup {x}
<1>0. w \in Uncovered
  BY DEF Uncovered
<1>1. Uncovered' \in SUBSET T
  BY DEF Uncovered
<1>2. /\ IsFiniteSet(R) /\ Cardinality(R) = Cardinality(Uncovered) - 1
      /\ Cardinality(Uncovered) \in Nat /\ Cardinality(R) \in Nat
  BY <1>0, FS_RemoveElement, FS_CardinalityType DEF Exposure
<1> HIDE DEF R
<1>3. IsFiniteSet(T) /\ Cardinality(T) <= Cardinality(R) + 1 /\ Cardinality(T) \in Nat
  <2>1. /\ IsFiniteSet(T)
        /\ Cardinality(T) = IF x \in R THEN Cardinality(R) ELSE Cardinality(R) + 1
    BY <1>2, FS_AddElement
  <2> QED BY <1>2, <2>1
<1> HIDE DEF T
<1>4. /\ IsFiniteSet(Uncovered') /\ Cardinality(Uncovered') <= Cardinality(T)
      /\ Cardinality(Uncovered') \in Nat
  BY <1>1, <1>3, FS_Subset, FS_CardinalityType
<1> QED BY <1>2, <1>3, <1>4 DEF Exposure

\* Most steps leave the lock alone and let nobody in.
Steady == /\ UNCHANGED <<lock, owns, exposed>>
          /\ \A v \in Workers : pc'[v] \in Busy => pc[v] \in Busy

LEMMA SteadyExposure ==
  ASSUME Core, Exposure, Steady
  PROVE  Exposure'
<1>1. \A v \in Workers : Loose(v)' => Loose(v)
  BY DEF Steady, Loose
<1> QED BY <1>1, ExposureKept, Numbers DEF Core, Steady

LEMMA GotoSteady ==
  ASSUME Core, NEW w \in Workers, NEW step, Goto(w, step),
         step \in Busy => pc[w] \in Busy
  PROVE  \A v \in Workers : pc'[v] \in Busy => pc[v] \in Busy
<1>1. pc'[w] = step /\ \A v \in Workers : v # w => pc'[v] = pc[v]
  BY DEF Core, TypeOK, Goto
<1> QED BY <1>1

LEMMA WorkerSteady ==
  ASSUME Core, NEW w \in Workers,
         \/ LockLocal(w) \/ Reread(w) \/ Refresh(w) \/ Recover(w) \/ Persist(w)
         \/ GetCached(w) \/ CheckTokenVersion(w) \/ SetAccessToken(w)
         \/ Check(w) \/ ClearTempUnschedulable(w) \/ InvalidateToken(w)
         \/ SyncScheduler(w) \/ Mark(w) \/ \E p \in Processes : NewRequest(w, p)
  PROVE  Steady
<1>1. UNCHANGED <<lock, owns, exposed>>
  BY DEF LockLocal, Reread, Refresh, Recover, Persist, GetCached, CheckTokenVersion,
     SetAccessToken, Check, ClearTempUnschedulable, InvalidateToken, SyncScheduler, Mark,
     NewRequest, locals, marks
<1>2. \E step : Goto(w, step) /\ (step \in Busy => pc[w] \in Busy)
  <2>1. CASE Reread(w)
    BY <2>1 DEF Reread, Busy
  <2>2. CASE Refresh(w) \/ Recover(w) \/ Persist(w)
    BY <2>2 DEF Refresh, Recover, Persist, Finish, Busy
  <2>3. CASE LockLocal(w) \/ Check(w) \/ \E p \in Processes : NewRequest(w, p)
    BY <2>3 DEF LockLocal, Check, NewRequest, Busy
  <2>4. CASE GetCached(w)
    BY <2>4 DEF GetCached, Return, Busy
  <2>5. CASE CheckTokenVersion(w) \/ SetAccessToken(w)
    BY <2>5 DEF CheckTokenVersion, SetAccessToken, Return, Busy
  <2>6. CASE ClearTempUnschedulable(w) \/ InvalidateToken(w)
    <3>1. Goto(w, "invalidate") \/ Goto(w, "sync")
      BY <2>6, Zenon DEF ClearTempUnschedulable, InvalidateToken
    <3> QED BY <3>1 DEF Busy
  <2>7. CASE SyncScheduler(w) \/ Mark(w)
    <3>1. Goto(w, "idle")
      BY <2>7, Zenon DEF SyncScheduler, Mark, Return
    <3> QED BY <3>1 DEF Busy
  <2> QED BY <2>1, <2>2, <2>3, <2>4, <2>5, <2>6, <2>7
<1> QED BY <1>1, <1>2, GotoSteady DEF Steady

LEMMA AcquireExposure ==
  ASSUME Core, Exposure, NEW w \in Workers, AcquireRefreshLock(w)
  PROVE  Exposure'
<1>1. \A v \in Workers : v # w => (pc'[v] = pc[v] /\ owns'[v] = owns[v])
  BY DEF AcquireRefreshLock, Goto, Core, TypeOK
<1>2. exposed \in Nat /\ lock \in Workers \cup {NoWorker} /\ NoWorker \notin Workers
      /\ pc[w] = "lock"
  BY RefreshAssumption, Numbers DEF Core, TypeOK, AcquireRefreshLock
<1>3. CASE lock = NoWorker /\ lock' = w /\ owns'[w] /\ UNCHANGED exposed
  <2>1. \A v \in Workers : Loose(v)' => Loose(v)
    BY <1>1, <1>2, <1>3 DEF Loose
  <2> QED BY <1>2, <1>3, <2>1, ExposureKept
<1>4. CASE pc'[w] = "unlock" /\ UNCHANGED <<lock, owns, exposed>>
  <2>1. \A v \in Workers : Loose(v)' => Loose(v)
    BY <1>1, <1>4 DEF Loose, Busy
  <2> QED BY <1>2, <1>4, <2>1, ExposureKept
<1>5. CASE /\ exposed' = exposed + 1 /\ UNCHANGED owns
           /\ lock' = lock \/ (lock = NoWorker /\ lock' = w)
  <2>1. \A v \in Workers : Loose(v)' => Loose(v) \/ v = w
    BY <1>1, <1>2, <1>5 DEF Loose
  <2> QED BY <1>2, <1>5, <2>1, ExposureGrows
<1> QED BY <1>3, <1>4, <1>5 DEF AcquireRefreshLock, Goto, Core, TypeOK

LEMMA UnlockExposure ==
  ASSUME Core, Exposure, NEW w \in Workers, Unlock(w)
  PROVE  Exposure'
<1>1. /\ \A v \in Workers : v # w => (pc'[v] = pc[v] /\ owns'[v] = owns[v])
      /\ ~owns'[w] /\ exposed' = exposed /\ exposed \in Nat
      /\ lock' \in {lock, NoWorker} /\ (~owns[w] => lock' = lock)
      /\ lock \in Workers \cup {NoWorker} /\ NoWorker \notin Workers
  BY UnlockFacts, RefreshAssumption, Numbers DEF Frame, Core, TypeOK
<1>2. pc'[w] \notin Busy
  BY UnlockFacts, AfterSteps DEF Busy
<1>3. ~Loose(w)'
  BY <1>1, <1>2 DEF Loose
<1>4. CASE owns[w] /\ lock # w
  <2>1. Loose(w)
    BY <1>4 DEF Loose
  <2>2. \A v \in Workers : Loose(v)' => Loose(v) \/ v = lock
    BY <1>1, <1>3 DEF Loose
  <2>3. PICK x : x = lock
    OBVIOUS
  <2> QED BY <1>1, <1>3, <2>1, <2>2, <2>3, ExposureMoves
<1>5. CASE ~(owns[w] /\ lock # w)
  <2>1. \A v \in Workers : Loose(v)' => Loose(v)
    BY <1>1, <1>3, <1>5 DEF Loose
  <2> QED BY <1>1, <2>1, ExposureKept
<1> QED BY <1>4, <1>5

LEMMA LapseExposure ==
  ASSUME Core, Exposure, LockLapses
  PROVE  Exposure'
<1>1. UNCHANGED <<pc, owns>> /\ exposed \in Nat /\ lock # NoWorker /\ lock' = NoWorker
      /\ lock \in Workers /\ NoWorker \notin Workers
  BY RefreshAssumption, Numbers DEF LockLapses, locals, Core, TypeOK
<1>2. CASE owns[lock] /\ exposed' = exposed + 1
  <2>1. PICK x : x = lock
    OBVIOUS
  <2>2. \A v \in Workers : Loose(v)' => Loose(v) \/ v = x
    BY <1>1, <2>1 DEF Loose
  <2> QED BY <1>1, <1>2, <2>2, ExposureGrows
<1>3. CASE ~owns[lock] /\ UNCHANGED exposed
  <2>1. \A v \in Workers : Loose(v)' => Loose(v)
    BY <1>1, <1>3 DEF Loose
  <2> QED BY <1>1, <1>3, <2>1, ExposureKept
<1> QED BY <1>2, <1>3 DEF LockLapses

LEMMA CrashExposure ==
  ASSUME Core, Exposure, NEW p \in Processes, Crash(p)
  PROVE  Exposure'
<1>1. /\ \A v \in Workers : \/ pc'[v] = "idle" /\ ~owns'[v]
                            \/ pc'[v] = pc[v] /\ owns'[v] = owns[v]
      /\ UNCHANGED <<lock, exposed>> /\ exposed \in Nat
  BY Numbers DEF Crash, Core
<1>2. \A v \in Workers : Loose(v)' => Loose(v)
  BY <1>1 DEF Loose, Busy
<1> QED BY <1>1, <1>2, ExposureKept

LEMMA ExposureStep == Core /\ Exposure /\ [Next]_vars => Exposure'
<1> SUFFICES ASSUME Core, Exposure, [Next]_vars PROVE Exposure'
  OBVIOUS
<1>1. ASSUME NEW w \in Workers, RefreshIfNeeded(w) PROVE Exposure'
  BY <1>1, WorkerSteady, SteadyExposure, AcquireExposure, UnlockExposure
     DEF RefreshIfNeeded
<1>2. ASSUME NEW b \in Background, Service(b) PROVE Exposure'
  <2>1. b \in Workers
    BY DEF Workers
  <2> QED BY <1>1, <1>2, <2>1, WorkerSteady, SteadyExposure DEF Service
<1>3. ASSUME NEW q \in Requests,
             GetAccessToken(q) \/ \E p \in Processes : NewRequest(q, p)
      PROVE  Exposure'
  <2>1. q \in Workers
    BY DEF Workers
  <2> QED BY <1>1, <1>3, <2>1, WorkerSteady, SteadyExposure DEF GetAccessToken
<1>4. CASE \/ Age \/ Revoke \/ Snapshot \/ CacheLapses \/ PauseEnds \/ UNCHANGED vars
           \/ \E q \in Requests : Disconnect(q)
  <2>1. Steady
    BY <1>4 DEF Age, Revoke, Snapshot, CacheLapses, PauseEnds, Disconnect, vars,
                Steady, locals, marks
  <2> QED BY <2>1, SteadyExposure
<1> QED BY <1>2, <1>3, <1>4, LapseExposure, CrashExposure DEF Next

\* Workers refresh an account at the same time only as far as the lock was lost: as
\* many more than one as there were losses of the lock, whatever the deletions do.
THEOREM RefreshedByOne == Spec => []OneRefresher
<1> DEFINE B == {w \in Workers : pc[w] \in {"reread", "refresh", "recover", "persist"}}
           T == Uncovered \cup {lock}
<1>1. Init => Exposure
  <2> SUFFICES ASSUME Init PROVE Exposure
    OBVIOUS
  <2>1. Uncovered = {} /\ exposed = 0
    BY DEF Init, Uncovered, Loose, Busy
  <2> QED BY <2>1, FS_EmptySet DEF Exposure
<1>2. Core /\ Exposure => OneRefresher
  <2> SUFFICES ASSUME Core, Exposure PROVE Cardinality(B) <= 1 + exposed
    BY DEF OneRefresher
  <2>1. B \in SUBSET T
    BY DEF Uncovered, Loose, Busy
  <2>2. /\ IsFiniteSet(T)
        /\ Cardinality(T) = IF lock \in Uncovered THEN Cardinality(Uncovered)
                            ELSE Cardinality(Uncovered) + 1
    BY FS_AddElement DEF Exposure
  <2>3. Cardinality(Uncovered) \in Nat /\ exposed \in Nat
    BY FS_CardinalityType, Numbers DEF Exposure, Core
  <2> HIDE DEF B, T
  <2>4. Cardinality(B) <= Cardinality(T) /\ Cardinality(B) \in Nat
    BY <2>1, <2>2, FS_Subset, FS_CardinalityType
  <2> QED BY <2>2, <2>3, <2>4 DEF Exposure
<1> QED BY <1>1, <1>2, CoreAlways, ExposureStep, PTL DEF Spec
===============================================================================
