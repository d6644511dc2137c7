---------------------------- MODULE GatewayProofs ----------------------------
(***************************************************************************)
(* Proofs about Gateway: the concurrency limits are kept, the wait         *)
(* counters count the waiting requests, no slot is forgotten, a request    *)
(* fails over only so often, and every id it takes is a new one.           *)
(***************************************************************************)
EXTENDS Gateway, FiniteSetTheorems, TLAPS

\* Where a request has an account.
OnAccount == {"picked", "refused", "queue", "await", "granted", "quit", "call", "answered"}

HandlersTyped ==
    /\ pc \in [Requests -> Steps]
    /\ account \in [Requests -> Accounts \cup {NoAccount}]
    /\ \A r \in Requests : pc[r] \in OnAccount => account[r] \in Accounts
    /\ DOMAIN userSlot = Requests /\ DOMAIN slot = Requests

\* A step of r leaves the handlers of the others alone.
Moves(r) ==
    \A q \in Requests \ {r} :
        /\ pc'[q] = pc[q] /\ account'[q] = account[q]
        /\ userSlot'[q] = userSlot[q] /\ slot'[q] = slot[q]

LEMMA GotoStep ==
  ASSUME HandlersTyped, NEW r \in Requests, NEW step \in Steps, Goto(r, step)
  PROVE  /\ pc' \in [Requests -> Steps] /\ pc'[r] = step
         /\ \A q \in Requests \ {r} : pc'[q] = pc[q]
  BY DEF HandlersTyped, Goto

\* The request goes on and keeps its account and its slots.
LEMMA GoOn ==
  ASSUME HandlersTyped, NEW r \in Requests, NEW step \in Steps, Goto(r, step),
         UNCHANGED leases, step \in OnAccount => account[r] \in Accounts
  PROVE  HandlersTyped' /\ Moves(r)
  BY GotoStep DEF HandlersTyped, Moves, leases

LEMMA GoOnWith ==
  ASSUME HandlersTyped, NEW r \in Requests, NEW step \in Steps, Goto(r, step),
         NEW a \in Accounts \cup {NoAccount}, step \in OnAccount => a \in Accounts,
         account' = [account EXCEPT ![r] = a],
         userSlot' = userSlot \/ \E n : userSlot' = [userSlot EXCEPT ![r] = n],
         slot' = slot \/ \E n : slot' = [slot EXCEPT ![r] = n]
  PROVE  HandlersTyped' /\ Moves(r) /\ account'[r] = a
<1>1. /\ account' \in [Requests -> Accounts \cup {NoAccount}] /\ account'[r] = a
      /\ \A q \in Requests \ {r} : account'[q] = account[q]
  BY DEF HandlersTyped
<1>2. DOMAIN userSlot' = Requests /\ \A q \in Requests \ {r} : userSlot'[q] = userSlot[q]
  BY DEF HandlersTyped
<1>3. DOMAIN slot' = Requests /\ \A q \in Requests \ {r} : slot'[q] = slot[q]
  BY DEF HandlersTyped
<1>. QED
  BY GotoStep, <1>1, <1>2, <1>3 DEF HandlersTyped, Moves

LEMMA GoOnHolding ==
  ASSUME HandlersTyped, NEW r \in Requests, NEW step \in Steps, Goto(r, step),
         UNCHANGED account, step \in OnAccount => account[r] \in Accounts,
         userSlot' = userSlot \/ \E n : userSlot' = [userSlot EXCEPT ![r] = n],
         slot' = slot \/ \E n : slot' = [slot EXCEPT ![r] = n]
  PROVE  HandlersTyped' /\ Moves(r)
<1>1. DOMAIN userSlot' = Requests /\ \A q \in Requests \ {r} : userSlot'[q] = userSlot[q]
  BY DEF HandlersTyped
<1>2. DOMAIN slot' = Requests /\ \A q \in Requests \ {r} : slot'[q] = slot[q]
  BY DEF HandlersTyped
<1>. QED
  BY GotoStep, <1>1, <1>2 DEF HandlersTyped, Moves

-----------------------------------------------------------------------------
LEMMA HandlerMoves ==
  ASSUME HandlersTyped, NEW r \in Requests,
         (\E p \in Processes : Arrive(r, p)) \/ Handler(r)
  PROVE  HandlersTyped' /\ Moves(r)
<1>. USE DEF Steps, OnAccount
<1>1. ASSUME NEW p \in Processes, Arrive(r, p) PROVE HandlersTyped' /\ Moves(r)
  BY <1>1, GoOn DEF Arrive
<1>2. CASE AcquireUserSlot(r)
  BY <1>2, GoOnHolding DEF AcquireUserSlot
<1>3. CASE UserWaitEnds(r) \/ LeaveUserQueue(r) \/ NotEligible(r) \/ NotUsed(r)
           \/ AccountWaitEnds(r) \/ UpstreamAnswers(r)
  <2>1. UNCHANGED leases
    BY <1>3 DEF UserWaitEnds, LeaveUserQueue, NotEligible, NotUsed, AccountWaitEnds,
                UpstreamAnswers
  <2>2. \E step \in {"leave", "done", "select", "finish", "refused", "quit", "answered"} :
           Goto(r, step) /\ (step \in OnAccount => pc[r] \in OnAccount)
    BY <1>3 DEF UserWaitEnds, LeaveUserQueue, NotEligible, NotUsed, AccountWaitEnds,
                UpstreamAnswers
  <2>. QED
    BY <2>1, <2>2, GoOn DEF HandlersTyped
<1>4. ASSUME NEW a \in Accounts, TryAcquire(r, a) PROVE HandlersTyped' /\ Moves(r)
  <2>1. CASE UNCHANGED <<pc, account, slot>>
    BY <1>4, <2>1 DEF TryAcquire, HandlersTyped, Moves
  <2>2. CASE /\ account' = [account EXCEPT ![r] = a]
             /\ slot' = [slot EXCEPT ![r] = Fresh(r)] /\ Goto(r, "picked")
    BY <1>4, <2>2, GoOnWith DEF TryAcquire
  <2>. QED
    BY <1>4, <2>1, <2>2 DEF TryAcquire
<1>5. ASSUME NEW a \in Accounts, PlanWait(r, a) PROVE HandlersTyped' /\ Moves(r)
  BY <1>5, GoOnWith DEF PlanWait
<1>6. CASE Hydrated(r)
  BY <1>6, GoOn DEF Hydrated, Begin, HandlersTyped
<1>7. ASSUME Dropped(r), Goto(r, "select") \/ Goto(r, "finish")
      PROVE HandlersTyped' /\ Moves(r)
  BY <1>7, GoOnWith DEF Dropped
<1>8. CASE GiveBack(r) \/ EndCall(r)
  BY <1>7, <1>8 DEF GiveBack, EndCall
<1>9. CASE NotHydrated(r)
  BY <1>7, <1>9 DEF NotHydrated, SelectionFailed
<1>10. CASE NoneAvailable(r)
  BY <1>10, GoOn DEF NoneAvailable, SelectionFailed
<1>11. CASE QueueForAccount(r)
  <2>1. CASE Goto(r, "await") /\ UNCHANGED account
    BY <1>11, <2>1, GoOnHolding DEF QueueForAccount, HandlersTyped
  <2>2. CASE Goto(r, "finish") /\ account' = [account EXCEPT ![r] = NoAccount]
    BY <1>11, <2>2, GoOnWith DEF QueueForAccount
  <2>. QED
    BY <1>11, <2>1, <2>2 DEF QueueForAccount
<1>12. CASE AcquireAccountSlot(r)
  BY <1>12, GoOnHolding DEF AcquireAccountSlot, HandlersTyped
<1>13. CASE LeaveAccountQueue(r)
  <2>1. CASE Goto(r, "finish") /\ account' = [account EXCEPT ![r] = NoAccount]
    BY <1>13, <2>1, GoOnWith DEF LeaveAccountQueue
  <2>2. CASE pc[r] = "granted" /\ Begin(r) /\ UNCHANGED account
    BY <1>13, <2>2, GoOnHolding DEF LeaveAccountQueue, Begin, HandlersTyped
  <2>. QED
    BY <1>13, <2>1, <2>2 DEF LeaveAccountQueue
<1>14. CASE Finish(r)
  BY <1>14, GoOnHolding DEF Finish
<1>. QED
  BY <1>1, <1>2, <1>3, <1>4, <1>5, <1>6, <1>8, <1>9, <1>10, <1>11, <1>12, <1>13, <1>14
     DEF Handler

-----------------------------------------------------------------------------
(***************************************************************************)
(* The scripts.                                                            *)
(***************************************************************************)

SlotsOK ==
    /\ DOMAIN slots = Keys
    /\ \A k \in Keys : IsFiniteSet(slots[k]) /\ Cardinality(slots[k]) <= Limit[k]

LEMMA AcquireOK ==
  ASSUME SlotsOK, NEW k \in Keys, NEW id, Acquire(k, id)
  PROVE  /\ SlotsOK' /\ id \in slots'[k]
         /\ \A l \in Keys : slots[l] \subseteq slots'[l]
<1>1. /\ DOMAIN slots' = Keys /\ slots'[k] = slots[k] \cup {id}
      /\ \A l \in Keys \ {k} : slots'[l] = slots[l]
  BY DEF SlotsOK, Acquire
<1>2. IsFiniteSet(slots[k]) /\ Cardinality(slots[k]) \in Nat /\ Limit[k] \in Nat
  BY FS_CardinalityType, GatewayAssumption DEF SlotsOK
<1>3. /\ IsFiniteSet(slots[k] \cup {id})
      /\ Cardinality(slots[k] \cup {id}) <= Cardinality(slots[k]) + 1
      /\ Cardinality(slots[k] \cup {id}) \in Nat
  <2>1. /\ IsFiniteSet(slots[k] \cup {id})
        /\ Cardinality(slots[k] \cup {id}) =
             IF id \in slots[k] THEN Cardinality(slots[k]) ELSE Cardinality(slots[k]) + 1
    BY <1>2, FS_AddElement
  <2>. QED
    BY <1>2, <2>1
<1>4. Cardinality(slots[k]) < Limit[k]
  BY <1>2 DEF Acquire, Full
<1>5. Cardinality(slots'[k]) <= Limit[k]
  BY <1>1, <1>2, <1>3, <1>4
<1>. QED
  BY <1>1, <1>3, <1>5 DEF SlotsOK

LEMMA SubsetsOK ==
  ASSUME SlotsOK, DOMAIN slots' = Keys, \A k \in Keys : slots'[k] \subseteq slots[k]
  PROVE  SlotsOK'
<1>. SUFFICES ASSUME NEW k \in Keys
              PROVE  IsFiniteSet(slots'[k]) /\ Cardinality(slots'[k]) <= Limit[k]
  BY DEF SlotsOK
<1>1. IsFiniteSet(slots[k]) /\ Cardinality(slots[k]) <= Limit[k] /\ Limit[k] \in Nat
  BY GatewayAssumption DEF SlotsOK
<1>2. IsFiniteSet(slots'[k]) /\ Cardinality(slots'[k]) <= Cardinality(slots[k])
  BY <1>1, FS_Subset
<1>3. Cardinality(slots'[k]) \in Nat /\ Cardinality(slots[k]) \in Nat
  BY <1>1, <1>2, FS_CardinalityType
<1>. QED
  BY <1>1, <1>2, <1>3

LEMMA ReleaseOK ==
  ASSUME SlotsOK, NEW k \in Keys, NEW id, ReleaseSlot(k, id)
  PROVE  /\ SlotsOK'
         /\ slots'[k] = slots[k] \ {id}
         /\ \A l \in Keys \ {k} : slots'[l] = slots[l]
<1>1. /\ DOMAIN slots' = Keys
      /\ slots'[k] = slots[k] \ {id}
      /\ \A l \in Keys \ {k} : slots'[l] = slots[l]
  BY DEF SlotsOK, ReleaseSlot
<1>. QED
  BY <1>1, SubsetsOK

LEMMA RemoveOK ==
  ASSUME SlotsOK, NEW keys, NEW mine, RemoveForeign(keys, mine)
  PROVE  SlotsOK'
<1>1. DOMAIN slots' = Keys /\ \A k \in Keys : slots'[k] \subseteq slots[k]
  BY DEF RemoveForeign
<1>. QED
  BY <1>1, SubsetsOK

LEMMA KeysOfRequests ==
  ASSUME HandlersTyped, NEW r \in Requests, pc[r] \in OnAccount
  PROVE  account[r] \in Accounts /\ account[r] \in Keys /\ account[r] # User
  BY GatewayAssumption DEF HandlersTyped, Keys

LEMMA SlotsStep ==
  ASSUME HandlersTyped, SlotsOK, [Next]_vars
  PROVE  SlotsOK'
<1>1. CASE UNCHANGED slots
  BY <1>1 DEF SlotsOK
<1>2. ASSUME NEW r \in Requests, Handler(r) PROVE SlotsOK'
  <2>1. CASE AcquireUserSlot(r)
    BY <1>1, <2>1, AcquireOK DEF AcquireUserSlot, Keys
  <2>2. ASSUME NEW a \in Accounts, TryAcquire(r, a) PROVE SlotsOK'
    BY <2>2, AcquireOK DEF TryAcquire, Keys
  <2>3. CASE AcquireAccountSlot(r)
    BY <1>1, <2>3, AcquireOK, KeysOfRequests DEF AcquireAccountSlot, OnAccount
  <2>4. CASE GiveBack(r) \/ EndCall(r)
    BY <1>1, <2>4, ReleaseOK, KeysOfRequests DEF GiveBack, EndCall, Released, OnAccount
  <2>5. CASE Finish(r)
    BY <1>1, <2>5, ReleaseOK DEF Finish, Released, Keys
  <2>6. CASE UserWaitEnds(r) \/ LeaveUserQueue(r) \/ NotEligible(r) \/ Hydrated(r)
             \/ NotUsed(r) \/ NoneAvailable(r) \/ NotHydrated(r)
    BY <1>1, <2>6 DEF UserWaitEnds, LeaveUserQueue, NotEligible, Hydrated, NotUsed,
                      NoneAvailable, NotHydrated
  <2>7. CASE QueueForAccount(r) \/ AccountWaitEnds(r) \/ LeaveAccountQueue(r)
             \/ UpstreamAnswers(r)
    BY <1>1, <2>7 DEF QueueForAccount, AccountWaitEnds, LeaveAccountQueue, UpstreamAnswers
  <2>8. ASSUME NEW a \in Accounts, PlanWait(r, a) PROVE SlotsOK'
    BY <1>1, <2>8 DEF PlanWait
  <2>. QED
    BY <1>2, <2>1, <2>2, <2>3, <2>4, <2>5, <2>6, <2>7, <2>8 DEF Handler
<1>3. ASSUME NEW r \in Requests, NEW k \in Keys, ReleaseOnDone(r, k) PROVE SlotsOK'
  BY <1>1, <1>3, ReleaseOK DEF ReleaseOnDone, Released
<1>4. ASSUME NEW r \in Requests, Disconnect(r) \/ \E p \in Processes : Arrive(r, p)
      PROVE SlotsOK'
  BY <1>1, <1>4 DEF Disconnect, Arrive
<1>5. ASSUME NEW k \in Keys, NEW id, SlotLapses(k, id) PROVE SlotsOK'
  BY <1>5, ReleaseOK DEF SlotLapses
<1>6. ASSUME NEW k \in Keys, WaitExpires(k) PROVE SlotsOK'
  BY <1>1, <1>6 DEF WaitExpires
<1>7. ASSUME NEW p \in Processes, Crash(p) \/ Start(p) PROVE SlotsOK'
  BY <1>1, <1>7 DEF Crash, Start
<1>8. ASSUME NEW p \in Processes, CleanupStaleProcessSlots(p) PROVE SlotsOK'
  <2>1. ASSUME NEW keys, CleanupSlots(p, keys) PROVE SlotsOK'
    BY <2>1, RemoveOK DEF CleanupSlots
  <2>2. ASSUME NEW keys, CleanupWaits(keys) PROVE SlotsOK'
    BY <1>1, <2>2 DEF CleanupWaits
  <2>. QED
    BY <1>1, <1>8, <2>1, <2>2 DEF CleanupStaleProcessSlots
<1>9. CASE UNCHANGED vars
  BY <1>1, <1>9 DEF vars
<1>. QED
  BY <1>2, <1>3, <1>4, <1>5, <1>6, <1>7, <1>8, <1>9 DEF Next

-----------------------------------------------------------------------------
(***************************************************************************)
(* The limits.  WithinLimit counts handlers; inductive is that each of the *)
(* handlers it counts has its slot in Redis, where the script counts.      *)
(***************************************************************************)

Held(r, k) == Uses(r, k) /\ ~Excused(r, k)

HeldOK == \A r \in Requests, k \in Keys : Held(r, k) => Lease(r, k) \in slots[k]

\* What the others hold, they keep.
OthersKeep(r) ==
    \A q \in Requests \ {r} :
        /\ q \in gone => q \in gone'
        /\ \A k \in Keys : /\ <<q, k>> \in cut => <<q, k>> \in cut'
                           /\ Lease(q, k) \in slots[k] => Lease(q, k) \in slots'[k]

LEMMA StepOfOne ==
  ASSUME HeldOK, NEW r \in Requests, Moves(r), OthersKeep(r),
         \A k \in Keys : Held(r, k)' => Lease(r, k)' \in slots'[k]
  PROVE  HeldOK'
<1>. SUFFICES ASSUME NEW q \in Requests, q # r, NEW k \in Keys, Held(q, k)'
              PROVE  Lease(q, k)' \in slots'[k]
  BY DEF HeldOK
<1>1. Uses(q, k) /\ Lease(q, k)' = Lease(q, k)
  BY DEF Moves, Held, Uses, Lease, IdOn
<1>2. ~Excused(q, k)
  BY DEF Held, Excused, OthersKeep
<1>. QED
  BY <1>1, <1>2 DEF HeldOK, Held, OthersKeep

LEMMA OthersOK ==
  ASSUME SlotsOK, NEW r \in Requests,
         gone' = gone \/ gone' = gone \ {r},
         cut' = cut \/ \E k \in Keys : cut' = cut \ {<<r, k>>},
         \/ UNCHANGED slots
         \/ \E k \in Keys : \E n : Acquire(k, <<r, n>>) \/ ReleaseSlot(k, <<r, n>>)
  PROVE  OthersKeep(r)
<1>. SUFFICES ASSUME NEW q \in Requests \ {r}, NEW k \in Keys, Lease(q, k) \in slots[k]
              PROVE  Lease(q, k) \in slots'[k]
  BY DEF OthersKeep
<1>1. \A n : Lease(q, k) # <<r, n>>
  BY DEF Lease
<1>2. ASSUME NEW l \in Keys, NEW n, Acquire(l, <<r, n>>) PROVE Lease(q, k) \in slots'[k]
  BY <1>2, AcquireOK
<1>3. ASSUME NEW l \in Keys, NEW n, ReleaseSlot(l, <<r, n>>) PROVE Lease(q, k) \in slots'[k]
  BY <1>1, <1>3, ReleaseOK
<1>. QED
  BY <1>2, <1>3

\* A request that keeps its slots, and uses no more than before.
LEMMA StepWithin ==
  ASSUME SlotsOK, HeldOK, NEW r \in Requests, Moves(r), UNCHANGED <<userSlot, slot, gone, cut>>,
         UNCHANGED slots \/ \E k \in Keys : \E n : Acquire(k, <<r, n>>),
         \A k \in Keys : Uses(r, k)' => Uses(r, k)
  PROVE  HeldOK'
<1>1. OthersKeep(r)
  BY OthersOK
<1>2. ASSUME NEW k \in Keys, Held(r, k)' PROVE Lease(r, k)' \in slots'[k]
  <2>1. Held(r, k) /\ Lease(r, k)' = Lease(r, k)
    BY <1>2 DEF Held, Excused, Lease, IdOn
  <2>2. slots[k] \subseteq slots'[k]
    BY AcquireOK
  <2>. QED
    BY <2>1, <2>2 DEF HeldOK
<1>. QED
  BY <1>1, <1>2, StepOfOne

\* Which steps use what.
UserSteps == {"admitted", "select", "picked", "refused", "queue", "await", "granted", "quit",
              "call", "answered", "finish"}

AccountSteps == {"picked", "refused", "granted", "call", "answered"}

LEMMA UsesBy ==
  ASSUME NEW r \in Requests
  PROVE  /\ Uses(r, User) <=> pc[r] \in UserSteps
         /\ \A k \in Accounts : Uses(r, k) <=> account[r] = k /\ pc[r] \in AccountSteps
         /\ Uses(r, User)' <=> pc'[r] \in UserSteps
         /\ \A k \in Accounts : Uses(r, k)' <=> account'[r] = k /\ pc'[r] \in AccountSteps
<1>. \A k \in Accounts : k # User
  BY GatewayAssumption
<1>. QED
  BY DEF Uses, UserSteps, AccountSteps

LEMMA UsesLess ==
  ASSUME NEW r \in Requests, pc'[r] \in UserSteps => pc[r] \in UserSteps,
         pc'[r] \in AccountSteps => pc[r] \in AccountSteps /\ account'[r] = account[r]
  PROVE  \A k \in Keys : Uses(r, k)' => Uses(r, k)
  BY UsesBy DEF Keys

\* A step after which only the user's slot is used, or none.
LEMMA StepDropped ==
  ASSUME HandlersTyped, SlotsOK, HeldOK, NEW r \in Requests, Moves(r), pc[r] \in OnAccount,
         Dropped(r), UNCHANGED slots \/ ReleaseSlot(account[r], Lease(r, account[r])),
         UNCHANGED gone, pc'[r] \notin AccountSteps
  PROVE  HeldOK'
<1>1. account[r] \in Keys /\ account[r] # User
  BY KeysOfRequests
<1>2. OthersKeep(r)
  BY <1>1, OthersOK DEF Dropped, Lease
<1>3. ASSUME NEW k \in Keys, Held(r, k)' PROVE Lease(r, k)' \in slots'[k]
  <2>1. k = User
    BY <1>3, UsesBy DEF Held, Keys
  <2>2. Lease(r, k)' = Lease(r, k) /\ slots'[k] = slots[k]
    BY <1>1, <2>1, ReleaseOK DEF Dropped, Lease, IdOn
  <2>3. Held(r, k)
    <3>1. pc[r] \in UserSteps
      BY DEF OnAccount, UserSteps
    <3>2. ~Excused(r, k)
      BY <1>1, <1>3, <2>1 DEF Held, Excused, Dropped
    <3>. QED
      BY <2>1, <3>1, <3>2, UsesBy DEF Held
  <2>. QED
    BY <2>2, <2>3 DEF HeldOK
<1>. QED
  BY <1>2, <1>3, StepOfOne

LEMMA HandlerHolds ==
  ASSUME HandlersTyped, SlotsOK, HeldOK, NEW r \in Requests, Handler(r), Moves(r)
  PROVE  HeldOK'
<1>. USE DEF Steps, OnAccount, UserSteps, AccountSteps
<1>1. CASE AcquireUserSlot(r)
  <2>1. CASE Goto(r, "leave") /\ UNCHANGED userSlot
    <3>1. \A k \in Keys : Uses(r, k)' => Uses(r, k)
      BY <2>1, GotoStep, UsesLess
    <3>2. UNCHANGED slots \/ Acquire(User, <<r, Fresh(r)>>)
      BY <1>1 DEF AcquireUserSlot
    <3>. QED
      BY <1>1, <2>1, <3>1, <3>2, StepWithin DEF AcquireUserSlot, Keys
  <2>2. CASE /\ Acquire(User, <<r, Fresh(r)>>) /\ Goto(r, "admitted")
             /\ userSlot' = [userSlot EXCEPT ![r] = Fresh(r)]
    <3>1. pc'[r] = "admitted" /\ userSlot'[r] = Fresh(r)
      BY <2>2, GotoStep DEF HandlersTyped
    <3>2. \A k \in Keys : Uses(r, k)' => k = User
      BY <3>1, UsesBy DEF Keys
    <3>3. <<r, Fresh(r)>> \in slots'[User]
      BY <2>2, AcquireOK DEF Keys
    <3>4. Lease(r, User)' = <<r, Fresh(r)>>
      BY <3>1 DEF Lease, IdOn
    <3>5. OthersKeep(r)
      BY <1>1, <2>2, OthersOK DEF AcquireUserSlot, Keys
    <3>. QED
      BY <3>2, <3>3, <3>4, <3>5, StepOfOne DEF Held
  <2>. QED
    BY <1>1, <2>1, <2>2 DEF AcquireUserSlot
<1>2. ASSUME NEW a \in Accounts, TryAcquire(r, a) PROVE HeldOK'
  <2>1. a \in Keys /\ a # User
    BY GatewayAssumption DEF Keys
  <2>2. CASE UNCHANGED <<pc, account, slot>>
    <3>1. \A k \in Keys : Uses(r, k)' => Uses(r, k)
      BY <2>2 DEF Uses
    <3>. QED
      BY <1>2, <2>1, <2>2, <3>1, StepWithin DEF TryAcquire
  <2>3. CASE /\ account' = [account EXCEPT ![r] = a] /\ Goto(r, "picked")
             /\ slot' = [slot EXCEPT ![r] = Fresh(r)]
    <3>1. /\ pc[r] = "select" /\ pc'[r] = "picked" /\ account'[r] = a
          /\ slot'[r] = Fresh(r) /\ userSlot'[r] = userSlot[r]
          /\ Acquire(a, <<r, Fresh(r)>>) /\ UNCHANGED <<gone, cut>>
      BY <1>2, <2>3, GotoStep DEF TryAcquire, HandlersTyped
    <3>2. OthersKeep(r)
      BY <2>1, <3>1, OthersOK
    <3>3. Lease(r, a)' \in slots'[a]
      <4>1. <<r, Fresh(r)>> \in slots'[a]
        BY <2>1, <3>1, AcquireOK
      <4>2. Lease(r, a)' = <<r, Fresh(r)>>
        BY <2>1, <3>1 DEF Lease, IdOn
      <4>. QED
        BY <4>1, <4>2
    <3>4. Held(r, User)' => Lease(r, User)' \in slots'[User]
      <4>1. Held(r, User)' => Held(r, User)
        BY <3>1, UsesBy DEF Held, Excused
      <4>2. Lease(r, User)' = Lease(r, User) /\ slots[User] \subseteq slots'[User]
        BY <2>1, <3>1, AcquireOK DEF Lease, IdOn, Keys
      <4>. QED
        BY <4>1, <4>2 DEF HeldOK, Keys
    <3>5. \A k \in Keys : Uses(r, k)' => k \in {a, User}
      BY <3>1, UsesBy DEF Keys
    <3>6. ASSUME NEW k \in Keys, Held(r, k)' PROVE Lease(r, k)' \in slots'[k]
      BY <3>3, <3>4, <3>5, <3>6 DEF Held
    <3>. QED
      BY <3>2, <3>6, StepOfOne
  <2>. QED
    BY <1>2, <2>2, <2>3 DEF TryAcquire
<1>3. CASE AcquireAccountSlot(r)
  <2>0. PICK a \in Accounts : a = account[r]
    BY <1>3, KeysOfRequests DEF AcquireAccountSlot
  <2>1. pc[r] = "await" /\ a \in Keys /\ a # User /\ a = account[r]
    BY <1>3, <2>0, GatewayAssumption DEF AcquireAccountSlot, Keys
  <2>2. CASE Goto(r, "quit") /\ UNCHANGED slot
    <3>1. \A k \in Keys : Uses(r, k)' => Uses(r, k)
      BY <2>1, <2>2, GotoStep, UsesLess
    <3>2. UNCHANGED slots \/ Acquire(a, <<r, Fresh(r)>>)
      BY <1>3, <2>1 DEF AcquireAccountSlot
    <3>. QED
      BY <1>3, <2>1, <2>2, <3>1, <3>2, StepWithin DEF AcquireAccountSlot
  <2>3. CASE Acquire(a, <<r, Fresh(r)>>) /\ slot' = [slot EXCEPT ![r] = Fresh(r)]
             /\ Goto(r, "granted")
    <3>1. /\ pc'[r] = "granted" /\ account'[r] = a /\ slot'[r] = Fresh(r)
          /\ userSlot'[r] = userSlot[r] /\ UNCHANGED <<gone, cut>>
      BY <1>3, <2>1, <2>3, GotoStep DEF AcquireAccountSlot, HandlersTyped
    <3>2. OthersKeep(r)
      BY <2>1, <2>3, <3>1, OthersOK
    <3>3. Lease(r, a)' \in slots'[a]
      <4>1. <<r, Fresh(r)>> \in slots'[a]
        BY <2>1, <2>3, AcquireOK
      <4>2. Lease(r, a)' = <<r, slot'[r]>>
        BY <2>1 DEF Lease, IdOn
      <4>. QED
        BY <3>1, <4>1, <4>2
    <3>4. Held(r, User)' => Lease(r, User)' \in slots'[User]
      <4>1. Held(r, User)' => Held(r, User)
        BY <2>1, <3>1, UsesBy DEF Held, Excused
      <4>2. Lease(r, User)' = Lease(r, User) /\ slots[User] \subseteq slots'[User]
        BY <2>1, <2>3, <3>1, AcquireOK DEF Lease, IdOn, Keys
      <4>. QED
        BY <4>1, <4>2 DEF HeldOK, Keys
    <3>5. \A k \in Keys : Uses(r, k)' => k \in {a, User}
      BY <3>1, UsesBy DEF Keys
    <3>6. ASSUME NEW k \in Keys, Held(r, k)' PROVE Lease(r, k)' \in slots'[k]
      BY <3>3, <3>4, <3>5, <3>6 DEF Held
    <3>. QED
      BY <3>2, <3>6, StepOfOne
  <2>. QED
    BY <1>3, <2>1, <2>2, <2>3 DEF AcquireAccountSlot
<1>4. CASE GiveBack(r) \/ EndCall(r) \/ NotHydrated(r)
  <2>1. /\ pc[r] \in OnAccount /\ Dropped(r) /\ UNCHANGED gone
        /\ UNCHANGED slots \/ ReleaseSlot(account[r], Lease(r, account[r]))
        /\ Goto(r, "select") \/ Goto(r, "finish")
    BY <1>4 DEF GiveBack, EndCall, NotHydrated, Released, SelectionFailed
  <2>. QED
    BY <2>1, GotoStep, StepDropped
<1>5. CASE Finish(r)
  <2>1. \A k \in Keys : ~Uses(r, k)'
    BY <1>5, GotoStep, UsesBy DEF Finish, Keys
  <2>2. OthersKeep(r)
    BY <1>5, OthersOK DEF Finish, Released, Lease, Keys
  <2>. QED
    BY <2>1, <2>2, StepOfOne DEF Held
<1>6. ASSUME UNCHANGED <<slots, userSlot, slot, gone, cut>>,
             \A k \in Keys : Uses(r, k)' => Uses(r, k)
      PROVE HeldOK'
  BY <1>6, StepWithin
<1>7. CASE UserWaitEnds(r) \/ NotEligible(r) \/ NotUsed(r) \/ AccountWaitEnds(r)
           \/ UpstreamAnswers(r) \/ Hydrated(r) \/ NoneAvailable(r)
  <2>1. UNCHANGED <<slots, leases, gone, cut>>
    BY <1>7 DEF UserWaitEnds, NotEligible, NotUsed, AccountWaitEnds, UpstreamAnswers,
                Hydrated, NoneAvailable, ghosts
  <2>2. \E from, to \in Steps :
           /\ pc[r] = from /\ Goto(r, to)
           /\ <<from, to>> \in {<<"user", "leave">>, <<"select", "finish">>,
                <<"picked", "refused">>, <<"await", "quit">>, <<"call", "answered">>,
                <<"picked", "call">>, <<"select", "select">>}
    BY <1>7 DEF UserWaitEnds, NotEligible, NotUsed, AccountWaitEnds, UpstreamAnswers,
                Hydrated, NoneAvailable, Begin, SelectionFailed
  <2>3. \A k \in Keys : Uses(r, k)' => Uses(r, k)
    BY <2>1, <2>2, GotoStep, UsesLess DEF leases
  <2>. QED
    BY <1>6, <2>1, <2>3 DEF leases
<1>8. CASE LeaveUserQueue(r)
  <2>1. \A k \in Keys : Uses(r, k)' => Uses(r, k)
    BY <1>8, GotoStep, UsesLess DEF LeaveUserQueue
  <2>. QED
    BY <1>6, <1>8, <2>1 DEF LeaveUserQueue, leases
<1>9. CASE LeaveAccountQueue(r)
  <2>1. \A k \in Keys : Uses(r, k)' => Uses(r, k)
    BY <1>9, GotoStep, UsesLess DEF LeaveAccountQueue, Begin
  <2>. QED
    BY <1>6, <1>9, <2>1 DEF LeaveAccountQueue
<1>10. CASE QueueForAccount(r)
  <2>1. \A k \in Keys : Uses(r, k)' => Uses(r, k)
    BY <1>10, GotoStep, UsesLess DEF QueueForAccount
  <2>. QED
    BY <1>6, <1>10, <2>1 DEF QueueForAccount
<1>11. ASSUME NEW a \in Accounts, PlanWait(r, a) PROVE HeldOK'
  <2>1. \A k \in Keys : Uses(r, k)' => Uses(r, k)
    BY <1>11, GotoStep, UsesLess DEF PlanWait
  <2>. QED
    BY <1>6, <1>11, <2>1 DEF PlanWait, ghosts
<1>. QED
  BY <1>1, <1>2, <1>3, <1>4, <1>5, <1>7, <1>8, <1>9, <1>10, <1>11 DEF Handler

LEMMA HeldStep ==
  ASSUME HandlersTyped, SlotsOK, HeldOK, [Next]_vars
  PROVE  HeldOK'
<1>1. ASSUME UNCHANGED <<slots, leases>>, \A q \in gone : q \in gone',
             \A l \in cut : l \in cut', \A r \in Requests : pc'[r] \in {"dead", pc[r]}
      PROVE HeldOK'
  <2>. SUFFICES ASSUME NEW r \in Requests, NEW k \in Keys, Held(r, k)'
                PROVE  Lease(r, k)' \in slots'[k]
    BY DEF HeldOK
  <2>1. Held(r, k) /\ Lease(r, k)' = Lease(r, k)
    BY <1>1 DEF Held, Uses, Excused, Lease, IdOn, leases
  <2>. QED
    BY <1>1, <2>1 DEF HeldOK
<1>2. ASSUME NEW r \in Requests, Handler(r) PROVE HeldOK'
  BY <1>2, HandlerMoves, HandlerHolds
<1>3. ASSUME NEW r \in Requests, NEW p \in Processes, Arrive(r, p) PROVE HeldOK'
  <2>1. Moves(r)
    BY <1>3, HandlerMoves
  <2>2. \A k \in Keys : Uses(r, k)' => Uses(r, k)
    BY <1>3, GotoStep, UsesLess DEF Arrive, Steps, UserSteps, AccountSteps
  <2>. QED
    BY <1>3, <2>1, <2>2, StepWithin DEF Arrive, leases
<1>4. ASSUME NEW r \in Requests, NEW k \in Keys, ReleaseOnDone(r, k) PROVE HeldOK'
  <2>1. Moves(r)
    BY <1>4 DEF ReleaseOnDone, Moves, HandlersTyped
  <2>2. OthersKeep(r)
    BY <1>4, OthersOK DEF ReleaseOnDone, Released, Lease
  <2>3. \A l \in Keys : ~Held(r, l)'
    BY <1>4 DEF ReleaseOnDone, Held, Excused
  <2>. QED
    BY <2>1, <2>2, <2>3, StepOfOne
<1>5. ASSUME NEW r \in Requests, Disconnect(r) PROVE HeldOK'
  BY <1>1, <1>5 DEF Disconnect, ghosts
\* A slot that others remove is cut.
<1>6. ASSUME NEW keys \in SUBSET Keys, NEW ids, UNCHANGED <<pc, leases, gone>>,
             cut' = cut \cup Cut(keys, ids),
             \A k \in Keys : slots'[k] = IF k \in keys THEN slots[k] \ ids ELSE slots[k]
      PROVE HeldOK'
  <2>. SUFFICES ASSUME NEW r \in Requests, NEW k \in Keys, Held(r, k)'
                PROVE  Lease(r, k)' \in slots'[k]
    BY DEF HeldOK
  <2>1. Uses(r, k) /\ <<r, k>> \notin cut /\ r \notin gone /\ <<r, k>> \notin Cut(keys, ids)
    BY <1>6 DEF Held, Excused, Uses, leases
  <2>2. Lease(r, k) \in slots[k] /\ Lease(r, k)' = Lease(r, k)
    BY <1>6, <2>1 DEF HeldOK, Held, Excused, Lease, IdOn, leases
  <2>3. Active(r)
    BY <2>1 DEF Active, Uses
  <2>4. k \notin keys \/ Lease(r, k) \notin ids
    BY <2>1, <2>3 DEF Cut
  <2>. QED
    BY <1>6, <2>2, <2>4
<1>7. ASSUME NEW k \in Keys, NEW id, SlotLapses(k, id) PROVE HeldOK'
  <2>1. \A l \in Keys : slots'[l] = IF l \in {k} THEN slots[l] \ {id} ELSE slots[l]
    BY <1>7, ReleaseOK DEF SlotLapses
  <2>. QED
    BY <1>6, <1>7, <2>1 DEF SlotLapses
<1>8. ASSUME NEW p \in Processes, CleanupStaleProcessSlots(p) PROVE HeldOK'
  <2>1. UNCHANGED <<pc, leases, gone>>
    BY <1>8 DEF CleanupStaleProcessSlots, leases
  <2>2. ASSUME NEW keys \in SUBSET Keys, CleanupSlots(p, keys) PROVE HeldOK'
    <3>1. PICK all, foreign :
             /\ all = UNION {slots[k] : k \in keys} /\ foreign \subseteq all
             /\ RemoveForeign(keys, all \ foreign) /\ cut' = cut \cup Cut(keys, foreign)
      <4>. DEFINE ids == UNION {slots[k] : k \in keys}
                  others == {id \in ids : home[id[1]] # p}
      <4>1. RemoveForeign(keys, ids \ others) /\ cut' = cut \cup Cut(keys, others)
        BY <2>2 DEF CleanupSlots
      <4>2. others \subseteq ids
        OBVIOUS
      <4>. QED
        BY <4>1, <4>2
    <3>2. \A k \in Keys : slots'[k] = IF k \in keys THEN slots[k] \cap (all \ foreign)
                                                    ELSE slots[k]
      BY <3>1 DEF RemoveForeign
    <3>3. \A k \in keys : slots[k] \subseteq all
      BY <3>1
    <3>4. \A k \in Keys : slots'[k] = IF k \in keys THEN slots[k] \ foreign ELSE slots[k]
      BY <3>2, <3>3
    <3>5. cut' = cut \cup Cut(keys, foreign)
      BY <3>1
    <3>. QED
      BY <1>6, <2>1, <3>4, <3>5
  <2>3. ASSUME NEW keys, CleanupWaits(keys) PROVE HeldOK'
    BY <1>1, <2>1, <2>3 DEF CleanupWaits
  <2>4. ASSUME UNCHANGED <<slots, cut>> PROVE HeldOK'
    BY <1>1, <2>1, <2>4
  <2>5. Accounts \in SUBSET Keys /\ {User} \in SUBSET Keys
    BY DEF Keys
  <2>. QED
    BY <1>8, <2>2, <2>3, <2>4, <2>5 DEF CleanupStaleProcessSlots
<1>9. ASSUME NEW k \in Keys, WaitExpires(k) PROVE HeldOK'
  BY <1>1, <1>9 DEF WaitExpires
<1>10. ASSUME NEW p \in Processes, Crash(p) PROVE HeldOK'
  BY <1>1, <1>10 DEF Crash
<1>11. ASSUME NEW p \in Processes, Start(p) PROVE HeldOK'
  BY <1>1, <1>11 DEF Start, ghosts
<1>12. CASE UNCHANGED vars
  BY <1>1, <1>12 DEF vars, ghosts
<1>. QED
  BY <1>2, <1>3, <1>4, <1>5, <1>7, <1>8, <1>9, <1>10, <1>11, <1>12 DEF Next

LEMMA HandlersStep ==
  ASSUME HandlersTyped, [Next]_vars
  PROVE  HandlersTyped'
<1>1. ASSUME UNCHANGED <<pc, leases>> PROVE HandlersTyped'
  BY <1>1 DEF HandlersTyped, leases
<1>2. ASSUME NEW r \in Requests, Handler(r) \/ \E p \in Processes : Arrive(r, p)
      PROVE HandlersTyped'
  BY <1>2, HandlerMoves
<1>3. ASSUME NEW r \in Requests, NEW k \in Keys, ReleaseOnDone(r, k) PROVE HandlersTyped'
  BY <1>3 DEF ReleaseOnDone, HandlersTyped
<1>4. ASSUME NEW p \in Processes, Crash(p) PROVE HandlersTyped'
  BY <1>4 DEF Crash, HandlersTyped, Steps, OnAccount, leases
<1>5. ASSUME NEW r \in Requests, Disconnect(r) PROVE HandlersTyped'
  BY <1>1, <1>5 DEF Disconnect
<1>6. ASSUME NEW k \in Keys, WaitExpires(k) \/ \E id : SlotLapses(k, id) PROVE HandlersTyped'
  BY <1>1, <1>6 DEF WaitExpires, SlotLapses
<1>7. ASSUME NEW p \in Processes, Start(p) \/ CleanupStaleProcessSlots(p)
      PROVE HandlersTyped'
  BY <1>1, <1>7 DEF Start, CleanupStaleProcessSlots
<1>8. CASE UNCHANGED vars
  BY <1>1, <1>8 DEF vars
<1>. QED
  BY <1>2, <1>3, <1>4, <1>5, <1>6, <1>7, <1>8 DEF Next

LEMMA HoldersFit ==
  ASSUME SlotsOK, HeldOK
  PROVE  WithinLimit
<1>. SUFFICES ASSUME NEW k \in Keys
              PROVE  Cardinality({r \in Requests : Uses(r, k) /\ ~Excused(r, k)}) <= Limit[k]
  BY DEF WithinLimit
<1>. DEFINE holders == {r \in Requests : Uses(r, k) /\ ~Excused(r, k)}
            lease == [r \in holders |-> Lease(r, k)]
<1>1. lease \in Injection(holders, slots[k])
  <2>1. lease \in [holders -> slots[k]]
    BY DEF HeldOK, Held
  <2>2. \A r, q \in holders : lease[r] = lease[q] => r = q
    BY DEF Lease
  <2>. QED
    BY <2>1, <2>2 DEF Injection, IsInjective
<1>2. IsFiniteSet(slots[k]) /\ Cardinality(slots[k]) <= Limit[k] /\ Limit[k] \in Nat
  BY GatewayAssumption DEF SlotsOK
<1>. HIDE DEF holders, lease
<1>3. IsFiniteSet(holders) /\ Cardinality(holders) <= Cardinality(slots[k])
  BY <1>1, <1>2, FS_Injection
<1>4. Cardinality(holders) \in Nat /\ Cardinality(slots[k]) \in Nat
  BY <1>2, <1>3, FS_CardinalityType
<1>. QED
  BY <1>2, <1>3, <1>4 DEF holders

LEMMA StartsEmpty ==
  ASSUME Init
  PROVE  HandlersTyped /\ SlotsOK /\ HeldOK
<1>. HandlersTyped
  BY DEF Init, HandlersTyped, Steps, OnAccount
<1>. SlotsOK
  <2>1. IsFiniteSet({}) /\ Cardinality({}) = 0
    BY FS_EmptySet
  <2>2. \A k \in Keys : Limit[k] \in Nat
    BY GatewayAssumption
  <2>. QED
    BY <2>1, <2>2 DEF Init, SlotsOK
<1>. HeldOK
  BY DEF Init, HeldOK, Held, Uses
<1>. QED
  OBVIOUS

\* However requests, failovers, crashes and cleanups interleave, the requests that use
\* the user or an account at the same time stay within its concurrency (WithinLimit), the
\* ones aside whose slot lapsed or was cleaned up, or whose client has left.
THEOREM LimitKept == Spec => []WithinLimit
<1>1. Init => HandlersTyped /\ SlotsOK /\ HeldOK
  BY StartsEmpty
<1>2. HandlersTyped /\ SlotsOK /\ HeldOK /\ [Next]_vars
        => HandlersTyped' /\ SlotsOK' /\ HeldOK'
  BY HandlersStep, SlotsStep, HeldStep
<1>3. SlotsOK /\ HeldOK => WithinLimit
  BY HoldersFit
<1>. QED
  BY <1>1, <1>2, <1>3, PTL DEF Spec

-----------------------------------------------------------------------------
(***************************************************************************)
(* The wait counters.  CountersAreExact is inductive once the sets it      *)
(* counts are known to be finite.                                          *)
(***************************************************************************)

CountsOK ==
    /\ waiting \in [Keys -> Nat]
    /\ \A k \in Keys \ drifted :
          IsFiniteSet(Counted(k)) /\ waiting[k] = Cardinality(Counted(k))

UserQueue == {"user", "leave", "admitted"}

AccountQueue == {"await", "granted", "quit"}

LEMMA WaitsBy ==
  ASSUME NEW r \in Requests
  PROVE  /\ Waits(r, User) <=> pc[r] \in UserQueue
         /\ \A k \in Accounts : Waits(r, k) <=> account[r] = k /\ pc[r] \in AccountQueue
         /\ Waits(r, User)' <=> pc'[r] \in UserQueue
         /\ \A k \in Accounts : Waits(r, k)' <=> account'[r] = k /\ pc'[r] \in AccountQueue
<1>. \A k \in Accounts : k # User
  BY GatewayAssumption
<1>. QED
  BY DEF Waits, UserQueue, AccountQueue

LEMMA SameQueues ==
  ASSUME NEW r \in Requests, pc'[r] \in UserQueue <=> pc[r] \in UserQueue,
         pc'[r] \in AccountQueue <=> pc[r] \in AccountQueue,
         pc[r] \in AccountQueue => account'[r] = account[r]
  PROVE  \A k \in Keys : Waits(r, k)' <=> Waits(r, k)
  BY WaitsBy DEF Keys

\* The counters of the keys that nobody joins or leaves.
LEMMA CountsKept ==
  ASSUME CountsOK, UNCHANGED waiting, drifted \subseteq drifted',
         \A k \in Keys \ drifted' : \A r \in Requests : Waits(r, k)' <=> Waits(r, k)
  PROVE  CountsOK'
<1>. \A k \in Keys \ drifted' : Counted(k)' = Counted(k)
  BY DEF Counted
<1>. QED
  BY DEF CountsOK

\* A step of one request that joins or leaves at most the queue of k.
LEMMA CountsOfOne ==
  ASSUME CountsOK, NEW r \in Requests, Moves(r), NEW k \in Keys,
         \A l \in Keys \ {k} : Waits(r, l)' <=> Waits(r, l),
         \/ UNCHANGED <<waiting, drifted>> /\ (Waits(r, k)' <=> Waits(r, k))
         \/ UNCHANGED drifted /\ IncrementWait(k) /\ ~Waits(r, k) /\ Waits(r, k)'
         \/ UNCHANGED drifted /\ DecrementWait(k) /\ Waits(r, k) /\ ~Waits(r, k)'
         \/ UNCHANGED waiting /\ drifted' = drifted \cup {k}
  PROVE  CountsOK'
<1>1. \A q \in Requests \ {r} : \A l \in Keys : Waits(q, l)' <=> Waits(q, l)
  BY DEF Moves, Waits
<1>2. \A l \in Keys \ {k} : Counted(l)' = Counted(l)
  BY <1>1 DEF Counted
<1>3. CASE UNCHANGED <<waiting, drifted>> /\ (Waits(r, k)' <=> Waits(r, k))
  BY <1>1, <1>3, CountsKept
<1>4. CASE UNCHANGED waiting /\ drifted' = drifted \cup {k}
  BY <1>1, <1>4, CountsKept
<1>5. ASSUME UNCHANGED drifted, waiting' \in [Keys -> Nat],
             \A l \in Keys \ {k} : waiting'[l] = waiting[l],
             k \notin drifted
               => IsFiniteSet(Counted(k)') /\ waiting'[k] = Cardinality(Counted(k)')
      PROVE CountsOK'
  BY <1>2, <1>5 DEF CountsOK
<1>6. CASE UNCHANGED drifted /\ IncrementWait(k) /\ ~Waits(r, k) /\ Waits(r, k)'
  <2>1. /\ waiting' \in [Keys -> Nat] /\ waiting'[k] = waiting[k] + 1
        /\ \A l \in Keys \ {k} : waiting'[l] = waiting[l]
    BY <1>6 DEF IncrementWait, CountsOK
  <2>2. Counted(k)' = Counted(k) \cup {r} /\ r \notin Counted(k)
    BY <1>1, <1>6 DEF Counted
  <2>3. ASSUME k \notin drifted
        PROVE  IsFiniteSet(Counted(k)') /\ waiting'[k] = Cardinality(Counted(k)')
    <3>1. IsFiniteSet(Counted(k)) /\ waiting[k] = Cardinality(Counted(k))
      BY <2>3 DEF CountsOK
    <3>2. /\ IsFiniteSet(Counted(k) \cup {r})
          /\ Cardinality(Counted(k) \cup {r}) =
               IF r \in Counted(k) THEN Cardinality(Counted(k)) ELSE Cardinality(Counted(k)) + 1
      BY <3>1, FS_AddElement
    <3>. QED
      BY <2>1, <2>2, <3>1, <3>2
  <2>. QED
    BY <1>5, <1>6, <2>1, <2>3
<1>7. CASE UNCHANGED drifted /\ DecrementWait(k) /\ Waits(r, k) /\ ~Waits(r, k)'
  <2>1. /\ waiting' \in [Keys -> Nat] /\ (waiting[k] > 0 => waiting'[k] = waiting[k] - 1)
        /\ \A l \in Keys \ {k} : waiting'[l] = waiting[l]
    BY <1>7 DEF DecrementWait, CountsOK
  <2>2. Counted(k)' = Counted(k) \ {r} /\ r \in Counted(k)
    BY <1>1, <1>7 DEF Counted
  <2>3. ASSUME k \notin drifted
        PROVE  IsFiniteSet(Counted(k)') /\ waiting'[k] = Cardinality(Counted(k)')
    <3>1. IsFiniteSet(Counted(k)) /\ waiting[k] = Cardinality(Counted(k)) /\ waiting[k] \in Nat
      BY <2>3 DEF CountsOK
    <3>2. /\ IsFiniteSet(Counted(k) \ {r})
          /\ Cardinality(Counted(k) \ {r}) =
               IF r \in Counted(k) THEN Cardinality(Counted(k)) - 1 ELSE Cardinality(Counted(k))
      BY <3>1, FS_RemoveElement
    <3>3. Cardinality(Counted(k) \ {r}) \in Nat
      BY <3>2, FS_CardinalityType
    <3>. QED
      BY <2>1, <2>2, <3>1, <3>2, <3>3
  <2>. QED
    BY <1>5, <1>7, <2>1, <2>3
<1>. QED
  BY <1>3, <1>4, <1>6, <1>7

LEMMA HandlerCounts ==
  ASSUME HandlersTyped, CountsOK, NEW r \in Requests, Moves(r),
         (\E p \in Processes : Arrive(r, p)) \/ Handler(r)
  PROVE  CountsOK'
<1>. USE DEF Steps, OnAccount, UserQueue, AccountQueue
<1>1. ASSUME UNCHANGED <<waiting, drifted>>, \A k \in Keys : Waits(r, k)' <=> Waits(r, k)
      PROVE CountsOK'
  BY <1>1, CountsOfOne DEF Keys
<1>2. ASSUME NEW p \in Processes, Arrive(r, p) PROVE CountsOK'
  <2>1. \A k \in Accounts : Waits(r, k)' <=> Waits(r, k)
    BY <1>2, GotoStep, WaitsBy DEF Arrive, leases
  <2>2. CASE QueueFull(User) /\ Goto(r, "done") /\ UNCHANGED <<waiting, drifted>>
    BY <1>1, <1>2, <2>1, <2>2, GotoStep, WaitsBy DEF Arrive, Keys
  <2>3. CASE IncrementWait(User) /\ Goto(r, "user") /\ UNCHANGED drifted
    BY <1>2, <2>1, <2>3, GotoStep, WaitsBy, CountsOfOne DEF Arrive, Keys
  <2>4. CASE UNCHANGED waiting /\ drifted' = drifted \cup {User}
    BY <2>1, <2>4, CountsOfOne DEF Keys
  <2>. QED
    BY <1>2, <2>2, <2>3, <2>4 DEF Arrive, Faultless, Drift
\* Somebody leaves the queue of k.
<1>3. ASSUME NEW k \in Keys, Uncount(r, k), Waits(r, k), ~Waits(r, k)',
             \A l \in Keys \ {k} : Waits(r, l)' <=> Waits(r, l)
      PROVE CountsOK'
  <2>1. \/ UNCHANGED drifted /\ DecrementWait(k)
        \/ UNCHANGED waiting /\ drifted' = drifted \cup {k}
    BY <1>3 DEF Uncount, Faultless, Drift
  <2>. QED
    BY <1>3, <2>1, CountsOfOne
<1>4. CASE LeaveUserQueue(r)
  <2>1. pc[r] \in UserQueue /\ pc'[r] \in {"done", "select"} /\ UNCHANGED account
    BY <1>4, GotoStep DEF LeaveUserQueue, leases
  <2>2. Waits(r, User) /\ ~Waits(r, User)' /\ \A l \in Accounts : Waits(r, l)' <=> Waits(r, l)
    BY <1>4, <2>1, WaitsBy DEF LeaveUserQueue
  <2>. QED
    BY <1>3, <1>4, <2>2 DEF LeaveUserQueue, Keys
<1>5. CASE LeaveAccountQueue(r)
  <2>1. PICK a \in Accounts : a = account[r]
    BY <1>5, KeysOfRequests DEF LeaveAccountQueue
  <2>2. pc[r] \in {"quit", "granted"} /\ pc'[r] \in {"finish", "call"}
    BY <1>5, GotoStep DEF LeaveAccountQueue, Begin
  <2>3. account'[r] \in {a, NoAccount}
    BY <1>5, <2>1 DEF LeaveAccountQueue, HandlersTyped
  <2>4. /\ Waits(r, a) /\ ~Waits(r, a)'
        /\ \A l \in Keys \ {a} : Waits(r, l)' <=> Waits(r, l)
    BY <2>1, <2>2, <2>3, WaitsBy DEF Keys
  <2>5. Uncount(r, a)
    BY <1>5, <2>1 DEF LeaveAccountQueue
  <2>. QED
    BY <1>3, <2>4, <2>5 DEF Keys
<1>6. CASE QueueForAccount(r)
  <2>1. PICK a \in Accounts : a = account[r]
    BY <1>6, KeysOfRequests DEF QueueForAccount
  <2>2. pc[r] = "queue"
    BY <1>6 DEF QueueForAccount
  <2>3. ASSUME Goto(r, "await"), UNCHANGED account
        PROVE  Waits(r, a)' /\ \A l \in Keys \ {a} : Waits(r, l)' <=> Waits(r, l)
    BY <2>1, <2>2, <2>3, GotoStep, WaitsBy DEF Keys
  <2>4. CASE IncrementWait(a) /\ Goto(r, "await") /\ UNCHANGED <<account, drifted>>
    BY <2>2, <2>3, <2>4, WaitsBy, CountsOfOne DEF Keys
  <2>5. CASE Goto(r, "finish") /\ UNCHANGED <<waiting, drifted>>
    <3>1. \A k \in Keys : ~Waits(r, k) /\ ~Waits(r, k)'
      BY <2>2, <2>5, GotoStep, WaitsBy DEF Keys
    <3>. QED
      BY <1>1, <2>5, <3>1
  <2>6. CASE /\ UNCHANGED <<waiting, account>> /\ drifted' = drifted \cup {a}
             /\ Goto(r, "await")
    BY <2>3, <2>6, CountsOfOne DEF Keys
  <2>. QED
    BY <1>6, <2>1, <2>4, <2>5, <2>6 DEF QueueForAccount, Faultless, Drift
<1>7. ASSUME UNCHANGED <<waiting, drifted>>, pc'[r] \in UserQueue <=> pc[r] \in UserQueue,
             pc'[r] \in AccountQueue <=> pc[r] \in AccountQueue,
             pc[r] \in AccountQueue => account'[r] = account[r]
      PROVE CountsOK'
  BY <1>1, <1>7, SameQueues
<1>8. CASE AcquireUserSlot(r) \/ UserWaitEnds(r)
  BY <1>7, <1>8, GotoStep DEF AcquireUserSlot, UserWaitEnds, Faultless, Leak, ghosts
<1>9. CASE AcquireAccountSlot(r) \/ AccountWaitEnds(r)
  BY <1>7, <1>9, GotoStep
     DEF AcquireAccountSlot, AccountWaitEnds, Faultless, Leak, ghosts, leases
<1>10. ASSUME NEW a \in Accounts, TryAcquire(r, a) \/ PlanWait(r, a) PROVE CountsOK'
  BY <1>7, <1>10, GotoStep DEF TryAcquire, PlanWait, Faultless, Leak, ghosts
<1>11. CASE NotEligible(r) \/ Hydrated(r) \/ NotUsed(r) \/ UpstreamAnswers(r)
  BY <1>7, <1>11, GotoStep DEF NotEligible, Hydrated, NotUsed, UpstreamAnswers, Begin, ghosts
<1>12. CASE GiveBack(r) \/ EndCall(r) \/ Finish(r)
  BY <1>7, <1>12, GotoStep DEF GiveBack, EndCall, Finish, Released, Faultless, Leak
<1>13. CASE NoneAvailable(r) \/ NotHydrated(r)
  BY <1>7, <1>13, GotoStep DEF NoneAvailable, NotHydrated, SelectionFailed, ghosts
<1>. QED
  BY <1>2, <1>4, <1>5, <1>6, <1>8, <1>9, <1>10, <1>11, <1>12, <1>13 DEF Handler

LEMMA CountsStep ==
  ASSUME HandlersTyped, CountsOK, [Next]_vars
  PROVE  CountsOK'
<1>1. ASSUME UNCHANGED <<waiting, pc, account, drifted>> PROVE CountsOK'
  BY <1>1, CountsKept DEF Waits
<1>2. ASSUME NEW r \in Requests, Handler(r) \/ \E p \in Processes : Arrive(r, p)
      PROVE CountsOK'
  BY <1>2, HandlerMoves, HandlerCounts
<1>3. ASSUME NEW r \in Requests, NEW k \in Keys, ReleaseOnDone(r, k) PROVE CountsOK'
  BY <1>1, <1>3 DEF ReleaseOnDone, Released, Faultless, Leak
<1>4. ASSUME NEW r \in Requests, Disconnect(r) PROVE CountsOK'
  BY <1>1, <1>4 DEF Disconnect, leases, ghosts
<1>5. ASSUME NEW k \in Keys, NEW id, SlotLapses(k, id) PROVE CountsOK'
  BY <1>1, <1>5 DEF SlotLapses, leases
\* Counters that are deleted.
<1>6. ASSUME NEW keys \in SUBSET Keys, DeleteWaits(keys), UNCHANGED <<pc, account>>,
             drifted \ keys \subseteq drifted',
             \A k \in keys \ drifted' : Counted(k) = {}
      PROVE CountsOK'
  <2>1. waiting' \in [Keys -> Nat]
    BY <1>6 DEF DeleteWaits, CountsOK
  <2>2. \A k \in Keys : Counted(k)' = Counted(k)
    BY <1>6 DEF Counted, Waits
  <2>3. \A k \in keys \ drifted' : waiting'[k] = 0 /\ Counted(k)' = {}
    BY <1>6, <2>2 DEF DeleteWaits
  <2>4. \A k \in Keys \ keys : waiting'[k] = waiting[k]
    BY <1>6 DEF DeleteWaits
  <2>5. IsFiniteSet({}) /\ Cardinality({}) = 0
    BY FS_EmptySet
  <2>6. ASSUME NEW k \in Keys \ drifted'
        PROVE  IsFiniteSet(Counted(k)') /\ waiting'[k] = Cardinality(Counted(k)')
    <3>1. CASE k \in keys
      BY <2>3, <2>5, <3>1
    <3>2. CASE k \notin keys
      BY <1>6, <2>2, <2>4, <3>2 DEF CountsOK
    <3>. QED
      BY <3>1, <3>2
  <2>. QED
    BY <2>1, <2>6 DEF CountsOK
<1>7. ASSUME NEW k \in Keys, WaitExpires(k) PROVE CountsOK'
  BY <1>6, <1>7 DEF WaitExpires, leases
<1>8. ASSUME NEW p \in Processes, CleanupStaleProcessSlots(p) PROVE CountsOK'
  <2>1. UNCHANGED <<pc, account>>
    BY <1>8 DEF CleanupStaleProcessSlots, leases
  <2>2. ASSUME NEW keys, CleanupSlots(p, keys) PROVE CountsOK'
    BY <1>1, <2>1, <2>2 DEF CleanupSlots
  <2>3. ASSUME NEW keys \in SUBSET Keys, CleanupWaits(keys) PROVE CountsOK'
    BY <1>6, <2>1, <2>3 DEF CleanupWaits
  <2>4. ASSUME UNCHANGED <<waiting, drifted>> PROVE CountsOK'
    BY <1>1, <2>1, <2>4
  <2>5. Accounts \in SUBSET Keys /\ {User} \in SUBSET Keys
    BY DEF Keys
  <2>. QED
    BY <1>8, <2>2, <2>3, <2>4, <2>5 DEF CleanupStaleProcessSlots
\* The queues of a crashed process drift.
<1>9. ASSUME NEW p \in Processes, Crash(p) PROVE CountsOK'
  <2>1. /\ UNCHANGED <<waiting, account>> /\ drifted \subseteq drifted'
        /\ \A r \in Requests \ Served(p) : pc'[r] = pc[r]
        /\ \A k \in Keys \ drifted' : Counted(k) \cap Served(p) = {}
        /\ \A r \in Served(p) : pc'[r] = "dead"
    BY <1>9 DEF Crash, leases, Served
  <2>2. ASSUME NEW k \in Keys \ drifted', NEW r \in Requests
        PROVE  Waits(r, k)' <=> Waits(r, k)
    <3>1. CASE r \in Served(p)
      BY <2>1, <2>2, <3>1 DEF Counted, Waits
    <3>2. CASE r \notin Served(p)
      BY <2>1, <3>2 DEF Waits
    <3>. QED
      BY <3>1, <3>2
  <2>. QED
    BY <2>1, <2>2, CountsKept
<1>10. ASSUME NEW p \in Processes, Start(p) PROVE CountsOK'
  BY <1>1, <1>10 DEF Start, leases, ghosts
<1>11. CASE UNCHANGED vars
  BY <1>1, <1>11 DEF vars, leases, ghosts
<1>. QED
  BY <1>2, <1>3, <1>4, <1>5, <1>7, <1>8, <1>9, <1>10, <1>11 DEF Next

LEMMA NobodyWaits == Init => CountsOK
<1>. SUFFICES ASSUME Init PROVE CountsOK
  OBVIOUS
<1>1. \A k \in Keys : Counted(k) = {} /\ waiting[k] = 0
  BY DEF Init, Counted, Waits
<1>2. IsFiniteSet({}) /\ Cardinality({}) = 0
  BY FS_EmptySet
<1>3. waiting \in [Keys -> Nat]
  BY DEF Init
<1>. QED
  BY <1>1, <1>2, <1>3 DEF CountsOK

\* A wait counter that no fault has falsified is the number of requests that wait
\* (CountersAreExact): every path out of a queue counts its request off, once.
THEOREM CountersKept == Spec => []CountersAreExact
<1>1. Init => HandlersTyped /\ CountsOK
  BY StartsEmpty, NobodyWaits
<1>2. HandlersTyped /\ CountsOK /\ [Next]_vars => HandlersTyped' /\ CountsOK'
  BY HandlersStep, CountsStep
<1>3. CountsOK => CountersAreExact
  BY DEF CountsOK, CountersAreExact
<1>. QED
  BY <1>1, <1>2, <1>3, PTL DEF Spec

-----------------------------------------------------------------------------
(***************************************************************************)
(* The slots in Redis.  One that belongs to no step of its request is a    *)
(* stray, and there are only as many as the faults have left behind.       *)
(***************************************************************************)

Belongs(id, k) == Uses(id[1], k) /\ Lease(id[1], k) = id

Strays == UNION {{<<k, id>> : id \in {i \in slots[k] : ~Belongs(i, k)}} : k \in Keys}

\* Every id in Redis is one of a request.
IdsOK == \A k \in Keys : \A id \in slots[k] : id[1] \in Requests /\ id = <<id[1], id[2]>>

StraysOK ==
    /\ IdsOK /\ leaks \in Nat
    /\ IsFiniteSet(Strays) /\ Cardinality(Strays) <= leaks

LEMMA StrayIs ==
  /\ \A k \in Keys : \A id \in slots[k] : Belongs(id, k) \/ <<k, id>> \in Strays
  /\ \A x \in Strays : \E k \in Keys : \E id \in slots[k] :
        x = <<k, id>> /\ ~Belongs(id, k)
  BY DEF Strays

LEMMA StrayIsThen ==
  /\ \A k \in Keys : \A id \in slots'[k] : Belongs(id, k)' \/ <<k, id>> \in Strays'
  /\ \A x \in Strays' : \E k \in Keys : \E id \in slots'[k] :
        x = <<k, id>> /\ ~Belongs(id, k)'
  BY DEF Strays, Belongs, Uses, Lease, IdOn

LEMMA NoMoreStrays ==
  ASSUME StraysOK, IdsOK', leaks' \in Nat, leaks <= leaks', Strays' \subseteq Strays
  PROVE  StraysOK'
<1>1. IsFiniteSet(Strays) /\ Cardinality(Strays) <= leaks /\ leaks \in Nat
  BY DEF StraysOK
<1>2. PICK T : T = Strays'
  OBVIOUS
<1>3. IsFiniteSet(T) /\ Cardinality(T) <= Cardinality(Strays)
  BY <1>1, <1>2, FS_Subset
<1>4. Cardinality(T) \in Nat /\ Cardinality(Strays) \in Nat
  BY <1>1, <1>3, FS_CardinalityType
<1>5. Cardinality(T) <= leaks'
  BY <1>1, <1>3, <1>4
<1>. QED
  BY <1>2, <1>3, <1>5 DEF StraysOK

LEMMA MoreStrays ==
  ASSUME StraysOK, IdsOK', NEW X, IsFiniteSet(X), leaks' = leaks + Cardinality(X),
         Strays' \subseteq Strays \cup X
  PROVE  StraysOK'
<1>1. IsFiniteSet(Strays) /\ Cardinality(Strays) <= leaks /\ leaks \in Nat
  BY DEF StraysOK
<1>2. PICK T : T = Strays'
  OBVIOUS
<1>3. /\ IsFiniteSet(Strays \cup X) /\ IsFiniteSet(Strays \cap X)
      /\ Cardinality(Strays \cup X) =
            Cardinality(Strays) + Cardinality(X) - Cardinality(Strays \cap X)
  BY <1>1, FS_Union, FS_Intersection
<1>4. IsFiniteSet(T) /\ Cardinality(T) <= Cardinality(Strays \cup X)
  BY <1>2, <1>3, FS_Subset
<1>5. /\ Cardinality(T) \in Nat /\ Cardinality(Strays) \in Nat /\ Cardinality(X) \in Nat
      /\ Cardinality(Strays \cap X) \in Nat /\ Cardinality(Strays \cup X) \in Nat
  BY <1>1, <1>3, <1>4, FS_CardinalityType
<1>6. Cardinality(T) <= leaks' /\ leaks' \in Nat
  BY <1>1, <1>3, <1>4, <1>5
<1>. QED
  BY <1>2, <1>4, <1>6 DEF StraysOK

LEMMA OneMoreStray ==
  ASSUME StraysOK, IdsOK', NEW x, leaks' = leaks + 1, Strays' \subseteq Strays \cup {x}
  PROVE  StraysOK'
<1>1. IsFiniteSet({x}) /\ Cardinality({x}) = 1
  BY FS_Singleton
<1>. QED
  BY <1>1, MoreStrays

\* What r uses and holds on k, it still does.
KeepsOn(r, k) == Uses(r, k) => Uses(r, k)' /\ IdOn(r, k)' = IdOn(r, k)

\* A step of r leaves at most one slot behind, its own, and counts it.
StrayStep(r) ==
    \/ UNCHANGED leaks /\ Strays' \subseteq Strays
    \/ /\ leaks' = leaks + 1
       /\ \E k \in Keys : \E n : Strays' \subseteq Strays \cup {<<k, <<r, n>>>>}

LEMMA StrayStepOK ==
  ASSUME StraysOK, IdsOK', NEW r \in Requests, StrayStep(r)
  PROVE  StraysOK'
<1>1. leaks \in Nat
  BY DEF StraysOK
<1>2. CASE UNCHANGED leaks /\ Strays' \subseteq Strays
  BY <1>1, <1>2, NoMoreStrays
<1>3. CASE /\ leaks' = leaks + 1
           /\ \E k \in Keys : \E n : Strays' \subseteq Strays \cup {<<k, <<r, n>>>>}
  BY <1>3, OneMoreStray
<1>. QED
  BY <1>2, <1>3 DEF StrayStep

\* The strays after a step of one request: others have no more than before.
LEMMA StraysOfOne ==
  ASSUME IdsOK, NEW r \in Requests, Moves(r), NEW X,
         \A k \in Keys : \A id \in slots'[k] : id[1] \in Requests,
         \A k \in Keys : \A id \in slots'[k] : id[1] # r => id \in slots[k],
         \A k \in Keys : \A id \in slots'[k] :
            id[1] = r /\ ~Belongs(id, k)' =>
                <<k, id>> \in X \/ (id \in slots[k] /\ ~Belongs(id, k))
  PROVE  Strays' \subseteq Strays \cup X
<1>. SUFFICES ASSUME NEW k \in Keys, NEW id \in slots'[k], ~Belongs(id, k)'
              PROVE  <<k, id>> \in Strays \cup X
  BY StrayIsThen
<1>1. CASE id[1] = r
  BY <1>1, StrayIs
<1>2. CASE id[1] # r
  <2>1. id \in slots[k] /\ id[1] \in Requests \ {r}
    BY <1>2
  <2>2. Uses(id[1], k)' = Uses(id[1], k) /\ Lease(id[1], k)' = Lease(id[1], k)
    BY <2>1 DEF Moves, Uses, Lease, IdOn
  <2>3. ~Belongs(id, k)
    BY <2>2 DEF Belongs
  <2>. QED
    BY <2>1, <2>3, StrayIs
<1>. QED
  BY <1>1, <1>2

\* A step that neither takes nor gives back a slot, and forgets none.
LEMMA StraysKept ==
  ASSUME StraysOK, NEW r \in Requests, Moves(r), UNCHANGED <<slots, leaks>>,
         \A k \in Keys : KeepsOn(r, k)
  PROVE  IdsOK' /\ StrayStep(r)
<1>1. IdsOK /\ IdsOK' /\ leaks \in Nat
  BY DEF StraysOK, IdsOK
<1>2. ASSUME NEW k \in Keys, NEW id \in slots'[k], id[1] = r, ~Belongs(id, k)'
      PROVE  id \in slots[k] /\ ~Belongs(id, k)
  BY <1>2 DEF Belongs, KeepsOn, Lease
<1>3. Strays' \subseteq Strays \cup {}
  BY <1>1, <1>2, StraysOfOne DEF IdsOK
<1>. QED
  BY <1>1, <1>3 DEF StrayStep

\* A slot is taken, and used from now on.
LEMMA StraysTaken ==
  ASSUME SlotsOK, StraysOK, NEW r \in Requests, Moves(r), NEW k \in Keys, NEW n,
         Acquire(k, <<r, n>>), Uses(r, k)' /\ IdOn(r, k)' = n, ~Uses(r, k),
         \A l \in Keys \ {k} : KeepsOn(r, l), UNCHANGED leaks
  PROVE  IdsOK' /\ StrayStep(r)
<1>1. /\ slots'[k] = slots[k] \cup {<<r, n>>}
      /\ \A l \in Keys \ {k} : slots'[l] = slots[l]
  BY DEF SlotsOK, Acquire
<1>2. IdsOK /\ IdsOK' /\ leaks \in Nat
  BY <1>1 DEF StraysOK, IdsOK
<1>3. ASSUME NEW l \in Keys, NEW id \in slots'[l], id[1] = r, ~Belongs(id, l)'
      PROVE  id \in slots[l] /\ ~Belongs(id, l)
  <2>1. CASE l = k
    <3>1. id # <<r, n>>
      BY <1>3, <2>1 DEF Belongs, Lease
    <3>. QED
      BY <1>1, <1>3, <2>1, <3>1 DEF Belongs
  <2>2. CASE l # k
    BY <1>1, <1>3, <2>2 DEF Belongs, KeepsOn, Lease
  <2>. QED
    BY <2>1, <2>2
<1>4. \A l \in Keys : \A id \in slots'[l] : id[1] # r => id \in slots[l]
  BY <1>1
<1>5. Strays' \subseteq Strays \cup {}
  BY <1>2, <1>3, <1>4, StraysOfOne DEF IdsOK
<1>. QED
  BY <1>2, <1>5 DEF StrayStep

\* A slot is taken, and the reply is lost.
LEMMA StraysLost ==
  ASSUME SlotsOK, StraysOK, NEW r \in Requests, Moves(r), NEW k \in Keys, NEW n,
         Acquire(k, <<r, n>>), \A l \in Keys : KeepsOn(r, l), leaks' = leaks + 1
  PROVE  IdsOK' /\ StrayStep(r)
<1>1. /\ slots'[k] = slots[k] \cup {<<r, n>>}
      /\ \A l \in Keys \ {k} : slots'[l] = slots[l]
  BY DEF SlotsOK, Acquire
<1>2. IdsOK /\ IdsOK'
  BY <1>1 DEF StraysOK, IdsOK
<1>3. PICK x : x = <<k, <<r, n>>>>
  OBVIOUS
<1>4. ASSUME NEW l \in Keys, NEW id \in slots'[l], id[1] = r, ~Belongs(id, l)'
      PROVE  <<l, id>> \in {x} \/ (id \in slots[l] /\ ~Belongs(id, l))
  BY <1>1, <1>3, <1>4 DEF Belongs, KeepsOn, Lease
<1>5. \A l \in Keys : \A id \in slots'[l] : id[1] # r => id \in slots[l]
  BY <1>1
<1>6. Strays' \subseteq Strays \cup {x}
  BY <1>2, <1>4, <1>5, StraysOfOne DEF IdsOK
<1>. QED
  BY <1>2, <1>3, <1>6 DEF StrayStep

\* A slot is given up: it is gone from Redis, or a fault accounts for it.
LEMMA StraysGivenUp ==
  ASSUME SlotsOK, StraysOK, NEW r \in Requests, Moves(r), NEW k \in Keys,
         \A l \in Keys \ {k} : KeepsOn(r, l),
         \/ UNCHANGED leaks /\ (ReleaseSlot(k, Lease(r, k))
                                \/ (UNCHANGED slots /\ Lease(r, k) \notin slots[k]))
         \/ UNCHANGED slots /\ leaks' = leaks + 1
  PROVE  IdsOK' /\ StrayStep(r)
<1>1. \A l \in Keys : slots'[l] \subseteq slots[l]
  BY ReleaseOK
<1>2. IdsOK /\ IdsOK' /\ leaks \in Nat
  BY <1>1 DEF StraysOK, IdsOK
<1>3. PICK x : x = <<k, Lease(r, k)>>
  OBVIOUS
<1>4. ASSUME NEW l \in Keys, NEW id \in slots'[l], id[1] = r, ~Belongs(id, l)'
      PROVE  (l = k /\ id = Lease(r, k)) \/ (id \in slots[l] /\ ~Belongs(id, l))
  BY <1>1, <1>4 DEF Belongs, KeepsOn, Lease
<1>5. CASE UNCHANGED leaks /\ Lease(r, k) \notin slots'[k]
  <2>1. Strays' \subseteq Strays \cup {}
    BY <1>1, <1>2, <1>4, <1>5, StraysOfOne DEF IdsOK
  <2>. QED
    BY <1>2, <1>5, <2>1 DEF StrayStep
<1>6. CASE leaks' = leaks + 1
  <2>1. \A l \in Keys : \A id \in slots'[l] :
           id[1] = r /\ ~Belongs(id, l)' =>
                <<l, id>> \in {x} \/ (id \in slots[l] /\ ~Belongs(id, l))
    BY <1>3, <1>4
  <2>2. Strays' \subseteq Strays \cup {x}
    BY <1>1, <1>2, <2>1, StraysOfOne DEF IdsOK
  <2>. QED
    BY <1>2, <1>3, <1>6, <2>2 DEF StrayStep, Lease
<1>7. ReleaseSlot(k, Lease(r, k)) => Lease(r, k) \notin slots'[k]
  BY ReleaseOK
<1>. QED
  BY <1>5, <1>6, <1>7

LEMMA KeepsAll ==
  ASSUME NEW r \in Requests, userSlot'[r] = userSlot[r],
         pc[r] \in UserSteps => pc'[r] \in UserSteps,
         pc[r] \in AccountSteps => /\ pc'[r] \in AccountSteps
                                  /\ account'[r] = account[r] /\ slot'[r] = slot[r]
  PROVE  \A k \in Keys : KeepsOn(r, k)
<1>1. KeepsOn(r, User)
  BY UsesBy DEF KeepsOn, IdOn
<1>2. ASSUME NEW k \in Accounts PROVE KeepsOn(r, k)
  BY UsesBy, GatewayAssumption DEF KeepsOn, IdOn
<1>. QED
  BY <1>1, <1>2 DEF Keys

\* After a call, or when the selected account is not used.
LEMMA StraysDropped ==
  ASSUME HandlersTyped, SlotsOK, StraysOK, NEW r \in Requests, Moves(r), pc[r] \in OnAccount,
         Dropped(r), pc'[r] \in UserSteps,
         \/ UNCHANGED leaks /\ (ReleaseSlot(account[r], Lease(r, account[r]))
                \/ (UNCHANGED slots /\ Lease(r, account[r]) \notin slots[account[r]]))
         \/ UNCHANGED slots /\ leaks' = leaks + 1
  PROVE  IdsOK' /\ StrayStep(r)
<1>1. account[r] \in Keys /\ account[r] # User
  BY KeysOfRequests
<1>2. KeepsOn(r, User)
  BY UsesBy DEF KeepsOn, IdOn, Dropped
<1>3. \A k \in Accounts \ {account[r]} : KeepsOn(r, k)
  BY UsesBy DEF KeepsOn
<1>4. \A k \in Keys \ {account[r]} : KeepsOn(r, k)
  BY <1>2, <1>3 DEF Keys
<1>5. PICK a \in Keys : a = account[r]
  BY <1>1
<1>. QED
  BY <1>4, <1>5, StraysGivenUp

LEMMA HandlerStrays ==
  ASSUME HandlersTyped, SlotsOK, StraysOK, NEW r \in Requests,
         Handler(r) \/ \E p \in Processes : Arrive(r, p)
  PROVE  IdsOK' /\ StrayStep(r)
<1>. USE DEF UserSteps, AccountSteps
<1>1. Moves(r) /\ HandlersTyped'
  BY HandlerMoves
<1>2. User \in Keys /\ Accounts \subseteq Keys
  BY DEF Keys
<1>3. \A step \in Steps : Goto(r, step) => pc'[r] = step
  BY GotoStep
<1>4. ASSUME UNCHANGED <<slots, leaks>>, userSlot'[r] = userSlot[r],
             pc[r] \in UserSteps => pc'[r] \in UserSteps,
             pc[r] \in AccountSteps => /\ pc'[r] \in AccountSteps
                                      /\ account'[r] = account[r] /\ slot'[r] = slot[r]
      PROVE  IdsOK' /\ StrayStep(r)
  BY <1>1, <1>4, KeepsAll, StraysKept
<1>5. ASSUME NEW p \in Processes, Arrive(r, p) PROVE IdsOK' /\ StrayStep(r)
  <2>1. UNCHANGED <<slots, leaks, leases>> /\ pc[r] = "new"
    BY <1>5 DEF Arrive, Faultless, Drift
  <2>. QED
    BY <2>1, <1>4 DEF leases
<1>6. CASE AcquireUserSlot(r)
  <2>1. pc[r] = "user" /\ UNCHANGED <<account, slot>>
    BY <1>6 DEF AcquireUserSlot
  <2>2. \A k \in Keys : ~Uses(r, k)
    BY <2>1, UsesBy DEF Keys
  <2>3. PICK n : n = Fresh(r)
    OBVIOUS
  <2>4. CASE /\ Acquire(User, <<r, Fresh(r)>>) /\ Goto(r, "admitted") /\ Faultless
             /\ userSlot' = [userSlot EXCEPT ![r] = Fresh(r)]
    <3>1. pc'[r] = "admitted" /\ userSlot'[r] = n /\ UNCHANGED leaks
      BY <1>3, <2>3, <2>4 DEF Steps, Faultless, HandlersTyped
    <3>2. Uses(r, User)' /\ IdOn(r, User)' = n
      BY <3>1, UsesBy DEF IdOn
    <3>. QED
      BY <1>1, <1>2, <2>2, <2>3, <2>4, <3>1, <3>2, StraysTaken DEF KeepsOn
  <2>5. CASE Acquire(User, <<r, Fresh(r)>>) /\ Leak
    BY <1>1, <1>2, <2>2, <2>3, <2>5, StraysLost DEF KeepsOn, Leak
  <2>6. CASE UNCHANGED <<slots, userSlot, leaks>>
    BY <1>4, <2>1, <2>6
  <2>. QED
    BY <1>6, <2>4, <2>5, <2>6 DEF AcquireUserSlot
<1>7. CASE UserWaitEnds(r) \/ LeaveUserQueue(r) \/ NotEligible(r) \/ AccountWaitEnds(r)
  <2>1. UNCHANGED <<slots, leaks, leases>>
    BY <1>7 DEF UserWaitEnds, LeaveUserQueue, NotEligible, AccountWaitEnds, Uncount,
                Faultless, Drift, ghosts
  <2>2. \/ pc[r] \in {"user", "leave"}
        \/ pc[r] = "admitted" /\ pc'[r] = "select"
        \/ pc[r] = "select" /\ pc'[r] = "finish"
        \/ pc[r] = "await" /\ pc'[r] = "quit"
    BY <1>3, <1>7 DEF UserWaitEnds, LeaveUserQueue, NotEligible, AccountWaitEnds, Steps
  <2>. QED
    BY <1>4, <2>1, <2>2 DEF leases
<1>8. ASSUME NEW a \in Accounts, TryAcquire(r, a) PROVE IdsOK' /\ StrayStep(r)
  <2>1. pc[r] = "select" /\ Acquire(a, <<r, Fresh(r)>>) /\ UNCHANGED userSlot
    BY <1>8 DEF TryAcquire
  <2>2. PICK n : n = Fresh(r)
    OBVIOUS
  <2>3. CASE UNCHANGED <<pc, account, slot>> /\ Leak
    <3>1. \A k \in Keys : KeepsOn(r, k)
      BY <2>1, <2>3, KeepsAll
    <3>. QED
      BY <1>1, <1>2, <2>1, <2>2, <2>3, <3>1, StraysLost DEF Leak
  <2>4. CASE /\ account' = [account EXCEPT ![r] = a] /\ Goto(r, "picked")
             /\ slot' = [slot EXCEPT ![r] = Fresh(r)] /\ Faultless
    <3>1. /\ pc'[r] = "picked" /\ account'[r] = a /\ slot'[r] = n /\ UNCHANGED leaks
      BY <1>3, <2>2, <2>4 DEF Steps, Faultless, HandlersTyped
    <3>2. Uses(r, a)' /\ IdOn(r, a)' = n /\ ~Uses(r, a)
      BY <2>1, <3>1, UsesBy, GatewayAssumption DEF IdOn
    <3>3. \A k \in Keys : KeepsOn(r, k)
      BY <2>1, <3>1, KeepsAll
    <3>. QED
      BY <1>1, <1>2, <2>1, <2>2, <3>1, <3>2, <3>3, StraysTaken
  <2>. QED
    BY <1>8, <2>3, <2>4 DEF TryAcquire
<1>9. ASSUME NEW a \in Accounts, PlanWait(r, a) PROVE IdsOK' /\ StrayStep(r)
  <2>1. UNCHANGED <<slots, leaks, userSlot>> /\ pc[r] = "select" /\ pc'[r] = "queue"
    BY <1>3, <1>9 DEF PlanWait, Steps, ghosts
  <2>. QED
    BY <1>4, <2>1
<1>10. CASE Hydrated(r) \/ NotUsed(r) \/ NoneAvailable(r) \/ UpstreamAnswers(r)
  <2>1. UNCHANGED <<slots, leaks, leases>>
    BY <1>10 DEF Hydrated, NotUsed, NoneAvailable, UpstreamAnswers, ghosts
  <2>2. \/ pc[r] = "picked" /\ pc'[r] \in {"call", "refused"}
        \/ pc[r] = "select" /\ pc'[r] \in {"select", "finish"}
        \/ pc[r] = "call" /\ pc'[r] = "answered"
    BY <1>3, <1>10 DEF Hydrated, NotUsed, NoneAvailable, UpstreamAnswers, SelectionFailed,
                       Begin, Steps
  <2>. QED
    BY <1>4, <2>1, <2>2 DEF leases
<1>11. CASE GiveBack(r) \/ EndCall(r)
  <2>1. Dropped(r) /\ Released(r, account[r]) /\ pc[r] \in OnAccount
    BY <1>11 DEF GiveBack, EndCall, OnAccount
  <2>2. pc'[r] \in UserSteps
    BY <1>3, <1>11 DEF GiveBack, EndCall, Steps
  <2>. QED
    BY <1>1, <2>1, <2>2, StraysDropped DEF Released, Leak, Faultless
<1>12. CASE NotHydrated(r)
  <2>1. /\ Dropped(r) /\ UNCHANGED slots /\ pc[r] \in OnAccount
        /\ leaks' = leaks + (IF Lease(r, account[r]) \in slots[account[r]] THEN 1 ELSE 0)
    BY <1>12 DEF NotHydrated, OnAccount
  <2>2. pc'[r] \in UserSteps
    BY <1>3, <1>12 DEF NotHydrated, SelectionFailed, Steps
  <2>3. leaks \in Nat
    BY DEF StraysOK
  <2>. QED
    BY <1>1, <2>1, <2>2, <2>3, StraysDropped
<1>13. CASE QueueForAccount(r)
  <2>1. /\ UNCHANGED <<slots, leaks, userSlot>>
        /\ pc[r] = "queue" /\ pc'[r] \in {"await", "finish"}
    BY <1>3, <1>13 DEF QueueForAccount, Faultless, Drift, Steps
  <2>. QED
    BY <1>4, <2>1
<1>14. CASE AcquireAccountSlot(r)
  <2>1. pc[r] = "await" /\ UNCHANGED <<account, userSlot>>
    BY <1>14 DEF AcquireAccountSlot
  <2>2. PICK a \in Accounts : a = account[r]
    BY <2>1 DEF HandlersTyped, OnAccount
  <2>3. PICK n : n = Fresh(r)
    OBVIOUS
  <2>4. a \in Keys
    BY <1>2
  <2>5. CASE /\ Acquire(account[r], <<r, Fresh(r)>>) /\ Goto(r, "granted") /\ Faultless
             /\ slot' = [slot EXCEPT ![r] = Fresh(r)]
    <3>1. pc'[r] = "granted" /\ account'[r] = a /\ slot'[r] = n /\ UNCHANGED leaks
      BY <1>3, <2>1, <2>2, <2>3, <2>5 DEF Steps, Faultless, HandlersTyped
    <3>2. Uses(r, a)' /\ IdOn(r, a)' = n /\ ~Uses(r, a)
      BY <2>1, <3>1, UsesBy, GatewayAssumption DEF IdOn
    <3>3. \A k \in Keys : KeepsOn(r, k)
      BY <2>1, <3>1, KeepsAll
    <3>. QED
      BY <1>1, <2>2, <2>3, <2>4, <2>5, <3>1, <3>2, <3>3, StraysTaken
  <2>6. CASE Acquire(account[r], <<r, Fresh(r)>>) /\ Goto(r, "quit") /\ Leak
    <3>1. pc'[r] = "quit"
      BY <1>3, <2>6 DEF Steps
    <3>2. \A k \in Keys : KeepsOn(r, k)
      BY <2>1, <3>1, KeepsAll
    <3>. QED
      BY <1>1, <2>2, <2>3, <2>4, <2>6, <3>2, StraysLost DEF Leak
  <2>7. CASE UNCHANGED <<slots, slot, leaks>> /\ Goto(r, "quit")
    <3>1. pc'[r] = "quit"
      BY <1>3, <2>7 DEF Steps
    <3>. QED
      BY <1>4, <2>1, <2>7, <3>1
  <2>. QED
    BY <1>14, <2>5, <2>6, <2>7 DEF AcquireAccountSlot
<1>15. CASE LeaveAccountQueue(r)
  <2>1. UNCHANGED <<slots, leaks, userSlot, slot>>
    BY <1>15 DEF LeaveAccountQueue, Uncount, Faultless, Drift
  <2>2. \/ pc[r] = "quit" /\ pc'[r] = "finish"
        \/ pc[r] = "granted" /\ pc'[r] = "call" /\ UNCHANGED account
    BY <1>3, <1>15 DEF LeaveAccountQueue, Begin, Steps
  <2>. QED
    BY <1>4, <2>1, <2>2
<1>16. CASE Finish(r)
  <2>1. pc[r] = "finish" /\ Released(r, User)
    BY <1>16 DEF Finish
  <2>2. \A k \in Keys \ {User} : KeepsOn(r, k)
    BY <2>1, UsesBy DEF KeepsOn, Keys
  <2>. QED
    BY <1>1, <1>2, <2>1, <2>2, StraysGivenUp DEF Released, Leak, Faultless
<1>. QED
  BY <1>5, <1>6, <1>7, <1>8, <1>9, <1>10, <1>11, <1>12, <1>13, <1>14, <1>15, <1>16 DEF Handler

LEMMA CallbackStrays ==
  ASSUME HandlersTyped, SlotsOK, StraysOK, NEW r \in Requests, NEW k \in Keys,
         ReleaseOnDone(r, k)
  PROVE  IdsOK' /\ StrayStep(r)
<1>1. UNCHANGED <<pc, account>> /\ Released(r, k)
  BY DEF ReleaseOnDone
<1>2. /\ \A q \in Requests \ {r} : userSlot'[q] = userSlot[q] /\ slot'[q] = slot[q]
      /\ k = User => slot' = slot
      /\ k # User => userSlot' = userSlot /\ Uses(r, k)
  BY DEF ReleaseOnDone, HandlersTyped, Wrapped
<1>3. Moves(r)
  BY <1>1, <1>2 DEF Moves
<1>4. \A l \in Keys \ {k} : KeepsOn(r, l)
  BY <1>1, <1>2 DEF KeepsOn, Uses, IdOn
<1>. QED
  BY <1>1, <1>3, <1>4, StraysGivenUp DEF Released, Leak, Faultless

\* The slots a crash leaves behind are counted among the leaks.
LEMMA CrashStrays ==
  ASSUME SlotsOK, StraysOK, NEW p \in Processes, Crash(p)
  PROVE  StraysOK'
<1>. DEFINE held == {l \in Served(p) \X Keys : Lease(l[1], l[2]) \in slots[l[2]]}
            place == [l \in held |-> <<l[2], Lease(l[1], l[2])>>]
            onKey == [k \in Keys |-> {k} \X slots[k]]
            sets == {onKey[k] : k \in Keys}
            left == {place[l] : l \in held}
<1>1. /\ UNCHANGED <<slots, leases>> /\ leaks' = leaks + Cardinality(held)
      /\ \A r \in Requests \ Served(p) : pc'[r] = pc[r]
  BY DEF Crash, leases
<1>2. IsFiniteSet(Keys)
  BY FailoverAssumption, FS_AddElement DEF Keys
<1>3. IsFiniteSet(UNION sets)
  <2>1. onKey \in Surjection(Keys, sets)
    BY DEF Surjection
  <2>2. \A k \in Keys : IsFiniteSet(onKey[k])
    <3>. SUFFICES ASSUME NEW k \in Keys PROVE IsFiniteSet({k} \X slots[k])
      OBVIOUS
    <3>1. IsFiniteSet({k}) /\ IsFiniteSet(slots[k])
      BY FS_Singleton DEF SlotsOK
    <3>. QED
      BY <3>1, FS_Product
  <2>3. \A T \in sets : IsFiniteSet(T)
    BY <2>2
  <2>. HIDE DEF sets, onKey
  <2>4. IsFiniteSet(sets)
    BY <1>2, <2>1, FS_Surjection
  <2>. QED
    BY <2>3, <2>4, FS_UNION
<1>4. place \in Injection(held, UNION sets)
  <2>1. \A l \in held : place[l] \in UNION sets
    <3>. SUFFICES ASSUME NEW l \in held PROVE place[l] \in UNION sets
      OBVIOUS
    <3>1. l[2] \in Keys /\ Lease(l[1], l[2]) \in slots[l[2]]
      OBVIOUS
    <3>2. place[l] \in onKey[l[2]]
      BY <3>1
    <3>. QED
      BY <3>1, <3>2
  <2>2. \A l, m \in held : place[l] = place[m] => l = m
    BY DEF Lease
  <2>. QED
    BY <2>1, <2>2 DEF Injection, IsInjective
<1>5. place \in Surjection(held, left)
  BY DEF Surjection
<1>6. place \in Injection(held, left)
  BY <1>4 DEF Injection, IsInjective
<1>. HIDE DEF held, place, sets
<1>7. IsFiniteSet(held)
  BY <1>3, <1>4, FS_Injection
<1>8. IsFiniteSet(left) /\ Cardinality(left) = Cardinality(held)
  <2>. HIDE DEF left
  <2>. QED
    BY <1>5, <1>6, <1>7, FS_Surjection
<1>9. Strays' \subseteq Strays \cup left
  <2>. SUFFICES ASSUME NEW k \in Keys, NEW id \in slots'[k], ~Belongs(id, k)'
                PROVE  <<k, id>> \in Strays \cup left
    BY StrayIsThen
  <2>1. id \in slots[k] /\ id[1] \in Requests
    BY <1>1 DEF StraysOK, IdsOK
  <2>2. CASE ~Belongs(id, k)
    BY <2>1, <2>2, StrayIs
  <2>3. CASE Belongs(id, k)
    <3>1. id[1] \in Served(p)
      BY <1>1, <2>1, <2>3 DEF Belongs, Uses, Lease, IdOn, leases
    <3>2. PICK l : l = <<id[1], k>>
      OBVIOUS
    <3>3. l \in held /\ place[l] = <<k, id>>
      BY <2>1, <2>3, <3>1, <3>2 DEF held, place, Belongs
    <3>. QED
      BY <3>3
  <2>. QED
    BY <2>2, <2>3
<1>10. IdsOK'
  BY <1>1 DEF StraysOK, IdsOK
<1>11. leaks' = leaks + Cardinality(left)
  BY <1>1, <1>8 DEF held
<1>. HIDE DEF left
<1>. QED
  BY <1>8, <1>9, <1>10, <1>11, MoreStrays

LEMMA StraysStep ==
  ASSUME HandlersTyped, SlotsOK, StraysOK, [Next]_vars
  PROVE  StraysOK'
\* Slots only go away.
<1>1. ASSUME UNCHANGED <<pc, leases, leaks>>, \A k \in Keys : slots'[k] \subseteq slots[k]
      PROVE  StraysOK'
  <2>1. IdsOK' /\ leaks \in Nat
    BY <1>1 DEF StraysOK, IdsOK
  <2>2. ASSUME NEW k \in Keys, NEW id \in slots'[k], ~Belongs(id, k)'
        PROVE  id \in slots[k] /\ ~Belongs(id, k)
    BY <1>1, <2>2 DEF Belongs, Uses, Lease, IdOn, leases
  <2>3. Strays' \subseteq Strays
    BY <2>2, StrayIs, StrayIsThen
  <2>. QED
    BY <1>1, <2>1, <2>3, NoMoreStrays
<1>2. ASSUME NEW r \in Requests, Handler(r) \/ \E p \in Processes : Arrive(r, p)
      PROVE StraysOK'
  BY <1>2, HandlerStrays, StrayStepOK
<1>3. ASSUME NEW r \in Requests, NEW k \in Keys, ReleaseOnDone(r, k) PROVE StraysOK'
  BY <1>3, CallbackStrays, StrayStepOK
<1>4. ASSUME NEW r \in Requests, Disconnect(r) PROVE StraysOK'
  BY <1>1, <1>4 DEF Disconnect, ghosts
<1>5. ASSUME NEW k \in Keys, NEW id, SlotLapses(k, id) PROVE StraysOK'
  BY <1>1, <1>5, ReleaseOK DEF SlotLapses
<1>6. ASSUME NEW k \in Keys, WaitExpires(k) PROVE StraysOK'
  BY <1>1, <1>6 DEF WaitExpires
<1>7. ASSUME NEW p \in Processes, Crash(p) PROVE StraysOK'
  BY <1>7, CrashStrays
<1>8. ASSUME NEW p \in Processes, Start(p) PROVE StraysOK'
  BY <1>1, <1>8 DEF Start, ghosts
<1>9. ASSUME NEW p \in Processes, CleanupStaleProcessSlots(p) PROVE StraysOK'
  <2>1. UNCHANGED <<pc, leases, leaks>>
    BY <1>9 DEF CleanupStaleProcessSlots
  <2>2. \A k \in Keys : slots'[k] \subseteq slots[k]
    BY <1>9 DEF CleanupStaleProcessSlots, CleanupSlots, CleanupWaits, RemoveForeign
  <2>. QED
    BY <1>1, <2>1, <2>2
<1>10. CASE UNCHANGED vars
  BY <1>1, <1>10 DEF vars, ghosts
<1>. QED
  BY <1>2, <1>3, <1>4, <1>5, <1>6, <1>7, <1>8, <1>9, <1>10 DEF Next

LEMMA NothingLeft == Init => StraysOK
<1>. SUFFICES ASSUME Init PROVE StraysOK
  OBVIOUS
<1>1. Strays = {} /\ leaks = 0 /\ IdsOK
  BY DEF Init, Strays, IdsOK
<1>2. IsFiniteSet({}) /\ Cardinality({}) = 0
  BY FS_EmptySet
<1>. QED
  BY <1>1, <1>2 DEF StraysOK

\* No path through selection, queue, call, failover and the release callbacks forgets a
\* slot or holds two accounts at once (NoSlotForgotten): what no request uses was left
\* behind by a fault.
THEOREM SlotsRemembered == Spec => []NoSlotForgotten
<1>1. Init => HandlersTyped /\ SlotsOK /\ StraysOK
  BY StartsEmpty, NothingLeft
<1>2. HandlersTyped /\ SlotsOK /\ StraysOK /\ [Next]_vars
        => HandlersTyped' /\ SlotsOK' /\ StraysOK'
  BY HandlersStep, SlotsStep, StraysStep
<1>3. StraysOK => NoSlotForgotten
  BY DEF StraysOK, Strays, Belongs, NoSlotForgotten
<1>. QED
  BY <1>1, <1>2, <1>3, PTL DEF Spec

-----------------------------------------------------------------------------
(***************************************************************************)
(* The attempts.  Each one but the running one was paid for: it ended with *)
(* a switch, or with a retry on one account.                               *)
(***************************************************************************)

\* Where the last upstream call has not led to another selection.
Calling == {"call", "answered", "finish", "dead"}

\* The retries of r on each account, as numbered from 1.
Spent(r) ==
    {x \in Accounts \X (1 .. MaxSameAccountRetries) : x[2] <= retries[r][x[1]]}

Paid(r) ==
    attempts[r] <= switches[r] + Cardinality(Spent(r)) + (IF pc[r] \in Calling THEN 1 ELSE 0)

CountersTyped ==
    /\ attempts \in [Requests -> Nat]
    /\ retries  \in [Requests -> [Accounts -> 0 .. MaxSameAccountRetries]]
    /\ switches \in [Requests -> 0 .. MaxSwitches]

AttemptsOK == CountersTyped /\ \A r \in Requests : Paid(r)

LEMMA SpentBounded ==
  ASSUME CountersTyped, NEW r \in Requests
  PROVE  /\ IsFiniteSet(Spent(r))
         /\ Cardinality(Spent(r)) \in Nat
         /\ Cardinality(Spent(r)) <= MaxSameAccountRetries * Cardinality(Accounts)
<1>. DEFINE Slot == 1 .. MaxSameAccountRetries
<1>1. /\ IsFiniteSet(Accounts) /\ MaxSameAccountRetries \in Nat
      /\ Cardinality(Accounts) \in Nat
  BY FailoverAssumption, FS_CardinalityType
<1>2. IsFiniteSet(Slot) /\ Cardinality(Slot) = MaxSameAccountRetries
  <2>1. /\ IsFiniteSet(Slot)
        /\ Cardinality(Slot) =
             IF 1 > MaxSameAccountRetries THEN 0 ELSE MaxSameAccountRetries - 1 + 1
    BY <1>1, FS_Interval
  <2>. QED
    BY <1>1, <2>1
<1>3. /\ IsFiniteSet(Accounts \X Slot)
      /\ Cardinality(Accounts \X Slot) = Cardinality(Accounts) * MaxSameAccountRetries
  <2>. HIDE DEF Slot
  <2>. QED
    BY <1>1, <1>2, FS_Product
<1>4. Spent(r) \subseteq Accounts \X Slot
  BY DEF Spent
<1>5. IsFiniteSet(Spent(r)) /\ Cardinality(Spent(r)) <= Cardinality(Accounts \X Slot)
  <2>. HIDE DEF Slot
  <2>. QED
    BY <1>3, <1>4, FS_Subset
<1>6. Cardinality(Spent(r)) \in Nat
  BY <1>5, FS_CardinalityType
<1>7. Cardinality(Accounts) * MaxSameAccountRetries = MaxSameAccountRetries * Cardinality(Accounts)
  BY <1>1
<1>. QED
  BY <1>3, <1>5, <1>6, <1>7

\* A step that leaves the counts of r alone, and ends no call of it.
LEMMA PaidKept ==
  ASSUME NEW r \in Requests, CountersTyped, Paid(r),
         attempts'[r] = attempts[r], retries'[r] = retries[r], switches'[r] = switches[r],
         pc[r] \in Calling => pc'[r] \in Calling
  PROVE  Paid(r)'
<1>1. Spent(r)' = Spent(r)
  BY DEF Spent
<1>2. PICK n : n = Cardinality(Spent(r))
  OBVIOUS
<1>3. n \in Nat
  BY <1>2, SpentBounded
<1>4. attempts[r] \in Nat /\ switches[r] \in Nat
  BY FailoverAssumption DEF CountersTyped
<1>. QED
  BY <1>1, <1>2, <1>3, <1>4 DEF Paid

LEMMA CountsLeft ==
  ASSUME AttemptsOK, UNCHANGED <<attempts, retries, switches>>,
         \A r \in Requests : pc[r] \in Calling => pc'[r] \in Calling
  PROVE  AttemptsOK'
<1>1. CountersTyped'
  BY DEF AttemptsOK, CountersTyped
<1>2. ASSUME NEW r \in Requests PROVE Paid(r)'
  BY <1>2, PaidKept DEF AttemptsOK
<1>. QED
  BY <1>1, <1>2 DEF AttemptsOK

LEMMA CountsOfOthers ==
  ASSUME AttemptsOK, CountersTyped', NEW r \in Requests, Moves(r),
         \A q \in Requests \ {r} : /\ attempts'[q] = attempts[q] /\ retries'[q] = retries[q]
                                   /\ switches'[q] = switches[q],
         Paid(r)'
  PROVE  AttemptsOK'
<1>1. ASSUME NEW q \in Requests, q # r PROVE Paid(q)'
  BY <1>1, PaidKept DEF AttemptsOK, Moves
<1>. QED
  BY <1>1 DEF AttemptsOK

\* The next call.
LEMMA CallPaid ==
  ASSUME HandlersTyped, AttemptsOK, NEW r \in Requests, Moves(r), Begin(r),
         pc[r] \notin Calling, UNCHANGED <<retries, switches>>
  PROVE  AttemptsOK'
<1>1. /\ pc'[r] \in Calling /\ attempts' \in [Requests -> Nat]
      /\ attempts'[r] = attempts[r] + 1
      /\ \A q \in Requests \ {r} : attempts'[q] = attempts[q]
  BY DEF Begin, Goto, HandlersTyped, AttemptsOK, CountersTyped, Calling
<1>2. CountersTyped'
  BY <1>1 DEF AttemptsOK, CountersTyped
<1>3. PICK n : n = Cardinality(Spent(r))
  OBVIOUS
<1>4. n \in Nat
  BY <1>3, SpentBounded DEF AttemptsOK
<1>5. Cardinality(Spent(r))' = n
  BY <1>3 DEF Spent
<1>6. attempts[r] \in Nat /\ switches[r] \in Nat /\ switches'[r] = switches[r]
  BY FailoverAssumption DEF AttemptsOK, CountersTyped
<1>7. attempts[r] <= switches[r] + n
  BY <1>3, <1>4, <1>6 DEF AttemptsOK, Paid
<1>8. Paid(r)'
  BY <1>1, <1>4, <1>5, <1>6, <1>7 DEF Paid
<1>. QED
  BY <1>1, <1>2, <1>8, CountsOfOthers

\* A fresh state: nothing has been called, and nothing is paid.
LEMMA CountsReset ==
  ASSUME HandlersTyped, AttemptsOK, NEW r \in Requests, Moves(r), NewFailoverState(r),
         attempts' = [attempts EXCEPT ![r] = 0]
  PROVE  AttemptsOK'
<1>1. /\ attempts' \in [Requests -> Nat] /\ attempts'[r] = 0
      /\ \A q \in Requests \ {r} : attempts'[q] = attempts[q]
  BY DEF AttemptsOK, CountersTyped
<1>2. NoRetries \in [Accounts -> 0 .. MaxSameAccountRetries]
  BY FailoverAssumption DEF NoRetries
<1>3. /\ retries' \in [Requests -> [Accounts -> 0 .. MaxSameAccountRetries]]
      /\ \A q \in Requests \ {r} : retries'[q] = retries[q]
  BY <1>2 DEF AttemptsOK, CountersTyped, NewFailoverState
<1>4. /\ switches' \in [Requests -> 0 .. MaxSwitches] /\ switches'[r] = 0
      /\ \A q \in Requests \ {r} : switches'[q] = switches[q]
  BY FailoverAssumption DEF AttemptsOK, CountersTyped, NewFailoverState
<1>5. CountersTyped'
  BY <1>1, <1>3, <1>4 DEF CountersTyped
<1>6. Cardinality(Spent(r))' \in Nat
  <2>1. \A m : m = Spent(r)' => IsFiniteSet(m)
    <3>1. IsFiniteSet(1 .. MaxSameAccountRetries)
      BY FailoverAssumption, FS_Interval
    <3>2. IsFiniteSet(Accounts \X (1 .. MaxSameAccountRetries))
      BY <3>1, FailoverAssumption, FS_Product
    <3>3. Spent(r)' \subseteq Accounts \X (1 .. MaxSameAccountRetries)
      BY DEF Spent
    <3>. QED
      BY <3>2, <3>3, FS_Subset
  <2>. QED
    BY <2>1, FS_CardinalityType
<1>7. Paid(r)'
  BY <1>1, <1>4, <1>6 DEF Paid
<1>. QED
  BY <1>1, <1>3, <1>4, <1>5, <1>7, CountsOfOthers

\* A call that failed is paid for when the request goes on.
LEMMA FailoverPays ==
  ASSUME HandlersTyped, AttemptsOK, NEW r \in Requests, Moves(r), pc[r] \in Calling,
         NEW a \in Accounts, NEW retryable \in BOOLEAN, NEW is503 \in BOOLEAN,
         HandleFailoverError(r, a, retryable, is503), UNCHANGED attempts,
         Continues(r, a, retryable) \/ pc'[r] \in Calling
  PROVE  AttemptsOK'
<1>1. PICK n : n = Cardinality(Spent(r))
  OBVIOUS
<1>2. n \in Nat /\ IsFiniteSet(Spent(r))
  BY <1>1, SpentBounded DEF AttemptsOK
<1>3. /\ attempts[r] \in Nat /\ switches[r] \in 0 .. MaxSwitches /\ MaxSwitches \in Nat
      /\ retries[r] \in [Accounts -> 0 .. MaxSameAccountRetries]
      /\ MaxSameAccountRetries \in Nat
  BY FailoverAssumption DEF AttemptsOK, CountersTyped
<1>4. attempts[r] <= switches[r] + n + 1
  BY <1>1, <1>2, <1>3 DEF AttemptsOK, Paid
<1>5. attempts' \in [Requests -> Nat]
  BY DEF AttemptsOK, CountersTyped
<1>6. CASE RetriesSame(r, a, retryable)
  <2>1. /\ switches' = switches
        /\ retries' = [retries EXCEPT ![r] = [retries[r] EXCEPT ![a] = retries[r][a] + 1]]
    BY <1>6 DEF HandleFailoverError
  <2>2. retries[r][a] \in 0 .. MaxSameAccountRetries /\ retries[r][a] < MaxSameAccountRetries
    BY <1>3, <1>6 DEF RetriesSame
  <2>3. [retries[r] EXCEPT ![a] = retries[r][a] + 1] \in [Accounts -> 0 .. MaxSameAccountRetries]
    BY <1>3, <2>2
  <2>4. /\ retries' \in [Requests -> [Accounts -> 0 .. MaxSameAccountRetries]]
        /\ \A q \in Requests \ {r} : retries'[q] = retries[q]
        /\ retries'[r] = [retries[r] EXCEPT ![a] = retries[r][a] + 1]
    BY <2>1, <2>3 DEF AttemptsOK, CountersTyped
  <2>5. CountersTyped'
    BY <1>5, <2>1, <2>4 DEF AttemptsOK, CountersTyped
  <2>6. PICK x : x = <<a, retries[r][a] + 1>>
    OBVIOUS
  <2>7. x \in Accounts \X (1 .. MaxSameAccountRetries) /\ x \notin Spent(r)
    BY <1>3, <2>2, <2>6 DEF Spent
  <2>8. Spent(r)' = Spent(r) \cup {x}
    <3>1. ASSUME NEW y \in Accounts \X (1 .. MaxSameAccountRetries)
          PROVE  y[2] <= retries'[r][y[1]] <=> (y[2] <= retries[r][y[1]] \/ y = x)
      <4>1. PICK b \in Accounts, m \in 1 .. MaxSameAccountRetries : y = <<b, m>>
        BY <3>1
      <4>2. CASE b = a
        BY <1>3, <2>2, <2>4, <2>6, <4>1, <4>2
      <4>3. CASE b # a
        BY <1>3, <2>4, <2>6, <4>1, <4>3
      <4>. QED
        BY <4>2, <4>3
    <3>. QED
      BY <2>7, <3>1 DEF Spent
  <2>9. Cardinality(Spent(r) \cup {x}) = n + 1
    BY <1>1, <1>2, <2>7, FS_AddElement
  <2>10. Cardinality(Spent(r))' = n + 1
    BY <2>8, <2>9
  <2>11. Paid(r)'
    BY <1>2, <1>3, <1>4, <2>1, <2>10 DEF Paid
  <2>. QED
    BY <2>1, <2>4, <2>5, <2>11, CountsOfOthers
<1>7. CASE ~RetriesSame(r, a, retryable)
  <2>1. /\ retries' = retries
        /\ switches' = [switches EXCEPT ![r] =
                           IF switches[r] < MaxSwitches THEN switches[r] + 1 ELSE switches[r]]
    BY <1>7 DEF HandleFailoverError
  <2>2. /\ switches' \in [Requests -> 0 .. MaxSwitches]
        /\ \A q \in Requests \ {r} : switches'[q] = switches[q]
        /\ switches'[r] = IF switches[r] < MaxSwitches THEN switches[r] + 1 ELSE switches[r]
    BY <1>3, <2>1 DEF AttemptsOK, CountersTyped
  <2>3. CountersTyped'
    BY <1>5, <2>1, <2>2 DEF AttemptsOK, CountersTyped
  <2>4. Cardinality(Spent(r))' = n
    BY <1>1, <2>1 DEF Spent
  <2>5. switches[r] < MaxSwitches \/ pc'[r] \in Calling
    BY <1>7 DEF Continues
  <2>6. Paid(r)'
    BY <1>2, <1>3, <1>4, <2>2, <2>4, <2>5 DEF Paid
  <2>. QED
    BY <2>1, <2>2, <2>3, <2>6, CountsOfOthers
<1>. QED
  BY <1>6, <1>7

LEMMA AttemptsStep ==
  ASSUME HandlersTyped, AttemptsOK, [Next]_vars
  PROVE  AttemptsOK'
<1>. USE DEF Calling
<1>0. ASSUME NEW r \in Requests, Handler(r) \/ \E p \in Processes : Arrive(r, p)
      PROVE  Moves(r)
  BY <1>0, HandlerMoves
\* A step between the calls.
<1>1. ASSUME NEW r \in Requests, Moves(r), UNCHANGED <<attempts, retries, switches>>,
             pc[r] \notin Calling \/ pc'[r] \in Calling
      PROVE  AttemptsOK'
  BY <1>1, CountsLeft DEF Moves
<1>2. ASSUME NEW r \in Requests, Handler(r) PROVE AttemptsOK'
  <2>0. Moves(r)
    BY <1>0, <1>2
  <2>1. CASE AcquireUserSlot(r) \/ UserWaitEnds(r) \/ LeaveUserQueue(r) \/ NotEligible(r)
             \/ NotUsed(r) \/ GiveBack(r)
    <3>1. /\ UNCHANGED <<attempts, retries, switches>>
          /\ pc[r] \in {"user", "leave", "admitted", "select", "picked", "refused"}
      BY <2>1 DEF AcquireUserSlot, UserWaitEnds, LeaveUserQueue, NotEligible, NotUsed,
                  GiveBack, local, failoverVars, ghosts
    <3>. QED
      BY <2>0, <3>1, <1>1
  <2>2. ASSUME NEW a \in Accounts, TryAcquire(r, a) \/ PlanWait(r, a) PROVE AttemptsOK'
    <3>1. UNCHANGED <<attempts, retries, switches>> /\ pc[r] = "select"
      BY <2>2 DEF TryAcquire, PlanWait, local, failoverVars, ghosts
    <3>. QED
      BY <2>0, <3>1, <1>1
  <2>3. CASE Hydrated(r)
    BY <2>0, <2>3, CallPaid DEF Hydrated, failoverVars
  <2>4. CASE NoneAvailable(r) \/ NotHydrated(r)
    <3>1. UNCHANGED <<attempts, retries, switches>> /\ pc[r] \in {"select", "picked"}
      BY <2>4 DEF NoneAvailable, NotHydrated, SelectionFailed, HandleSelectionExhausted,
                  failoverVars, ghosts
    <3>. QED
      BY <2>0, <3>1, <1>1
  <2>5. CASE QueueForAccount(r) \/ AcquireAccountSlot(r) \/ AccountWaitEnds(r)
    <3>1. UNCHANGED <<attempts, retries, switches>> /\ pc[r] \in {"queue", "await"}
      BY <2>5 DEF QueueForAccount, AcquireAccountSlot, AccountWaitEnds, local,
                  failoverVars, ghosts
    <3>. QED
      BY <2>0, <3>1, <1>1
  <2>6. CASE LeaveAccountQueue(r)
    <3>1. CASE pc[r] = "quit" /\ UNCHANGED attempts
      BY <2>0, <2>6, <3>1, <1>1 DEF LeaveAccountQueue, local, failoverVars
    <3>2. CASE pc[r] = "granted" /\ Begin(r)
      BY <2>0, <2>6, <3>2, CallPaid DEF LeaveAccountQueue, local, failoverVars
    <3>. QED
      BY <2>6, <3>1, <3>2 DEF LeaveAccountQueue
  <2>7. CASE UpstreamAnswers(r)
    <3>1. UNCHANGED <<attempts, retries, switches>> /\ pc'[r] = "answered"
      BY <2>7 DEF UpstreamAnswers, Goto, HandlersTyped, local, failoverVars, ghosts
    <3>. QED
      BY <2>0, <3>1, <1>1
  <2>8. CASE EndCall(r)
    <3>1. pc[r] = "answered" /\ account[r] \in Accounts
      BY <2>8 DEF EndCall, HandlersTyped, OnAccount
    <3>2. CASE Goto(r, "finish") /\ UNCHANGED <<failoverVars, fallback, attempts>>
      BY <2>0, <3>2, <1>1 DEF Goto, HandlersTyped, failoverVars
    <3>3. ASSUME NEW retryable \in BOOLEAN, NEW is503 \in BOOLEAN,
                 HandleFailoverError(r, account[r], retryable, is503),
                 \/ Continues(r, account[r], retryable) /\ Goto(r, "select")
                 \/ ~Continues(r, account[r], retryable) /\ Goto(r, "finish")
                 \/ r \in gone /\ Goto(r, "finish"),
                 UNCHANGED attempts
          PROVE  AttemptsOK'
      <4>1. Continues(r, account[r], retryable) \/ pc'[r] \in Calling
        BY <3>3 DEF Goto, HandlersTyped
      <4>2. pc[r] \in Calling
        BY <3>1
      <4>. HIDE DEF Calling
      <4>. QED
        BY <2>0, <3>1, <3>3, <4>1, <4>2, FailoverPays
    <3>4. CASE NewFailoverState(r) /\ attempts' = [attempts EXCEPT ![r] = 0]
      BY <2>0, <3>4, CountsReset
    <3>. QED
      BY <2>8, <3>2, <3>3, <3>4 DEF EndCall
  <2>9. CASE Finish(r)
    BY <2>0, <2>9, CountsReset DEF Finish
  <2>. QED
    BY <1>2, <2>1, <2>2, <2>3, <2>4, <2>5, <2>6, <2>7, <2>8, <2>9 DEF Handler
<1>3. ASSUME NEW r \in Requests, NEW p \in Processes, Arrive(r, p) PROVE AttemptsOK'
  <2>1. UNCHANGED <<attempts, retries, switches>> /\ pc[r] = "new"
    BY <1>3 DEF Arrive, local, failoverVars
  <2>. QED
    BY <1>0, <1>1, <1>3, <2>1
<1>4. CASE UNCHANGED <<attempts, retries, switches, pc>>
  BY <1>4, CountsLeft
<1>5. ASSUME NEW r \in Requests, Disconnect(r) \/ \E k \in Keys : ReleaseOnDone(r, k)
      PROVE AttemptsOK'
  BY <1>4, <1>5 DEF Disconnect, ReleaseOnDone, local, failoverVars, ghosts
<1>6. ASSUME NEW k \in Keys, NEW id, SlotLapses(k, id) \/ WaitExpires(k) PROVE AttemptsOK'
  BY <1>4, <1>6 DEF SlotLapses, WaitExpires, local, failoverVars
<1>7. ASSUME NEW p \in Processes, Start(p) \/ CleanupStaleProcessSlots(p) PROVE AttemptsOK'
  BY <1>4, <1>7 DEF Start, CleanupStaleProcessSlots, local, failoverVars, ghosts
<1>8. ASSUME NEW p \in Processes, Crash(p) PROVE AttemptsOK'
  <2>1. UNCHANGED <<attempts, retries, switches>>
    BY <1>8 DEF Crash, local, failoverVars
  <2>2. \A r \in Requests : pc[r] \in Calling => pc'[r] \in Calling
    BY <1>8 DEF Crash
  <2>. QED
    BY <2>1, <2>2, CountsLeft
<1>9. CASE UNCHANGED vars
  BY <1>4, <1>9 DEF vars, local, failoverVars, ghosts
<1>. QED
  BY <1>2, <1>3, <1>5, <1>6, <1>7, <1>8, <1>9 DEF Next

LEMMA NothingSpent == Init => AttemptsOK
<1>. SUFFICES ASSUME Init PROVE AttemptsOK
  OBVIOUS
<1>1. /\ attempts \in [Requests -> Nat] /\ switches \in [Requests -> 0 .. MaxSwitches]
      /\ \A r \in Requests : attempts[r] = 0 /\ switches[r] = 0 /\ pc[r] = "new"
  BY FailoverAssumption DEF Init, FailoverInit
<1>2. NoRetries \in [Accounts -> 0 .. MaxSameAccountRetries]
  BY FailoverAssumption DEF NoRetries
<1>3. retries \in [Requests -> [Accounts -> 0 .. MaxSameAccountRetries]]
  BY <1>2 DEF Init, FailoverInit
<1>4. CountersTyped
  BY <1>1, <1>3 DEF CountersTyped
<1>5. ASSUME NEW r \in Requests PROVE Paid(r)
  <2>1. Cardinality(Spent(r)) \in Nat
    BY <1>4, SpentBounded
  <2>. QED
    BY <1>1, <2>1 DEF Paid, Calling
<1>. QED
  BY <1>4, <1>5 DEF AttemptsOK

\* Failing over ends (BoundedAttempts): with the switches and the retries spent, for
\* every number of accounts, the upstream is not called again for the same group.
THEOREM AttemptsBounded == Spec => []BoundedAttempts
<1>1. Init => HandlersTyped /\ AttemptsOK
  BY StartsEmpty, NothingSpent
<1>2. HandlersTyped /\ AttemptsOK /\ [Next]_vars => HandlersTyped' /\ AttemptsOK'
  BY HandlersStep, AttemptsStep
<1>3. AttemptsOK => BoundedAttempts
  <2>. SUFFICES ASSUME AttemptsOK, NEW r \in Requests PROVE attempts[r] <= MaxAttempts
    BY DEF BoundedAttempts
  <2>1. PICK n : n = Cardinality(Spent(r))
    OBVIOUS
  <2>2. PICK m : m = MaxSameAccountRetries * Cardinality(Accounts)
    OBVIOUS
  <2>3. n \in Nat /\ n <= m
    BY <2>1, <2>2, SpentBounded DEF AttemptsOK
  <2>4. m \in Nat
    BY <2>2, FailoverAssumption, FS_CardinalityType
  <2>5. attempts[r] \in Nat /\ switches[r] \in 0 .. MaxSwitches /\ MaxSwitches \in Nat
    BY FailoverAssumption DEF AttemptsOK, CountersTyped
  <2>6. attempts[r] <= switches[r] + n + 1
    BY <2>1, <2>3, <2>5 DEF AttemptsOK, Paid
  <2>. QED
    BY <2>2, <2>3, <2>4, <2>5, <2>6 DEF MaxAttempts
<1>. QED
  BY <1>1, <1>2, <1>3, PTL DEF Spec

-----------------------------------------------------------------------------
(***************************************************************************)
(* The ids.  A live request has met a fault for every stray of its own, so *)
(* it finds an id it has not used among the first 2 + MaxFaults.           *)
(***************************************************************************)

Live(r) == pc[r] \notin {"done", "dead"} /\ r \notin gone

OwnStrays(r) == {x \in Strays : x[2][1] = r}

FewStrays ==
    \A r \in Requests : Live(r) =>
        IsFiniteSet(OwnStrays(r)) /\ Cardinality(OwnStrays(r)) <= faults

HoldingOK ==
    /\ slots    \in [Keys -> SUBSET Ids]
    /\ userSlot \in [Requests -> Nat]
    /\ slot     \in [Requests -> Nat]
    /\ faults   \in 0 .. MaxFaults
    /\ \A r \in Requests : slot[r] # 0 => pc[r] \in AccountSteps \cup {"dead"}

LEMMA FreshExists ==
  ASSUME HoldingOK, FewStrays, NEW r \in Requests, Live(r), slot[r] = 0
  PROVE  Fresh(r) \in Nat \ {0}
<1>. DEFINE First == 1 .. 2 + MaxFaults
            idOf == [x \in OwnStrays(r) |-> x[2][2]]
            used == {idOf[x] : x \in OwnStrays(r)}
            Good(n) == /\ n # userSlot[r] /\ n # slot[r]
                       /\ \A k \in Keys : <<r, n>> \notin slots[k]
<1>1. IsFiniteSet(OwnStrays(r)) /\ Cardinality(OwnStrays(r)) <= faults
  BY DEF FewStrays
<1>2. faults \in 0 .. MaxFaults /\ MaxFaults \in Nat
  BY GatewayAssumption DEF HoldingOK
<1>3. IsFiniteSet(First) /\ Cardinality(First) = 2 + MaxFaults
  <2>1. /\ IsFiniteSet(First)
        /\ Cardinality(First) = IF 1 > 2 + MaxFaults THEN 0 ELSE (2 + MaxFaults) - 1 + 1
    BY <1>2, FS_Interval
  <2>. QED
    BY <1>2, <2>1
<1>4. IsFiniteSet(used) /\ Cardinality(used) <= Cardinality(OwnStrays(r))
  <2>1. idOf \in Surjection(OwnStrays(r), used)
    BY DEF Surjection
  <2>. HIDE DEF idOf, used
  <2>. QED
    BY <1>1, <2>1, FS_Surjection
<1>5. \A n \in First : Good(n) \/ n \in used \cup {userSlot[r]}
  <2>. SUFFICES ASSUME NEW n \in First, n # userSlot[r], n \notin used,
                       NEW k \in Keys, <<r, n>> \in slots[k]
                PROVE  FALSE
    BY <1>2
  <2>1. CASE Belongs(<<r, n>>, k)
    BY <1>2, <2>1 DEF Belongs, Lease, IdOn
  <2>2. CASE ~Belongs(<<r, n>>, k)
    <3>1. PICK x : x = <<k, <<r, n>>>>
      OBVIOUS
    <3>2. x \in OwnStrays(r)
      BY <2>2, <3>1, StrayIs DEF OwnStrays
    <3>3. idOf[x] = n
      BY <3>1, <3>2
    <3>. QED
      BY <3>2, <3>3
  <2>. QED
    BY <2>1, <2>2
<1>6. \E n \in First : Good(n)
  <2>. SUFFICES ASSUME \A n \in First : ~Good(n) PROVE FALSE
    OBVIOUS
  <2>1. First \subseteq used \cup {userSlot[r]}
    BY <1>5
  <2>. HIDE DEF First, used, Good
  <2>2. /\ IsFiniteSet(used \cup {userSlot[r]})
        /\ Cardinality(used \cup {userSlot[r]}) =
             IF userSlot[r] \in used THEN Cardinality(used) ELSE Cardinality(used) + 1
    BY <1>4, FS_AddElement
  <2>3. Cardinality(First) <= Cardinality(used \cup {userSlot[r]})
    BY <2>1, <2>2, FS_Subset
  <2>4. Cardinality(used) \in Nat /\ Cardinality(OwnStrays(r)) \in Nat
    BY <1>1, <1>4, FS_CardinalityType
  <2>. QED
    BY <1>1, <1>2, <1>3, <1>4, <2>2, <2>3, <2>4
<1>7. Fresh(r) = CHOOSE n \in First : Good(n)
  BY DEF Fresh
<1>8. Fresh(r) \in First
  <2>. HIDE DEF First, Good
  <2>. QED
    BY <1>6, <1>7
<1>. QED
  BY <1>2, <1>8

-----------------------------------------------------------------------------
LEMMA FaultsStep ==
  ASSUME faults \in 0 .. MaxFaults, [Next]_vars
  PROVE  faults' \in 0 .. MaxFaults /\ (faults' = faults \/ faults' = faults + 1)
<1>1. ASSUME NEW kind, Fault(kind)
      PROVE  faults' \in 0 .. MaxFaults /\ (faults' = faults \/ faults' = faults + 1)
  BY <1>1, GatewayAssumption DEF Fault
<1>2. UNCHANGED faults \/ \E kind : Fault(kind)
  <2>. USE DEF Faultless
  <2>1. ASSUME NEW r \in Requests, NEW p \in Processes, Arrive(r, p)
        PROVE  UNCHANGED faults \/ \E kind : Fault(kind)
    BY <2>1 DEF Arrive
  <2>2. ASSUME NEW r \in Requests, Handler(r)
        PROVE  UNCHANGED faults \/ \E kind : Fault(kind)
    <3>1. CASE AcquireUserSlot(r) \/ UserWaitEnds(r) \/ LeaveUserQueue(r) \/ NotEligible(r)
      BY <3>1 DEF AcquireUserSlot, UserWaitEnds, LeaveUserQueue, NotEligible, Uncount
    <3>2. ASSUME NEW a \in Accounts, TryAcquire(r, a) \/ PlanWait(r, a)
          PROVE  UNCHANGED faults \/ \E kind : Fault(kind)
      BY <3>2 DEF TryAcquire, PlanWait
    <3>3. CASE Hydrated(r) \/ NotUsed(r) \/ GiveBack(r) \/ NoneAvailable(r) \/ NotHydrated(r)
      BY <3>3 DEF Hydrated, NotUsed, GiveBack, Released, NoneAvailable, NotHydrated
    <3>4. CASE QueueForAccount(r) \/ AcquireAccountSlot(r) \/ AccountWaitEnds(r)
               \/ LeaveAccountQueue(r)
      BY <3>4 DEF QueueForAccount, AcquireAccountSlot, AccountWaitEnds, LeaveAccountQueue,
                  Uncount
    <3>5. CASE UpstreamAnswers(r) \/ EndCall(r) \/ Finish(r)
      BY <3>5 DEF UpstreamAnswers, EndCall, Finish, Released
    <3>. QED
      BY <2>2, <3>1, <3>2, <3>3, <3>4, <3>5 DEF Handler
  <2>3. ASSUME NEW r \in Requests, Disconnect(r) \/ \E k \in Keys : ReleaseOnDone(r, k)
        PROVE  UNCHANGED faults \/ \E kind : Fault(kind)
    BY <2>3 DEF Disconnect, ReleaseOnDone, Released
  <2>4. ASSUME NEW k \in Keys, WaitExpires(k) \/ \E id : SlotLapses(k, id)
        PROVE  UNCHANGED faults \/ \E kind : Fault(kind)
    BY <2>4 DEF WaitExpires, SlotLapses
  <2>5. ASSUME NEW p \in Processes, Crash(p) \/ Start(p) \/ CleanupStaleProcessSlots(p)
        PROVE  UNCHANGED faults \/ \E kind : Fault(kind)
    BY <2>5 DEF Crash, Start, CleanupStaleProcessSlots
  <2>6. CASE UNCHANGED vars
    BY <2>6 DEF vars
  <2>. QED
    BY <2>1, <2>2, <2>3, <2>4, <2>5, <2>6 DEF Next
<1>. QED
  BY <1>1, <1>2

\* A handler that leaves a slot behind has met a fault, or its client is gone.
LEMMA LeakIsFault ==
  ASSUME HandlersTyped, leaks \in Nat, NEW r \in Requests,
         Handler(r) \/ \E p \in Processes : Arrive(r, p), leaks' = leaks + 1, Live(r)'
  PROVE  faults' = faults + 1
<1>1. leaks' # leaks
  OBVIOUS
<1>2. \A kind : Fault(kind) => faults' = faults + 1
  BY DEF Fault
<1>. USE DEF Faultless, Drift
<1>3. CASE AcquireUserSlot(r) \/ AcquireAccountSlot(r)
  BY <1>1, <1>2, <1>3 DEF AcquireUserSlot, AcquireAccountSlot
<1>4. ASSUME NEW a \in Accounts, TryAcquire(r, a) PROVE faults' = faults + 1
  BY <1>1, <1>2, <1>4 DEF TryAcquire
<1>5. CASE GiveBack(r) \/ EndCall(r) \/ Finish(r)
  BY <1>1, <1>2, <1>5 DEF GiveBack, EndCall, Finish, Released
<1>6. CASE NotHydrated(r)
  BY <1>1, <1>2, <1>6 DEF NotHydrated, Live
<1>7. CASE UserWaitEnds(r) \/ LeaveUserQueue(r) \/ NotEligible(r) \/ Hydrated(r) \/ NotUsed(r)
           \/ NoneAvailable(r)
  BY <1>1, <1>7 DEF UserWaitEnds, LeaveUserQueue, NotEligible, Hydrated, NotUsed, NoneAvailable,
                    Uncount, ghosts
<1>8. CASE QueueForAccount(r) \/ AccountWaitEnds(r) \/ LeaveAccountQueue(r) \/ UpstreamAnswers(r)
  BY <1>1, <1>8 DEF QueueForAccount, AccountWaitEnds, LeaveAccountQueue, UpstreamAnswers, Uncount,
                    ghosts
<1>9. ASSUME NEW a \in Accounts, PlanWait(r, a) PROVE faults' = faults + 1
  BY <1>1, <1>9 DEF PlanWait, ghosts
<1>10. ASSUME NEW p \in Processes, Arrive(r, p) PROVE faults' = faults + 1
  BY <1>1, <1>10 DEF Arrive
<1>. QED
  BY <1>3, <1>4, <1>5, <1>6, <1>7, <1>8, <1>9, <1>10 DEF Handler

LEMMA FewKept ==
  ASSUME NEW q \in Requests, FewStrays, Live(q), faults \in Nat, faults' \in Nat, faults <= faults',
         OwnStrays(q)' \subseteq OwnStrays(q)
  PROVE  IsFiniteSet(OwnStrays(q))' /\ Cardinality(OwnStrays(q))' <= faults'
<1>1. IsFiniteSet(OwnStrays(q)) /\ Cardinality(OwnStrays(q)) <= faults
  BY DEF FewStrays
<1>2. PICK T : T = OwnStrays(q)'
  OBVIOUS
<1>3. IsFiniteSet(T) /\ Cardinality(T) <= Cardinality(OwnStrays(q))
  BY <1>1, <1>2, FS_Subset
<1>4. Cardinality(T) \in Nat /\ Cardinality(OwnStrays(q)) \in Nat
  BY <1>1, <1>3, FS_CardinalityType
<1>5. Cardinality(T) <= faults'
  BY <1>1, <1>3, <1>4
<1>. QED
  BY <1>2, <1>3, <1>5

LEMMA FewMore ==
  ASSUME NEW q \in Requests, FewStrays, Live(q), faults \in Nat, faults' = faults + 1, NEW x,
         OwnStrays(q)' \subseteq OwnStrays(q) \cup {x}
  PROVE  IsFiniteSet(OwnStrays(q))' /\ Cardinality(OwnStrays(q))' <= faults'
<1>1. IsFiniteSet(OwnStrays(q)) /\ Cardinality(OwnStrays(q)) <= faults
  BY DEF FewStrays
<1>2. PICK T : T = OwnStrays(q)'
  OBVIOUS
<1>3. /\ IsFiniteSet(OwnStrays(q) \cup {x})
      /\ Cardinality(OwnStrays(q) \cup {x}) =
           IF x \in OwnStrays(q) THEN Cardinality(OwnStrays(q)) ELSE Cardinality(OwnStrays(q)) + 1
  BY <1>1, FS_AddElement
<1>4. IsFiniteSet(T) /\ Cardinality(T) <= Cardinality(OwnStrays(q) \cup {x})
  BY <1>2, <1>3, FS_Subset
<1>5. /\ Cardinality(T) \in Nat /\ Cardinality(OwnStrays(q)) \in Nat
      /\ Cardinality(OwnStrays(q) \cup {x}) \in Nat
  BY <1>1, <1>3, <1>4, FS_CardinalityType
<1>6. Cardinality(T) <= faults'
  BY <1>1, <1>3, <1>4, <1>5
<1>. QED
  BY <1>2, <1>4, <1>6

LEMMA FewStep ==
  ASSUME HandlersTyped, SlotsOK, StraysOK, HoldingOK, FewStrays, [Next]_vars
  PROVE  FewStrays'
<1>1. /\ faults \in Nat /\ faults' \in Nat /\ faults <= faults'
      /\ leaks \in Nat
  BY FaultsStep, GatewayAssumption DEF HoldingOK, StraysOK
\* A step that adds no stray to those of a live request.
<1>2. ASSUME \A q \in Requests : Live(q)' => Live(q) /\ OwnStrays(q)' \subseteq OwnStrays(q)
      PROVE  FewStrays'
  BY <1>1, <1>2, FewKept DEF FewStrays
<1>3. ASSUME NEW r \in Requests, StrayStep(r), leaks' = leaks + 1 /\ Live(r)' => faults' = faults + 1,
             \A q \in Requests : Live(q)' => Live(q)
      PROVE  FewStrays'
  <2>1. CASE Strays' \subseteq Strays
    <3>1. \A q \in Requests : OwnStrays(q)' \subseteq OwnStrays(q)
      BY <2>1 DEF OwnStrays
    <3>. QED
      BY <1>2, <1>3, <3>1
  <2>2. ASSUME NEW k \in Keys, NEW n, Strays' \subseteq Strays \cup {<<k, <<r, n>>>>},
               leaks' = leaks + 1
        PROVE  FewStrays'
    <3>1. PICK x : x = <<k, <<r, n>>>>
      OBVIOUS
    <3>2. OwnStrays(r)' \subseteq OwnStrays(r) \cup {x}
      BY <2>2, <3>1 DEF OwnStrays
    <3>3. \A q \in Requests \ {r} : OwnStrays(q)' \subseteq OwnStrays(q)
      BY <2>2, <3>1 DEF OwnStrays
    <3>4. ASSUME NEW q \in Requests, Live(q)'
          PROVE  IsFiniteSet(OwnStrays(q))' /\ Cardinality(OwnStrays(q))' <= faults'
      <4>1. CASE q = r
        BY <1>1, <1>3, <2>2, <3>2, <3>4, <4>1, FewMore
      <4>2. CASE q # r
        BY <1>1, <1>3, <3>3, <3>4, <4>2, FewKept
      <4>. QED
        BY <4>1, <4>2
    <3>. QED
      BY <3>4 DEF FewStrays
  <2>. QED
    BY <1>3, <2>1, <2>2 DEF StrayStep
<1>4. ASSUME UNCHANGED <<pc, leases>>, gone \subseteq gone',
             \A k \in Keys : slots'[k] \subseteq slots[k]
      PROVE  FewStrays'
  <2>1. ASSUME NEW k \in Keys, NEW id \in slots'[k], ~Belongs(id, k)'
        PROVE  id \in slots[k] /\ ~Belongs(id, k)
    BY <1>4, <2>1 DEF Belongs, Uses, Lease, IdOn, leases
  <2>2. Strays' \subseteq Strays
    BY <2>1, StrayIs, StrayIsThen
  <2>3. \A q \in Requests : Live(q)' => Live(q)
    BY <1>4 DEF Live
  <2>. QED
    BY <1>2, <2>2, <2>3 DEF OwnStrays
<1>5. ASSUME NEW r \in Requests, Handler(r) \/ \E p \in Processes : Arrive(r, p)
      PROVE  FewStrays'
  <2>1. StrayStep(r) /\ Moves(r)
    BY <1>5, HandlerStrays, HandlerMoves
  <2>2. leaks' = leaks + 1 /\ Live(r)' => faults' = faults + 1
    BY <1>1, <1>5, LeakIsFault
  <2>3. pc[r] \notin {"done", "dead"}
    BY <1>5 DEF Handler, Arrive, AcquireUserSlot, UserWaitEnds, LeaveUserQueue, NotEligible,
                TryAcquire, PlanWait, Hydrated, NotUsed, GiveBack, NoneAvailable, NotHydrated,
                QueueForAccount, AcquireAccountSlot, AccountWaitEnds, LeaveAccountQueue,
                UpstreamAnswers, EndCall, Finish
  <2>4. CASE Finish(r)
    <3>1. gone' = gone \ {r} /\ pc'[r] = "done"
      BY <2>4 DEF Finish, Goto, HandlersTyped
    <3>2. \A q \in Requests : Live(q)' => Live(q)
      BY <2>1, <3>1 DEF Live, Moves
    <3>. QED
      BY <1>3, <2>1, <2>2, <3>2
  <2>5. CASE gone' = gone
    <3>1. \A q \in Requests : Live(q)' => Live(q)
      BY <2>1, <2>3, <2>5 DEF Live, Moves
    <3>. QED
      BY <1>3, <2>1, <2>2, <3>1
  <2>6. Finish(r) \/ gone' = gone
    BY <1>5 DEF Handler, Arrive, AcquireUserSlot, UserWaitEnds, LeaveUserQueue, NotEligible,
                TryAcquire, PlanWait, Hydrated, NotUsed, GiveBack, NoneAvailable, NotHydrated,
                QueueForAccount, AcquireAccountSlot, AccountWaitEnds, LeaveAccountQueue,
                UpstreamAnswers, EndCall
  <2>. QED
    BY <2>4, <2>5, <2>6
<1>6. ASSUME NEW r \in Requests, NEW k \in Keys, ReleaseOnDone(r, k) PROVE FewStrays'
  <2>1. IdsOK' /\ StrayStep(r)
    BY <1>6, CallbackStrays
  <2>2. UNCHANGED <<pc, gone>> /\ r \in gone
    BY <1>6 DEF ReleaseOnDone
  <2>. QED
    BY <1>3, <2>1, <2>2 DEF Live
<1>7. ASSUME NEW r \in Requests, Disconnect(r) PROVE FewStrays'
  BY <1>4, <1>7 DEF Disconnect
<1>8. ASSUME NEW k \in Keys, NEW id, SlotLapses(k, id) PROVE FewStrays'
  BY <1>4, <1>8, ReleaseOK DEF SlotLapses
<1>9. ASSUME NEW k \in Keys, WaitExpires(k) PROVE FewStrays'
  BY <1>4, <1>9 DEF WaitExpires
<1>10. ASSUME NEW p \in Processes, Start(p) PROVE FewStrays'
  BY <1>4, <1>10 DEF Start
<1>11. ASSUME NEW p \in Processes, CleanupStaleProcessSlots(p) PROVE FewStrays'
  <2>1. UNCHANGED <<pc, leases, gone>>
    BY <1>11 DEF CleanupStaleProcessSlots
  <2>2. \A k \in Keys : slots'[k] \subseteq slots[k]
    BY <1>11 DEF CleanupStaleProcessSlots, CleanupSlots, CleanupWaits, RemoveForeign
  <2>. QED
    BY <1>4, <2>1, <2>2
<1>12. ASSUME NEW p \in Processes, Crash(p) PROVE FewStrays'
  <2>1. /\ UNCHANGED <<slots, leases, gone>>
        /\ \A q \in Requests : pc'[q] = pc[q] \/ pc'[q] = "dead"
    BY <1>12 DEF Crash
  <2>2. ASSUME NEW q \in Requests, Live(q)'
        PROVE  Live(q) /\ OwnStrays(q)' \subseteq OwnStrays(q)
    <3>1. pc'[q] = pc[q] /\ Live(q)
      BY <2>1, <2>2 DEF Live
    <3>2. ASSUME NEW k \in Keys, NEW id \in slots'[k], id[1] = q
          PROVE  Belongs(id, k)' <=> Belongs(id, k)
      BY <2>1, <3>1, <3>2 DEF Belongs, Uses, Lease, IdOn, leases
    <3>3. OwnStrays(q)' \subseteq OwnStrays(q)
      BY <2>1, <3>2, StrayIs, StrayIsThen DEF OwnStrays
    <3>. QED
      BY <3>1, <3>3
  <2>. QED
    BY <1>2, <2>2
<1>13. CASE UNCHANGED vars
  BY <1>4, <1>13 DEF vars
<1>. QED
  BY <1>5, <1>6, <1>7, <1>8, <1>9, <1>10, <1>11, <1>12, <1>13 DEF Next

LEMMA SlotsTyped ==
  ASSUME HoldingOK, NEW k \in Keys, NEW id
  PROVE  /\ id \in Ids /\ Acquire(k, id) => slots' \in [Keys -> SUBSET Ids]
         /\ ReleaseSlot(k, id) => slots' \in [Keys -> SUBSET Ids]
  BY DEF HoldingOK, Acquire, ReleaseSlot

LEMMA FreshTyped ==
  ASSUME HandlersTyped, HoldingOK, FewStrays, NEW r \in Requests, r \notin gone,
         pc[r] \in {"user", "select", "await"}
  PROVE  Fresh(r) \in Nat /\ <<r, Fresh(r)>> \in Ids
<1>1. slot[r] = 0 /\ Live(r)
  BY DEF HoldingOK, AccountSteps, Live
<1>. QED
  BY <1>1, FreshExists DEF Ids

LEMMA HandlerHolding ==
  ASSUME HandlersTyped, HoldingOK, FewStrays, NEW r \in Requests,
         Handler(r) \/ \E p \in Processes : Arrive(r, p)
  PROVE  /\ slots'    \in [Keys -> SUBSET Ids]
         /\ userSlot' \in [Requests -> Nat]
         /\ slot'     \in [Requests -> Nat]
         /\ slot'[r] # 0 => pc'[r] \in AccountSteps
<1>. DEFINE Result == /\ slots'    \in [Keys -> SUBSET Ids]
                      /\ userSlot' \in [Requests -> Nat]
                      /\ slot'     \in [Requests -> Nat]
                      /\ slot'[r] # 0 => pc'[r] \in AccountSteps
<1>. SUFFICES Result
  OBVIOUS
<1>1. /\ slots \in [Keys -> SUBSET Ids] /\ userSlot \in [Requests -> Nat]
      /\ slot \in [Requests -> Nat] /\ pc \in [Requests -> Steps]
      /\ slot[r] # 0 => pc[r] \in AccountSteps \cup {"dead"}
  BY DEF HoldingOK, HandlersTyped
<1>2. /\ User \in Keys
      /\ \A a \in Accounts : a \in Keys
  BY DEF Keys
<1>. USE DEF AccountSteps
<1>3. CASE AcquireUserSlot(r)
  <2>1. pc[r] = "user" /\ UNCHANGED slot
    BY <1>3 DEF AcquireUserSlot
  <2>2. \/ UNCHANGED <<slots, userSlot>>
        \/ /\ r \notin gone /\ Acquire(User, <<r, Fresh(r)>>)
           /\ UNCHANGED userSlot \/ userSlot' = [userSlot EXCEPT ![r] = Fresh(r)]
    BY <1>3 DEF AcquireUserSlot
  <2>3. CASE r \notin gone /\ Acquire(User, <<r, Fresh(r)>>)
    <3>1. Fresh(r) \in Nat /\ <<r, Fresh(r)>> \in Ids
      BY <2>1, <2>3, FreshTyped
    <3>2. slots' \in [Keys -> SUBSET Ids]
      BY <1>2, <2>3, <3>1, SlotsTyped
    <3>. QED
      BY <1>1, <2>1, <2>2, <3>1, <3>2
  <2>. QED
    BY <1>1, <2>1, <2>2, <2>3
<1>4. ASSUME NEW a \in Accounts, TryAcquire(r, a) PROVE Result
  <2>1. /\ pc[r] = "select" /\ r \notin gone /\ UNCHANGED userSlot
        /\ Acquire(a, <<r, Fresh(r)>>)
        /\ \/ UNCHANGED slot
           \/ slot' = [slot EXCEPT ![r] = Fresh(r)] /\ pc' = [pc EXCEPT ![r] = "picked"]
    BY <1>4 DEF TryAcquire, Goto
  <2>2. Fresh(r) \in Nat /\ <<r, Fresh(r)>> \in Ids
    BY <2>1, FreshTyped
  <2>3. slots' \in [Keys -> SUBSET Ids]
    BY <1>2, <2>1, <2>2, SlotsTyped
  <2>. QED
    BY <1>1, <2>1, <2>2, <2>3
<1>5. CASE AcquireAccountSlot(r)
  <2>1. pc[r] = "await" /\ UNCHANGED userSlot /\ account[r] \in Keys
    BY <1>2, <1>5 DEF AcquireAccountSlot, HandlersTyped, OnAccount
  <2>2. \/ UNCHANGED <<slots, slot>>
        \/ /\ r \notin gone /\ Acquire(account[r], <<r, Fresh(r)>>)
           /\ \/ UNCHANGED slot
              \/ slot' = [slot EXCEPT ![r] = Fresh(r)] /\ pc' = [pc EXCEPT ![r] = "granted"]
    BY <1>5 DEF AcquireAccountSlot, Goto
  <2>3. CASE r \notin gone /\ Acquire(account[r], <<r, Fresh(r)>>)
    <3>1. Fresh(r) \in Nat /\ <<r, Fresh(r)>> \in Ids
      BY <2>1, <2>3, FreshTyped
    <3>2. slots' \in [Keys -> SUBSET Ids]
      BY <2>1, <2>3, <3>1, SlotsTyped
    <3>. QED
      BY <1>1, <2>1, <2>2, <3>1, <3>2
  <2>. QED
    BY <1>1, <2>1, <2>2, <2>3
\* A release, and what becomes of the id.
<1>6. ASSUME NEW k \in Keys, Released(r, k) PROVE slots' \in [Keys -> SUBSET Ids]
  BY <1>1, <1>6, SlotsTyped DEF Released
<1>7. CASE GiveBack(r) \/ EndCall(r)
  <2>1. account[r] \in Keys /\ Released(r, account[r])
    BY <1>2, <1>7 DEF GiveBack, EndCall, HandlersTyped, OnAccount
  <2>2. slot' = [slot EXCEPT ![r] = 0] /\ UNCHANGED userSlot
    BY <1>7 DEF GiveBack, EndCall, Dropped
  <2>. QED
    BY <1>1, <1>6, <2>1, <2>2
<1>8. CASE Finish(r)
  <2>1. /\ pc[r] = "finish" /\ Released(r, User)
        /\ userSlot' = [userSlot EXCEPT ![r] = 0] /\ UNCHANGED slot
    BY <1>8 DEF Finish
  <2>. QED
    BY <1>1, <1>2, <1>6, <2>1
<1>9. CASE NotHydrated(r)
  BY <1>1, <1>9 DEF NotHydrated, Dropped
\* The other steps change no id, and keep an account that has one.
<1>10. ASSUME UNCHANGED <<slots, leases>> \/ UNCHANGED <<slots, userSlot, slot>>,
              pc[r] \in AccountSteps => pc'[r] \in AccountSteps, pc[r] # "dead"
       PROVE  Result
  BY <1>1, <1>10 DEF leases
<1>11. CASE UserWaitEnds(r) \/ LeaveUserQueue(r) \/ NotEligible(r)
  BY <1>10, <1>11 DEF UserWaitEnds, LeaveUserQueue, NotEligible
<1>12. ASSUME NEW a \in Accounts, PlanWait(r, a) PROVE Result
  BY <1>10, <1>12 DEF PlanWait
<1>13. CASE Hydrated(r) \/ NotUsed(r) \/ UpstreamAnswers(r)
  BY <1>1, <1>10, <1>13 DEF Hydrated, Begin, NotUsed, UpstreamAnswers, Goto
<1>14. CASE NoneAvailable(r) \/ QueueForAccount(r) \/ AccountWaitEnds(r)
  BY <1>10, <1>14 DEF NoneAvailable, QueueForAccount, AccountWaitEnds
<1>15. CASE LeaveAccountQueue(r)
  BY <1>1, <1>10, <1>15 DEF LeaveAccountQueue, Begin, Goto
<1>16. ASSUME NEW p \in Processes, Arrive(r, p) PROVE Result
  BY <1>10, <1>16 DEF Arrive
<1>. QED
  BY <1>3, <1>4, <1>5, <1>7, <1>8, <1>9, <1>11, <1>12, <1>13, <1>14, <1>15, <1>16 DEF Handler

LEMMA HoldingStep ==
  ASSUME HandlersTyped, HoldingOK, FewStrays, [Next]_vars
  PROVE  HoldingOK'
<1>1. faults' \in 0 .. MaxFaults
  BY FaultsStep DEF HoldingOK
<1>2. ASSUME UNCHANGED <<userSlot, slot>>, slots' \in [Keys -> SUBSET Ids],
             \A r \in Requests : pc'[r] = pc[r] \/ pc'[r] = "dead"
      PROVE  HoldingOK'
  BY <1>1, <1>2 DEF HoldingOK
<1>3. ASSUME NEW r \in Requests, Handler(r) \/ \E p \in Processes : Arrive(r, p)
      PROVE  HoldingOK'
  <2>1. Moves(r)
    BY <1>3, HandlerMoves
  <2>2. /\ slots' \in [Keys -> SUBSET Ids] /\ userSlot' \in [Requests -> Nat]
        /\ slot' \in [Requests -> Nat]
        /\ slot'[r] # 0 => pc'[r] \in AccountSteps
    BY <1>3, HandlerHolding
  <2>3. ASSUME NEW q \in Requests, slot'[q] # 0
        PROVE  pc'[q] \in AccountSteps \cup {"dead"}
    <3>1. CASE q = r
      BY <2>2, <2>3, <3>1
    <3>2. CASE q # r
      BY <2>1, <2>3, <3>2 DEF Moves, HoldingOK
    <3>. QED
      BY <3>1, <3>2
  <2>. QED
    BY <1>1, <2>2, <2>3 DEF HoldingOK
<1>4. ASSUME NEW r \in Requests, NEW k \in Keys, ReleaseOnDone(r, k) PROVE HoldingOK'
  <2>1. slots' \in [Keys -> SUBSET Ids]
    BY <1>4, SlotsTyped DEF ReleaseOnDone, Released, HoldingOK
  <2>2. /\ userSlot' \in [Requests -> Nat] /\ slot' \in [Requests -> Nat]
        /\ UNCHANGED pc /\ \A q \in Requests : slot'[q] # 0 => slot[q] # 0
    BY <1>4 DEF ReleaseOnDone, HoldingOK
  <2>. QED
    BY <1>1, <2>1, <2>2 DEF HoldingOK
<1>5. ASSUME NEW r \in Requests, Disconnect(r) PROVE HoldingOK'
  BY <1>2, <1>5 DEF Disconnect, leases, HoldingOK
<1>6. ASSUME NEW k \in Keys, NEW id, SlotLapses(k, id) PROVE HoldingOK'
  BY <1>2, <1>6, SlotsTyped DEF SlotLapses, leases
<1>7. ASSUME NEW k \in Keys, WaitExpires(k) PROVE HoldingOK'
  BY <1>2, <1>7 DEF WaitExpires, leases, HoldingOK
<1>8. ASSUME NEW p \in Processes, Crash(p) PROVE HoldingOK'
  BY <1>2, <1>8 DEF Crash, leases, HoldingOK
<1>9. ASSUME NEW p \in Processes, Start(p) PROVE HoldingOK'
  BY <1>2, <1>9 DEF Start, leases, HoldingOK
<1>10. ASSUME NEW p \in Processes, CleanupStaleProcessSlots(p) PROVE HoldingOK'
  <2>1. slots' \in [Keys -> SUBSET Ids]
    BY <1>10 DEF CleanupStaleProcessSlots, CleanupSlots, CleanupWaits, RemoveForeign, HoldingOK
  <2>. QED
    BY <1>2, <1>10, <2>1 DEF CleanupStaleProcessSlots, leases
<1>11. CASE UNCHANGED vars
  BY <1>2, <1>11 DEF vars, leases, HoldingOK
<1>. QED
  BY <1>3, <1>4, <1>5, <1>6, <1>7, <1>8, <1>9, <1>10, <1>11 DEF Next

\* What the other variables range over.
PlacesOK ==
    /\ home    \in [Requests -> Processes]
    /\ gone    \subseteq Requests
    /\ process \in [Processes -> {"off", "accounts", "users", "accountWaits",
                                  "userWaits", "up", "down"}]
    /\ cut     \subseteq Requests \X Keys
    /\ drifted \subseteq Keys

MemoryOK ==
    /\ failed     \in [Requests -> SUBSET Accounts]
    /\ overloaded \in [Requests -> BOOLEAN]
    /\ tried      \in [Requests -> SUBSET Accounts]
    /\ fallback   \in [Requests -> BOOLEAN]

LEMMA HandlerMemory ==
  ASSUME HandlersTyped, MemoryOK, NEW r \in Requests, Handler(r)
  PROVE  MemoryOK'
<1>1. /\ failed \in [Requests -> SUBSET Accounts] /\ overloaded \in [Requests -> BOOLEAN]
      /\ tried \in [Requests -> SUBSET Accounts] /\ fallback \in [Requests -> BOOLEAN]
  BY DEF MemoryOK
<1>2. ASSUME UNCHANGED failed \/ failed' = [failed EXCEPT ![r] = {}],
             UNCHANGED overloaded,
             UNCHANGED tried \/ tried' = [tried EXCEPT ![r] = {}],
             UNCHANGED fallback
      PROVE  MemoryOK'
  BY <1>1, <1>2 DEF MemoryOK
<1>3. CASE AcquireUserSlot(r) \/ UserWaitEnds(r) \/ LeaveUserQueue(r) \/ NotEligible(r)
  BY <1>2, <1>3 DEF AcquireUserSlot, UserWaitEnds, LeaveUserQueue, NotEligible, local, failoverVars
<1>4. ASSUME NEW a \in Accounts, TryAcquire(r, a) \/ PlanWait(r, a) PROVE MemoryOK'
  BY <1>2, <1>4 DEF TryAcquire, PlanWait, local, failoverVars
<1>5. CASE Hydrated(r) \/ NotUsed(r)
  BY <1>2, <1>5 DEF Hydrated, NotUsed, local, failoverVars
<1>6. CASE NoneAvailable(r) \/ NotHydrated(r)
  BY <1>2, <1>6 DEF NoneAvailable, NotHydrated, SelectionFailed, HandleSelectionExhausted,
                    failoverVars
<1>7. CASE QueueForAccount(r) \/ AcquireAccountSlot(r) \/ AccountWaitEnds(r)
           \/ LeaveAccountQueue(r) \/ UpstreamAnswers(r)
  BY <1>2, <1>7 DEF QueueForAccount, AcquireAccountSlot, AccountWaitEnds, LeaveAccountQueue,
                    UpstreamAnswers, local, failoverVars
<1>8. CASE GiveBack(r)
  <2>1. account[r] \in Accounts
    BY <1>8 DEF GiveBack, HandlersTyped, OnAccount
  <2>2. UNCHANGED <<fallback, failed, overloaded>>
    BY <1>8 DEF GiveBack, failoverVars
  <2>3. tried' = [tried EXCEPT ![r] = @ \cup {account[r]}] \/ UNCHANGED tried
    BY <1>8 DEF GiveBack
  <2>4. tried' \in [Requests -> SUBSET Accounts]
    BY <1>1, <2>1, <2>3
  <2>. QED
    BY <1>1, <2>2, <2>4 DEF MemoryOK
<1>9. CASE EndCall(r)
  <2>1. account[r] \in Accounts /\ UNCHANGED tried
    BY <1>9 DEF EndCall, HandlersTyped, OnAccount
  <2>2. UNCHANGED fallback \/ fallback' = [fallback EXCEPT ![r] = TRUE]
    BY <1>9 DEF EndCall
  <2>3. \/ UNCHANGED failoverVars
        \/ \E retryable, is503 \in BOOLEAN : HandleFailoverError(r, account[r], retryable, is503)
        \/ NewFailoverState(r)
    BY <1>9 DEF EndCall
  <2>4. failed' \in [Requests -> SUBSET Accounts] /\ overloaded' \in [Requests -> BOOLEAN]
    <3>1. ASSUME NEW retryable \in BOOLEAN, NEW is503 \in BOOLEAN,
                 HandleFailoverError(r, account[r], retryable, is503)
          PROVE  failed' \in [Requests -> SUBSET Accounts] /\ overloaded' \in [Requests -> BOOLEAN]
      <4>1. overloaded' \in [Requests -> BOOLEAN]
        BY <1>1, <3>1 DEF HandleFailoverError
      <4>2. UNCHANGED failed \/ failed' = [failed EXCEPT ![r] = @ \cup {account[r]}]
        BY <3>1 DEF HandleFailoverError
      <4>. QED
        BY <1>1, <2>1, <4>1, <4>2
    <3>. QED
      BY <1>1, <2>3, <3>1 DEF NewFailoverState, failoverVars
  <2>5. fallback' \in [Requests -> BOOLEAN]
    BY <1>1, <2>2
  <2>. QED
    BY <1>1, <2>1, <2>4, <2>5 DEF MemoryOK
<1>10. CASE Finish(r)
  BY <1>1, <1>10 DEF Finish, NewFailoverState, MemoryOK
<1>. QED
  BY <1>3, <1>4, <1>5, <1>6, <1>7, <1>8, <1>9, <1>10 DEF Handler

LEMMA MemoryStep ==
  ASSUME HandlersTyped, MemoryOK, [Next]_vars
  PROVE  MemoryOK'
<1>1. ASSUME UNCHANGED local PROVE MemoryOK'
  BY <1>1 DEF MemoryOK, local, failoverVars
<1>2. ASSUME NEW r \in Requests, NEW p \in Processes, Arrive(r, p) PROVE MemoryOK'
  BY <1>1, <1>2 DEF Arrive
<1>3. ASSUME NEW r \in Requests, Disconnect(r) \/ \E k \in Keys : ReleaseOnDone(r, k)
      PROVE  MemoryOK'
  BY <1>1, <1>3 DEF Disconnect, ReleaseOnDone
<1>4. ASSUME NEW k \in Keys, WaitExpires(k) \/ \E id : SlotLapses(k, id) PROVE MemoryOK'
  BY <1>1, <1>4 DEF WaitExpires, SlotLapses
<1>5. ASSUME NEW p \in Processes, Crash(p) \/ Start(p) \/ CleanupStaleProcessSlots(p)
      PROVE  MemoryOK'
  BY <1>1, <1>5 DEF Crash, Start, CleanupStaleProcessSlots
<1>6. CASE UNCHANGED vars
  BY <1>1, <1>6 DEF vars
<1>. QED
  BY <1>2, <1>3, <1>4, <1>5, <1>6, HandlerMemory DEF Next

LEMMA HandlerPlaces ==
  ASSUME HandlersTyped, PlacesOK, NEW r \in Requests, Handler(r)
  PROVE  PlacesOK'
<1>1. /\ User \in Keys
      /\ \A a \in Accounts : a \in Keys
  BY DEF Keys
<1>2. ASSUME UNCHANGED <<home, process>>, gone' \subseteq gone, cut' \subseteq cut,
             drifted' \subseteq Keys
      PROVE  PlacesOK'
  BY <1>2 DEF PlacesOK
<1>3. drifted \subseteq Keys
  BY DEF PlacesOK
<1>. USE DEF Faultless, Drift, Leak, ghosts
<1>4. ASSUME NEW k \in Keys, Released(r, k) PROVE UNCHANGED drifted
  BY <1>4 DEF Released
<1>5. ASSUME NEW k \in Keys, Uncount(r, k) PROVE drifted' \subseteq Keys
  BY <1>3, <1>5 DEF Uncount
<1>6. CASE AcquireUserSlot(r) \/ UserWaitEnds(r) \/ NotEligible(r)
  BY <1>2, <1>3, <1>6 DEF AcquireUserSlot, UserWaitEnds, NotEligible
<1>7. CASE LeaveUserQueue(r)
  BY <1>1, <1>2, <1>5, <1>7 DEF LeaveUserQueue
<1>8. ASSUME NEW a \in Accounts, TryAcquire(r, a) \/ PlanWait(r, a) PROVE PlacesOK'
  BY <1>2, <1>3, <1>8 DEF TryAcquire, PlanWait
<1>9. CASE Hydrated(r) \/ NotUsed(r) \/ NoneAvailable(r) \/ UpstreamAnswers(r)
           \/ AccountWaitEnds(r)
  BY <1>2, <1>3, <1>9 DEF Hydrated, NotUsed, NoneAvailable, UpstreamAnswers, AccountWaitEnds
<1>10. CASE NotHydrated(r)
  BY <1>2, <1>3, <1>10 DEF NotHydrated, Dropped
<1>11. CASE GiveBack(r) \/ EndCall(r)
  <2>1. account[r] \in Keys /\ Released(r, account[r]) /\ Dropped(r)
    BY <1>1, <1>11 DEF GiveBack, EndCall, HandlersTyped, OnAccount
  <2>2. UNCHANGED <<home, process, gone>>
    BY <1>11 DEF GiveBack, EndCall
  <2>. QED
    BY <1>2, <1>3, <1>4, <2>1, <2>2 DEF Dropped
<1>12. CASE QueueForAccount(r) \/ LeaveAccountQueue(r)
  <2>1. account[r] \in Keys
    BY <1>1, <1>12 DEF QueueForAccount, LeaveAccountQueue, HandlersTyped, OnAccount
  <2>2. drifted' \subseteq Keys
    BY <1>3, <1>5, <1>12, <2>1 DEF QueueForAccount, LeaveAccountQueue
  <2>3. UNCHANGED <<home, process, gone, cut>>
    BY <1>12 DEF QueueForAccount, LeaveAccountQueue
  <2>. QED
    BY <1>2, <2>2, <2>3
<1>13. CASE AcquireAccountSlot(r)
  BY <1>2, <1>3, <1>13 DEF AcquireAccountSlot
<1>14. CASE Finish(r)
  BY <1>1, <1>2, <1>3, <1>4, <1>14 DEF Finish
<1>. QED
  BY <1>6, <1>7, <1>8, <1>9, <1>10, <1>11, <1>12, <1>13, <1>14 DEF Handler

LEMMA PlacesStep ==
  ASSUME HandlersTyped, PlacesOK, [Next]_vars
  PROVE  PlacesOK'
<1>1. /\ home \in [Requests -> Processes] /\ gone \subseteq Requests
      /\ process \in [Processes -> {"off", "accounts", "users", "accountWaits",
                                    "userWaits", "up", "down"}]
      /\ cut \subseteq Requests \X Keys /\ drifted \subseteq Keys
  BY DEF PlacesOK
<1>2. \A keys \in SUBSET Keys : \A ids : Cut(keys, ids) \subseteq Requests \X Keys
  BY DEF Cut
<1>3. ASSUME NEW r \in Requests, NEW p \in Processes, Arrive(r, p) PROVE PlacesOK'
  BY <1>1, <1>3 DEF Arrive, Faultless, Drift, PlacesOK, Keys
<1>4. ASSUME NEW r \in Requests, Disconnect(r) PROVE PlacesOK'
  BY <1>1, <1>4 DEF Disconnect, ghosts, PlacesOK
<1>5. ASSUME NEW r \in Requests, NEW k \in Keys, ReleaseOnDone(r, k) PROVE PlacesOK'
  BY <1>1, <1>5 DEF ReleaseOnDone, Released, Faultless, Leak, PlacesOK
<1>6. ASSUME NEW k \in Keys, NEW id, SlotLapses(k, id) PROVE PlacesOK'
  <2>1. cut' \subseteq Requests \X Keys
    BY <1>1, <1>2, <1>6 DEF SlotLapses
  <2>2. UNCHANGED <<home, gone, process, drifted>>
    BY <1>6 DEF SlotLapses
  <2>. QED
    BY <1>1, <2>1, <2>2 DEF PlacesOK
<1>7. ASSUME NEW k \in Keys, WaitExpires(k) PROVE PlacesOK'
  BY <1>1, <1>7 DEF WaitExpires, PlacesOK
<1>8. ASSUME NEW p \in Processes, Crash(p) PROVE PlacesOK'
  BY <1>1, <1>8 DEF Crash, PlacesOK
<1>9. ASSUME NEW p \in Processes, Start(p) PROVE PlacesOK'
  BY <1>1, <1>9 DEF Start, ghosts, PlacesOK
<1>10. ASSUME NEW p \in Processes, CleanupStaleProcessSlots(p) PROVE PlacesOK'
  <2>1. UNCHANGED <<home, gone>>
    BY <1>10 DEF CleanupStaleProcessSlots
  <2>2. process' \in [Processes -> {"off", "accounts", "users", "accountWaits",
                                    "userWaits", "up", "down"}]
    BY <1>1, <1>10 DEF CleanupStaleProcessSlots
  <2>3. cut' \subseteq Requests \X Keys /\ drifted' \subseteq Keys
    <3>1. ASSUME NEW keys \in SUBSET Keys, CleanupSlots(p, keys) \/ CleanupWaits(keys)
          PROVE  cut' \subseteq Requests \X Keys /\ drifted' \subseteq Keys
      BY <1>1, <1>2, <3>1 DEF CleanupSlots, CleanupWaits
    <3>2. Accounts \in SUBSET Keys /\ {User} \in SUBSET Keys
      BY DEF Keys
    <3>3. \/ CleanupSlots(p, Accounts) \/ CleanupSlots(p, {User})
          \/ CleanupWaits(Accounts) \/ CleanupWaits({User})
          \/ UNCHANGED <<cut, drifted>>
      BY <1>10 DEF CleanupStaleProcessSlots
    <3>. QED
      BY <1>1, <3>1, <3>2, <3>3
  <2>. QED
    BY <2>1, <2>2, <2>3, <1>1 DEF PlacesOK
<1>11. CASE UNCHANGED vars
  BY <1>1, <1>11 DEF vars, ghosts, PlacesOK
<1>. QED
  BY <1>3, <1>4, <1>5, <1>6, <1>7, <1>8, <1>9, <1>10, <1>11, HandlerPlaces DEF Next

\* The type invariant of the gateway.  The hard part is the ids: a request always
\* finds one that is not in use, because a slot nobody remembers cost it a fault,
\* so every id Redis holds is one that Ids declares.

\* The type invariant of the gateway (TypeOK).  The hard part is the ids: the slots
\* nobody remembers cost the request that left them a fault each, so generateRequestID,
\* of as many ids as there are faults and two, always finds one that is not in use.
THEOREM GatewayTypes == Spec => []TypeOK
<1>. DEFINE Counters == CountsOK /\ StraysOK /\ AttemptsOK
            Places   == HoldingOK /\ FewStrays /\ PlacesOK /\ MemoryOK
<1>1. Init => HandlersTyped /\ SlotsOK /\ Counters
  BY StartsEmpty, NobodyWaits, NothingLeft, NothingSpent
<1>2. Init => Places
  <2>. SUFFICES ASSUME Init PROVE Places
    OBVIOUS
  <2>1. HoldingOK
    BY GatewayAssumption DEF Init, HoldingOK
  <2>2. FewStrays
    <3>1. Strays = {} /\ faults = 0
      BY DEF Init, Strays
    <3>2. \A r \in Requests : OwnStrays(r) = {}
      BY <3>1 DEF OwnStrays
    <3>3. IsFiniteSet({}) /\ Cardinality({}) = 0
      BY FS_EmptySet
    <3>. QED
      BY <3>1, <3>2, <3>3 DEF FewStrays
  <2>3. PlacesOK
    <3>1. FirstProcess \in Processes
      BY GatewayAssumption DEF FirstProcess
    <3>. QED
      BY <3>1 DEF Init, PlacesOK
  <2>4. MemoryOK
    BY DEF Init, FailoverInit, MemoryOK
  <2>. QED
    BY <2>1, <2>2, <2>3, <2>4
<1>3. HandlersTyped /\ SlotsOK /\ Counters /\ Places /\ [Next]_vars
        => HandlersTyped' /\ SlotsOK' /\ Counters'
  BY HandlersStep, SlotsStep, CountsStep, StraysStep, AttemptsStep
<1>4. HandlersTyped /\ SlotsOK /\ Counters /\ Places /\ [Next]_vars => Places'
  BY HoldingStep, FewStep, PlacesStep, MemoryStep
<1>5. HandlersTyped /\ SlotsOK /\ Counters /\ Places => TypeOK
  <2>. SUFFICES ASSUME HandlersTyped, SlotsOK, Counters, Places PROVE TypeOK
    OBVIOUS
  <2>1. CacheTypeOK
    BY DEF CountsOK, HoldingOK, CacheTypeOK
  <2>2. FailoverTypeOK
    BY DEF AttemptsOK, CountersTyped, MemoryOK, FailoverTypeOK
  <2>3. pc \in [Requests -> Steps] /\ account \in [Requests -> Accounts \cup {NoAccount}]
    BY DEF HandlersTyped
  <2>4. /\ userSlot \in [Requests -> Nat] /\ slot \in [Requests -> Nat]
        /\ faults \in 0 .. MaxFaults
    BY DEF HoldingOK
  <2>5. attempts \in [Requests -> Nat] /\ leaks \in Nat
    BY DEF AttemptsOK, CountersTyped, StraysOK
  <2>6. tried \in [Requests -> SUBSET Accounts] /\ fallback \in [Requests -> BOOLEAN]
    BY DEF MemoryOK
  <2>. QED
    BY <2>1, <2>2, <2>3, <2>4, <2>5, <2>6 DEF PlacesOK, TypeOK
<1>. HIDE DEF Counters, Places
<1>. QED
  BY <1>1, <1>2, <1>3, <1>4, <1>5, PTL DEF Spec
=============================================================================
