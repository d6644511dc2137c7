------------------------ MODULE OrderAdmissionProofs ------------------------
(***************************************************************************)
(* Proofs about OrderAdmission: by how much concurrent requests of a user  *)
(* can exceed the limit of pending orders.                                 *)
(***************************************************************************)
EXTENDS OrderAdmission, FiniteSetTheorems, TLAPS

\* The requests that have passed the count and may still insert.
Past == {w \in Workers : pc[w] \in {"daily", "insert"}}

\* A request that passes the count saw fewer orders than the limit, and every
\* order inserted since was inserted by a request that had passed it too.
Room == Cardinality(Pending) + Cardinality(Past)
            <= MaxPending + Cardinality(Workers) - 1

Inv == TypeOK /\ IsFiniteSet(Pending) /\ Room

-----------------------------------------------------------------------------
LEMMA SubsetCount ==
  ASSUME NEW S, IsFiniteSet(S), NEW T, T \subseteq S
  PROVE  /\ IsFiniteSet(T)
         /\ Cardinality(T) \in Nat /\ Cardinality(S) \in Nat
         /\ Cardinality(T) <= Cardinality(S)
  BY FS_Subset, FS_CardinalityType

LEMMA PastCount ==
  IsFiniteSet(Past) /\ Cardinality(Past) \in Nat
    /\ Cardinality(Workers) \in Nat
    /\ Cardinality(Past) <= Cardinality(Workers)
<1>1. Past \subseteq Workers
  BY DEF Past
<1> QED BY <1>1, SubsetCount, WorkerAssumption

\* A step after which no more orders are pending and no more requests are past
\* the count.
LEMMA NoMore ==
  ASSUME Inv, Pending' \subseteq Pending, Past' \subseteq Past, TypeOK'
  PROVE  Inv'
<1>1. /\ IsFiniteSet(Pending')
      /\ Cardinality(Pending') \in Nat /\ Cardinality(Pending) \in Nat
      /\ Cardinality(Pending') <= Cardinality(Pending)
  BY SubsetCount DEF Inv
<1>2. /\ Cardinality(Past') \in Nat /\ Cardinality(Past) \in Nat
      /\ Cardinality(Past') <= Cardinality(Past)
      /\ Cardinality(Workers) \in Nat
  BY PastCount, SubsetCount
<1>3. Room
  BY DEF Inv
<1>4. Room'
  BY <1>1, <1>2, <1>3, LimitAssumption DEF Room
<1> QED BY <1>1, <1>4 DEF Inv

LEMMA InitInv == Init => Inv
<1> SUFFICES ASSUME Init PROVE Inv
  OBVIOUS
<1>1. TypeOK
  BY DEF Init, TypeOK, Steps
<1>2. Pending = {} /\ Past = {}
  BY DEF Init, Pending, Past
<1>3. IsFiniteSet({}) /\ Cardinality({}) = 0
  BY FS_EmptySet
<1>4. Cardinality(Workers) \in Nat
  BY FS_CardinalityType, WorkerAssumption
<1>5. Room
  BY <1>2, <1>3, <1>4, LimitAssumption DEF Room
<1> QED BY <1>1, <1>2, <1>3, <1>5 DEF Inv

-----------------------------------------------------------------------------
LEMMA NextTypes == TypeOK /\ [Next]_vars => TypeOK'
<1> SUFFICES ASSUME TypeOK, [Next]_vars PROVE TypeOK'
  OBVIOUS
<1> USE LimitAssumption DEF TypeOK, Steps
<1>1. ASSUME NEW w \in Workers, NEW o \in Orders, NEW a \in Amounts, Request(w, o, a)
      PROVE  TypeOK'
  BY <1>1 DEF Request
<1>2. ASSUME NEW w \in Workers, CheckCancelRateLimit(w)
      PROVE  TypeOK'
  BY <1>2 DEF CheckCancelRateLimit, Goto, Refuse
<1>3. ASSUME NEW w \in Workers, CheckPendingLimit(w)
      PROVE  TypeOK'
  BY <1>3 DEF CheckPendingLimit, Goto, Refuse
<1>4. ASSUME NEW w \in Workers, CheckDailyLimit(w)
      PROVE  TypeOK'
  BY <1>4 DEF CheckDailyLimit, Goto, Refuse
<1>5. ASSUME NEW w \in Workers, InsertOrder(w)
      PROVE  TypeOK'
  BY <1>5 DEF InsertOrder, Refuse
<1>6. ASSUME NEW o \in Orders, UserCancels(o) \/ WriteAuditLog(o) \/ SystemCloses(o)
      PROVE  TypeOK'
  BY <1>6 DEF UserCancels, WriteAuditLog, SystemCloses
<1>7. ASSUME NEW o \in Orders, Pay(o) \/ NoLongerCounts(o)
      PROVE  TypeOK'
  BY <1>7 DEF Pay, NoLongerCounts
<1>8. ASSUME WindowPasses \/ UNCHANGED vars
      PROVE  TypeOK'
  BY <1>8 DEF WindowPasses, vars
<1> QED BY <1>1, <1>2, <1>3, <1>4, <1>5, <1>6, <1>7, <1>8 DEF Next

\* The request that passes the count sees fewer orders than the limit.
LEMMA PassCount ==
  ASSUME Inv, NEW w \in Workers, CheckPendingLimit(w), TypeOK'
  PROVE  Inv'
<1>1. Pending' = Pending
  BY DEF CheckPendingLimit, Pending
<1>2. CASE TooManyPending
  <2>1. Past' \subseteq Past
    BY <1>2 DEF CheckPendingLimit, Refuse, Past, Inv, TypeOK
  <2> QED BY <1>1, <2>1, NoMore
<1>3. CASE ~TooManyPending
  <2>1. Cardinality(Pending) \in Nat
    BY FS_CardinalityType DEF Inv
  <2>2. Cardinality(Pending) < MaxPending
    BY <1>3, <2>1, LimitAssumption DEF TooManyPending
  <2>3. /\ Cardinality(Past') \in Nat /\ Cardinality(Workers) \in Nat
        /\ Cardinality(Past') <= Cardinality(Workers)
    <3>1. Past' \subseteq Workers
      BY DEF Past
    <3> QED BY <3>1, SubsetCount, WorkerAssumption
  <2>4. Room'
    BY <1>1, <2>1, <2>2, <2>3, LimitAssumption DEF Room
  <2> QED BY <1>1, <2>4 DEF Inv
<1> QED BY <1>2, <1>3

\* The request that inserts its order is past the count no longer.
LEMMA InsertKeepsRoom ==
  ASSUME Inv, NEW w \in Workers, InsertOrder(w), TypeOK'
  PROVE  Inv'
<1>1. w \in Past /\ Past' = Past \ {w}
  BY DEF InsertOrder, Refuse, Past, Inv, TypeOK
<1>2. Pending' \subseteq Pending \cup {ord[w]}
  BY DEF InsertOrder, Pending, Inv, TypeOK
<1>3. /\ Cardinality(Past) \in Nat
      /\ Cardinality(Past') = Cardinality(Past) - 1
      /\ Cardinality(Workers) \in Nat
  BY <1>1, PastCount, FS_RemoveElement
<1>4. /\ IsFiniteSet(Pending \cup {ord[w]})
      /\ Cardinality(Pending) \in Nat
      /\ Cardinality(Pending \cup {ord[w]}) \in Nat
      /\ Cardinality(Pending \cup {ord[w]}) <= Cardinality(Pending) + 1
  <2>1. IsFiniteSet(Pending) /\ Cardinality(Pending) \in Nat
    BY FS_CardinalityType DEF Inv
  <2>2. /\ IsFiniteSet(Pending \cup {ord[w]})
        /\ Cardinality(Pending \cup {ord[w]}) =
               IF ord[w] \in Pending THEN Cardinality(Pending)
                                     ELSE Cardinality(Pending) + 1
    BY <2>1, FS_AddElement
  <2> QED BY <2>1, <2>2
<1>5. /\ IsFiniteSet(Pending')
      /\ Cardinality(Pending') \in Nat
      /\ Cardinality(Pending') <= Cardinality(Pending \cup {ord[w]})
  BY <1>2, <1>4, SubsetCount
<1>6. Room
  BY DEF Inv
<1>7. Room'
  BY <1>3, <1>4, <1>5, <1>6, LimitAssumption DEF Room
<1> QED BY <1>5, <1>7 DEF Inv

LEMMA NextInv == Inv /\ [Next]_vars => Inv'
<1> SUFFICES ASSUME Inv, [Next]_vars PROVE Inv'
  OBVIOUS
<1>t. TypeOK /\ TypeOK'
  BY NextTypes DEF Inv
<1>1. ASSUME NEW w \in Workers, NEW o \in Orders, NEW a \in Amounts, Request(w, o, a)
      PROVE  Inv'
  <2>1. Pending' \subseteq Pending /\ Past' \subseteq Past
    BY <1>t, <1>1 DEF Request, Pending, Past, TypeOK
  <2> QED BY <1>t, <2>1, NoMore
<1>2. ASSUME NEW w \in Workers, CheckCancelRateLimit(w)
      PROVE  Inv'
  <2>1. Pending' \subseteq Pending /\ Past' \subseteq Past
    BY <1>t, <1>2 DEF CheckCancelRateLimit, Goto, Refuse, Pending, Past, TypeOK
  <2> QED BY <1>t, <2>1, NoMore
<1>3. ASSUME NEW w \in Workers, CheckPendingLimit(w)
      PROVE  Inv'
  BY <1>t, <1>3, PassCount
<1>4. ASSUME NEW w \in Workers, CheckDailyLimit(w)
      PROVE  Inv'
  <2>1. Pending' \subseteq Pending /\ Past' \subseteq Past
    BY <1>t, <1>4 DEF CheckDailyLimit, Goto, Refuse, Pending, Past, TypeOK
  <2> QED BY <1>t, <2>1, NoMore
<1>5. ASSUME NEW w \in Workers, InsertOrder(w)
      PROVE  Inv'
  BY <1>t, <1>5, InsertKeepsRoom
<1>6. ASSUME NEW o \in Orders,
             \/ UserCancels(o) \/ WriteAuditLog(o) \/ SystemCloses(o)
             \/ Pay(o) \/ NoLongerCounts(o)
      PROVE  Inv'
  <2>1. Pending' \subseteq Pending
    BY <1>t, <1>6 DEF UserCancels, WriteAuditLog, SystemCloses, Pay,
                      NoLongerCounts, Pending, TypeOK
  <2>2. Past' = Past
    BY <1>6 DEF UserCancels, WriteAuditLog, SystemCloses, Pay, NoLongerCounts, Past
  <2> QED BY <1>t, <2>1, <2>2, NoMore
<1>7. ASSUME WindowPasses \/ UNCHANGED vars
      PROVE  Inv'
  <2>1. Pending' = Pending /\ Past' = Past
    BY <1>7 DEF WindowPasses, vars, Pending, Past
  <2> QED BY <1>t, <2>1, NoMore
<1> QED BY <1>1, <1>2, <1>3, <1>4, <1>5, <1>6, <1>7 DEF Next

LEMMA Invariance == Spec => []Inv
  BY InitInv, NextInv, PTL DEF Spec

-----------------------------------------------------------------------------
\* Every variable keeps its type; a request holds a row exactly while it is
\* under way.
THEOREM AdmissionTypes == Spec => []TypeOK
  BY Invariance, PTL DEF Inv

\* The pending limit that createOrderInTx checks without a lock is exceeded by
\* less than the number of the user's concurrent requests, whatever other limits
\* there are and however orders are paid, closed and cancelled meanwhile.
THEOREM OvershootBounded == Spec => []PendingOvershoot
<1>1. ASSUME Inv PROVE PendingOvershoot
  <2>1. Cardinality(Pending) \in Nat /\ Cardinality(Past) \in Nat
          /\ Cardinality(Workers) \in Nat
    BY <1>1, PastCount, FS_CardinalityType DEF Inv
  <2>2. Room
    BY <1>1 DEF Inv
  <2> QED BY <2>1, <2>2, LimitAssumption DEF Room, PendingOvershoot
<1> QED BY <1>1, Invariance, PTL
==============================================================================
