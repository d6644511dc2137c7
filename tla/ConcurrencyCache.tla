-------------------------- MODULE ConcurrencyCache --------------------------
(***************************************************************************)
(* The Redis keys behind the concurrency limits: a sorted set of slots and *)
(* a wait counter for the user and for every account.  Each operator is    *)
(* one script or command, which Redis runs alone.                          *)
(*                                                                         *)
(* Times are left out: a slot whose score is too old no longer counts for  *)
(* anyone, so it is removed at the moment it lapses.                       *)
(***************************************************************************)
EXTENDS Integers, FiniteSets

CONSTANTS
    Keys,     \* the user and the accounts
    Ids,      \* request ids
    Limit,    \* Concurrency of each key
    MaxWait   \* how many may wait for it

VARIABLES
    slots,    \* request ids in the sorted set of each key
    waiting   \* wait counter of each key

CacheTypeOK ==
    /\ slots   \in [Keys -> SUBSET Ids]
    /\ waiting \in [Keys -> Nat]

CacheInit ==
    /\ slots   = [k \in Keys |-> {}]
    /\ waiting = [k \in Keys |-> 0]

-----------------------------------------------------------------------------
\* Mutant: one slot more than the limit.
Full_OffByOne(k) == Cardinality(slots[k]) > Limit[k]

Full(k) == Cardinality(slots[k]) >= Limit[k]

\* The acquire script when it adds the slot.
Acquire(k, id) ==
    /\ ~Full(k)
    /\ slots' = [slots EXCEPT ![k] = @ \cup {id}]

ReleaseSlot(k, id) == slots' = [slots EXCEPT ![k] = @ \ {id}]

QueueFull(k) == waiting[k] >= MaxWait[k]

IncrementWait(k) ==
    /\ ~QueueFull(k)
    /\ waiting' = [waiting EXCEPT ![k] = @ + 1]

DecrementWait(k) ==
    waiting' = [waiting EXCEPT ![k] = IF @ > 0 THEN @ - 1 ELSE 0]

\* The startup script on the keys of one pattern.
RemoveForeign(keys, mine) ==
    slots' = [k \in Keys |-> IF k \in keys THEN slots[k] \cap mine ELSE slots[k]]

DeleteWaits(keys) ==
    waiting' = [k \in Keys |-> IF k \in keys THEN 0 ELSE waiting[k]]
==============================================================================
