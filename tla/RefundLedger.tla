----------------------------- MODULE RefundLedger -----------------------------
(***************************************************************************)
(* What refunding promises for a completed order, whatever requests run:   *)
(* one refund at a time; under it at most one deduction and one payback,   *)
(* each of them made knowing the books; and an end that is true to them:   *)
(* either the provider has paid, or the order can be refunded again with   *)
(* nothing deducted that was not noted.  Once the refunds have been misled *)
(* about their own effects, only the locking and "refunded means paid back"*)
(* remain.                                                                 *)
(***************************************************************************)
EXTENDS Integers

CONSTANTS
    Orders,
    NoTrade,   \* orders that the provider cannot pay back
    Price

VARIABLES
    state,     \* of an order: open, locked or refunded
    paid,      \* how often the provider has paid it back
    taken,     \* what was deducted for it and not given back
    noted,     \* orders with a note that a deduction was not given back
    misled

books == <<paid, taken, noted>>
vars  == <<state, books, misled>>

Init ==
    /\ state = [o \in Orders |-> "open"]
    /\ paid  = [o \in Orders |-> 0]
    /\ taken = [o \in Orders |-> 0]
    /\ noted = {}
    /\ misled = FALSE

\* What a refund relies on, unless this step or an earlier one misleads it.
Relying(fact) == misled' \/ fact

Becomes(o, s) == state' = [state EXCEPT ![o] = s] /\ UNCHANGED books

Lock(o) == state[o] = "open" /\ Becomes(o, "locked")

Deduct(o, n) ==
    /\ state[o] = "locked"
    /\ Relying(paid[o] = 0 /\ taken[o] = 0 /\ o \notin noted)
    /\ taken' = [taken EXCEPT ![o] = @ + n]
    /\ UNCHANGED <<state, paid, noted>>

PayBack(o) ==
    /\ state[o] = "locked" /\ o \notin NoTrade
    /\ Relying(paid[o] = 0)
    /\ paid' = [paid EXCEPT ![o] = @ + 1]
    /\ UNCHANGED <<state, taken, noted>>

GiveBack(o, n) ==
    /\ state[o] = "locked"
    /\ Relying(paid[o] = 0 /\ taken[o] = n)
    /\ taken' = [taken EXCEPT ![o] = @ - n]
    /\ UNCHANGED <<state, paid, noted>>

Note(o) ==
    /\ state[o] = "locked"
    /\ Relying(paid[o] = 0)
    /\ noted' = noted \cup {o}
    /\ UNCHANGED <<state, paid, taken>>

Finish(o) ==
    /\ state[o] = "locked"
    /\ o \in NoTrade \/ paid[o] >= 1
    /\ Becomes(o, "refunded")

Release(o) ==
    /\ state[o] = "locked"
    /\ Relying(paid[o] = 0 /\ (taken[o] = 0 \/ o \in noted))
    /\ Becomes(o, "open")

Refund(o) ==
    \/ Lock(o) \/ PayBack(o) \/ Note(o) \/ Finish(o) \/ Release(o)
    \/ \E n \in 1..Price : Deduct(o, n) \/ GiveBack(o, n)

Next ==
    /\ misled' \in {misled, TRUE}
    /\ (\E o \in Orders : Refund(o)) \/ UNCHANGED <<state, books>>

Spec == Init /\ [][Next]_vars
===============================================================================
