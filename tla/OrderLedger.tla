---------------------------- MODULE OrderLedger ----------------------------
(***************************************************************************)
(* What the payment system promises for a balance order, whatever requests *)
(* run: money received, then granted to the user, then the inviter's rebate*)
(* decided, then the order closed - each at most once, in this order.      *)
(***************************************************************************)
EXTENDS Naturals

CONSTANT Accounts

VARIABLES paid, granted, decided, closed

vars == <<paid, granted, decided, closed>>

Init ==
    /\ paid    = [a \in Accounts |-> FALSE]
    /\ granted = [a \in Accounts |-> 0]
    /\ decided = [a \in Accounts |-> FALSE]
    /\ closed  = [a \in Accounts |-> FALSE]

Pay(a) ==
    /\ ~paid[a]
    /\ paid' = [paid EXCEPT ![a] = TRUE]
    /\ UNCHANGED <<granted, decided, closed>>

Grant(a) ==
    /\ paid[a] /\ granted[a] = 0
    /\ granted' = [granted EXCEPT ![a] = 1]
    /\ UNCHANGED <<paid, decided, closed>>

Decide(a) ==
    /\ granted[a] = 1 /\ ~decided[a]
    /\ decided' = [decided EXCEPT ![a] = TRUE]
    /\ UNCHANGED <<paid, granted, closed>>

Close(a) ==
    /\ decided[a] /\ ~closed[a]
    /\ closed' = [closed EXCEPT ![a] = TRUE]
    /\ UNCHANGED <<paid, granted, decided>>

Next == \E a \in Accounts : Pay(a) \/ Grant(a) \/ Decide(a) \/ Close(a)

Spec == Init /\ [][Next]_vars
=============================================================================
