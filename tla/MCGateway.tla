------------------------------ MODULE MCGateway ------------------------------
(* Model-checking instance of Gateway. *)
EXTENDS Gateway, TLC

Ones == [k \in Keys |-> 1]
UserLimit == [k \in Keys |-> IF k = User THEN 2 ELSE 1]

MovedOn(r) == attempts[r] > 1 \/ fallback[r] \/ failed[r] # {} \/ overloaded[r]

\* Bounds: one request at a time fails over, what it remembers is its own; and
\* failing over, faults, and a third request at the same time come one by one;
\* while two processes run, only two requests have begun.
Bounds ==
    LET moved  == {r \in Requests : MovedOn(r)}
        active == {r \in Requests : Active(r)}
    IN  /\ Cardinality(moved) <= 1
        /\ Cardinality(active) > 2 => moved = {} /\ faults = 0
        /\ faults > 0 => moved = {}
        /\ (\A p \in Processes : process[p] \notin {"off", "down"}) =>
              Cardinality({r \in Requests : pc[r] # "new"}) <= 2

Symmetry == Permutations(Requests) \cup Permutations(Accounts)
==============================================================================
