------------------------------ MODULE OnceOnly ------------------------------
(***************************************************************************)
(* What an idempotency key promises, whatever requests carry it: one       *)
(* attempt at a time, a new one only after one that has had no effect, and *)
(* a kept answer only after the effect.                                    *)
(***************************************************************************)
EXTENDS Naturals

CONSTANT Keys

VARIABLES
    state,    \* of a key: free, running, abandoned or answered
    effects   \* how often its operation has taken effect

vars == <<state, effects>>

Init ==
    /\ state   = [k \in Keys |-> "free"]
    /\ effects = [k \in Keys |-> 0]

Becomes(k, s) == state' = [state EXCEPT ![k] = s] /\ UNCHANGED effects

\* Whoever takes the key may be gone before it knows.
Claim(k) ==
    /\ state[k] = "free" /\ effects[k] = 0
    /\ \E s \in {"running", "abandoned"} : Becomes(k, s)

Apply(k) ==
    /\ state[k] = "running" /\ effects[k] = 0
    /\ effects' = [effects EXCEPT ![k] = 1]
    /\ UNCHANGED state

GiveUp(k) ==
    /\ state[k] = "running" /\ effects[k] = 0
    /\ Becomes(k, "free")

Vanish(k) == state[k] = "running" /\ Becomes(k, "abandoned")

Keep(k) ==
    /\ state[k] = "running" /\ effects[k] = 1
    /\ Becomes(k, "answered")

Next == \E k \in Keys : Claim(k) \/ Apply(k) \/ GiveUp(k) \/ Vanish(k) \/ Keep(k)

Spec == Init /\ [][Next]_vars
=============================================================================
