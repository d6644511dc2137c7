--------------------------- MODULE MCPaymentOrder ---------------------------
(* Model-checking instances of PaymentOrder. *)
EXTENDS PaymentOrder, TLC, FiniteSets

\* Bound: one order at a time, of either kind; orders do not interact here.
OneOrder == Cardinality({o \in Orders : status[o] # "none"}) <= 1

WorkerSymmetry == Permutations(Workers)
=============================================================================
