--------------------------- MODULE MCTokenRefresh ---------------------------
(* Model-checking instance of TokenRefresh. *)
EXTENDS TokenRefresh, TLC

CONSTANTS p1, p2, b1, b2

Homes == (b1 :> p1) @@ (b2 :> p2)
==============================================================================
