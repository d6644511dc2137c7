--------------------------- MODULE MCUsageBilling ---------------------------
(* Model-checking instance of UsageBilling. *)
EXTENDS UsageBilling
==============================================================================
