--------------------------- MODULE MCOrderAdmission ---------------------------
EXTENDS OrderAdmission, TLC

OrderSymmetry == Permutations(Workers) \cup Permutations(Orders)
==============================================================================
