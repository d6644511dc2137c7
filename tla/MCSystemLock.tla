----------------------------- MODULE MCSystemLock -----------------------------
EXTENDS SystemLock, TLC

RequestSymmetry == Permutations(Workers) \cup Permutations(Prints)
==============================================================================
