------------------------------- MODULE MCRefund -------------------------------
EXTENDS Refund, TLC

WorkerSymmetry == Permutations(Workers)
==============================================================================
