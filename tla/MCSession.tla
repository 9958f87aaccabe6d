------------------------------ MODULE MCSession ------------------------------
EXTENDS FastRpcSession, TLC
CONSTANTS t1, t2, f1, f2

MCSymmetry == Permutations(Threads) \cup Permutations(Files)
=============================================================================
