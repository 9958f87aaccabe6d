------------------------------- MODULE MCFile -------------------------------
EXTENDS FastRpcFile, TLC
CONSTANTS t1, t2, f1

MCSymmetry == Permutations(Threads) \cup Permutations(Files)
=============================================================================
