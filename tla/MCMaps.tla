------------------------------- MODULE MCMaps -------------------------------
EXTENDS FastRpcMaps, TLC
CONSTANTS t1, t2, f1, d1, m1, m2, b1, b2

MCFileOf == [t \in Threads |-> f1]
MCSymmetry == Permutations(Maps) \cup Permutations(Bufs) \cup Permutations(Threads)
=============================================================================
