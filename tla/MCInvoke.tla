------------------------------ MODULE MCInvoke ------------------------------
EXTENDS FastRpcInvoke, TLC
CONSTANTS t1, t2, f1, f2, d1, d2, c1, c2, c3

MCFileCid == [f \in Files |-> d1]
\* c1 and c2 lie in one page of memory, c3 in another.
MCCtxPage == [c \in Ctxs |-> IF c = c3 THEN 2 ELSE 1]
MCSymmetry == Permutations(Threads) \cup Permutations(Ctxs \ {c3})
=============================================================================
