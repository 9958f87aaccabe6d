------------------------------ MODULE MCModule ------------------------------
EXTENDS FastRpcModule, TLC
CONSTANTS d1, d2, d3

\* Two context banks of the first channel, one of the second.
MCChanOf == [d \in Devices |-> IF d = d3 THEN 2 ELSE 1]

MCSymmetry == Permutations({d1, d2})
=============================================================================
