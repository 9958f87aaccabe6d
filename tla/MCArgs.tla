------------------------------- MODULE MCArgs -------------------------------
EXTENDS FastRpcArgs

MCBuffers == {[start |-> s, len |-> l, map |-> m] :
                s \in 1 .. 5, l \in {0, 1, 3}, m \in {"copy", "cached"}}
             \cup {[start |-> 2, len |-> 2, map |-> "uncached"]}
\* Copies that together come near or beyond the largest size_t, or are longer than
\* LONG_MAX.
MCLong == {[start |-> s, len |-> l, map |-> "copy"] : s \in {1, 2, 8}, l \in {4, 5, 7, 8, 13}}
\* Three buffers, the last of which is an output; the coherence of the session
\* only switches the maintenance off.
MCCalls == [bufs : [1 .. 3 -> MCBuffers], inbufs : {2}, coherent : {FALSE}]
           \cup [bufs : [1 .. 2 -> MCBuffers], inbufs : {0, 1}, coherent : BOOLEAN]
           \cup [bufs : [1 .. 2 -> MCLong], inbufs : {0}, coherent : {FALSE}]
=============================================================================
