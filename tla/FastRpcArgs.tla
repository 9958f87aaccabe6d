----------------------------- MODULE FastRpcArgs -----------------------------
(***************************************************************************)
(* How the FastRPC driver (android/adsprpc.c) lays out the buffers of a    *)
(* call in the message to the DSP: the overlaps of the user's buffers      *)
(* (context_build_overlap), the length and the contents of the message     *)
(* buffer (get_args), and the cache maintenance before and after the call. *)
(*                                                                         *)
(* Each phase of the code is a step, which runs its loop as a fold over    *)
(* the sorted buffers. Bytes of the user and of the message are numbers;   *)
(* the message buffer begins at address 0, on a page, in both its virtual  *)
(* and its physical address space. Lengths are size_t and wrap around like *)
(* addresses. Handles are not laid out.                                    *)
(***************************************************************************)
EXTENDS Integers, Sequences, SequencesExt

CONSTANTS
  BALIGN,     \* alignment of copied buffers
  PAGE,       \* PAGE_SIZE
  LINE,       \* size of a cache line
  AddrMax,    \* 2^w for a uintptr_t and a size_t of w bits
  MetaLen,    \* metalen: size of the lists that precede the copies
  Calls       \* the calls to lay out

\* lpra[i] and ctx->maps[i]: a buffer is copied, or mapped cached or uncached.
Buffer == [start : 0 .. AddrMax - 1, len : 0 .. AddrMax - 1,
           map : {"copy", "cached", "uncached"}]

ASSUME ArgsAssumption ==
  /\ {BALIGN, PAGE, LINE, AddrMax} \subseteq Nat \ {0}
  /\ MetaLen \in Nat
  /\ \A c \in Calls : /\ \A i \in DOMAIN c.bufs : c.bufs[i] \in Buffer
                      /\ c.inbufs \in 0 .. Len(c.bufs)
                      /\ c.coherent \in BOOLEAN

VARIABLES
  pc,       \* the phase
  call,     \* the call: its buffers, how many are inputs, the session's coherence
  order,    \* ctx->overps: indices of buffers in sorted order
  overs,    \* ctx->overs
  copylen,  \* ctx->used
  lay,      \* rpra[i].buf.pv and the page list, from the copy loop
  flushed,  \* bytes of user memory cleaned before the call
  lines     \* cache lines cleaned by inv_args_pre

vars == <<pc, call, order, overs, copylen, lay, flushed, lines>>

\* A value of size_t or uintptr_t, and LONG_MAX.
Word(x) == x % AddrMax
LongMax == AddrMax \div 2 - 1

B(i) == call.bufs[i]
Idx == DOMAIN call.bufs
End(i) == Word(B(i).start + B(i).len)
Bytes(i) == B(i).start .. B(i).start + B(i).len - 1
Mapped(i) == B(i).map # "copy"
Skipped(i) == B(i).len = 0 \/ Mapped(i)

Align(x, a) == ((x + a - 1) \div a) * a
BufPageStart(x) == (x \div PAGE) * PAGE
BufNumPages(x, len) == (Word(x + len - 1) \div PAGE) - (x \div PAGE) + 1

Empty == [args |-> 0, rlen |-> 0, err |-> FALSE, pv |-> <<>>, page |-> <<>>]

Init ==
  /\ pc = "build"
  /\ call \in Calls
  /\ order = <<>>
  /\ overs = <<>>
  /\ copylen = 0
  /\ lay = Empty
  /\ flushed = {}
  /\ lines = {}

\* overlap_ptr_cmp(i, j) <= 0: by start, and the one that ends last first.
SortedBefore(i, j) ==
  \/ B(i).start < B(j).start
  \/ B(i).start = B(j).start /\ End(i) >= End(j)

\* What sort() can return; the order of equal elements is not defined.
Orders ==
  {p \in [Idx -> Idx] : /\ \A a, b \in Idx : p[a] = p[b] => a = b
                        /\ \A a, b \in Idx : a < b => SortedBefore(p[a], p[b])}

\* One step of the loop of context_build_overlap: the part of buffer i that the
\* buffers before it have not covered, and how far into i that part begins.
Overlap(acc, i) ==
  LET o == IF B(i).start < acc.max
           THEN IF End(i) > acc.max
                THEN [mstart |-> acc.max, mend |-> End(i), offset |-> acc.max - B(i).start]
                ELSE [mstart |-> 0, mend |-> 0, offset |-> acc.max - B(i).start]
           ELSE [mstart |-> B(i).start, mend |-> End(i), offset |-> 0]
  IN [max |-> IF B(i).start < acc.max /\ End(i) <= acc.max THEN acc.max ELSE End(i),
      o   |-> [acc.o EXCEPT ![i] = o]]

\* context_build_overlap; a buffer that wraps around is refused.
ContextBuildOverlap ==
  /\ pc = "build"
  /\ IF \E i \in Idx : B(i).len # 0 /\ End(i) <= B(i).start
     THEN pc' = "failed" /\ UNCHANGED <<order, overs>>
     ELSE \E p \in Orders :
            /\ order' = p
            /\ overs' = FoldLeft(Overlap,
                          [max |-> 0, o |-> [i \in Idx |-> [mstart |-> 0, mend |-> 0, offset |-> 0]]],
                          p).o
            /\ pc' = "size"
  /\ UNCHANGED <<call, copylen, lay, flushed, lines>>

\* Mutant of AddLength: the length is not aligned for the next group.
AddLengthUnaligned(acc, i) ==
  IF acc.err \/ Skipped(i) THEN acc
  ELSE LET mlen == Word(overs[i].mend - overs[i].mstart)
       IN [n |-> Word(acc.n + mlen), err |-> mlen > LongMax]

\* The loop of get_args that computes copylen. A part longer than LONG_MAX is
\* refused; the test copylen >= 0 of an unsigned number never fails.
AddLength(acc, i) ==
  IF acc.err \/ Skipped(i) THEN acc
  ELSE LET n    == IF overs[i].offset = 0 THEN Word(Align(acc.n, BALIGN)) ELSE acc.n
           mlen == Word(overs[i].mend - overs[i].mstart)
       IN [n |-> Word(n + mlen), err |-> mlen > LongMax]

\* ... and the allocation of the message buffer, which may fail. A length that wraps
\* around to 0 allocates none, and the NULL pointer ctx->buf is dereferenced.
GetArgsSize ==
  /\ pc = "size"
  /\ LET total == FoldLeft(AddLength, [n |-> MetaLen, err |-> FALSE], order)
     IN \/ /\ total.err
           /\ pc' = "failed"
           /\ UNCHANGED copylen
        \/ /\ ~ total.err
           /\ copylen' = total.n
           /\ pc' \in IF total.n = 0 THEN {"oops"} ELSE {"copy", "failed"}
  /\ UNCHANGED <<call, order, overs, lay, flushed, lines>>

\* The loop of get_args that places and copies buffer i.
PlaceArg(acc, i) ==
  IF acc.err \/ Skipped(i) THEN acc
  ELSE LET o    == overs[i]
           args == IF o.offset = 0 THEN Word(Align(acc.args, BALIGN)) ELSE acc.args
           rlen == Word(acc.rlen - (args - acc.args))
           mlen == Word(o.mend - o.mstart)
           pv   == Word(args - o.offset)
       IN IF rlen < mlen THEN [acc EXCEPT !.err = TRUE]
          ELSE [args |-> Word(args + mlen), rlen |-> rlen - mlen, err |-> FALSE,
                pv   |-> [acc.pv EXCEPT ![i] = pv],
                page |-> [acc.page EXCEPT ![i] =
                            [addr |-> BufPageStart(Word(copylen - rlen - o.offset)),
                             size |-> BufNumPages(pv, B(i).len) * PAGE]]]

\* The loops of get_args after the allocation of the message buffer. A mapped
\* buffer is passed at its own address; user memory may be unreadable.
GetArgsCopy ==
  /\ pc = "copy"
  /\ lay' = FoldLeft(PlaceArg,
              [Empty EXCEPT !.args = MetaLen, !.rlen = Word(copylen - MetaLen),
                            !.pv = [i \in Idx |-> IF B(i).len = 0 THEN 0 ELSE B(i).start],
                            !.page = [i \in Idx |-> [addr |-> 0, size |-> 0]]],
              order)
  /\ pc' \in IF lay'.err THEN {"failed"} ELSE {"flush", "failed"}
  /\ UNCHANGED <<call, order, overs, copylen, flushed, lines>>

\* The tests that skip the cache maintenance of a buffer. That of copied buffers
\* is left out: the message buffer is coherent memory.
Maintained(i) == B(i).map = "cached" /\ ~ call.coherent /\ B(i).len # 0

\* Mutant of Flushable: only the first buffer of a group is cleaned.
FlushableFirst(i) == Maintained(i) /\ overs[i].offset = 0

\* The last loop of get_args: a buffer that lies inside another is not cleaned.
Flushable(i) == Maintained(i) /\ overs[i].mstart # 0

GetArgsFlush ==
  /\ pc = "flush"
  /\ flushed' = UNION {Bytes(i) : i \in {x \in Idx : Flushable(x)}}
  /\ pc' = "pre"
  /\ UNCHANGED <<call, order, overs, copylen, lay, lines>>

Outs == {i \in Idx : i > call.inbufs}
Line(x) == x \div LINE

\* inv_args_pre: the lines at the two ends of an output that it shares with other
\* data.
EdgeLines(i) == {Line(x) : x \in {y \in {lay.pv[i], lay.pv[i] + B(i).len} : y % LINE # 0}}

InvArgsPre ==
  /\ pc = "pre"
  /\ lines' = UNION {EdgeLines(i) : i \in {x \in Outs : Maintained(x)}}
  /\ pc' = "sent"
  /\ UNCHANGED <<call, order, overs, copylen, lay, flushed>>

\* inv_args: the lines that are invalidated after the call.
InvLines(i) == Line(lay.pv[i]) .. Line(lay.pv[i] + B(i).len - 1)

Next == ContextBuildOverlap \/ GetArgsSize \/ GetArgsCopy \/ GetArgsFlush \/ InvArgsPre

Spec == Init /\ [][Next]_vars

-----------------------------------------------------------------------------
\* Overlapping buffers are either all copied or all mapped in the same way.
Unmixed ==
  \A i, j \in Idx : Bytes(i) \cap Bytes(j) # {} => B(i).map = B(j).map

Copied == {i \in Idx : ~ Skipped(i)}
Sent == pc \in {"flush", "pre", "sent"}

\* The length of the message, in unbounded arithmetic.
Required ==
  FoldLeft(LAMBDA n, i :
             IF Skipped(i) THEN n
             ELSE (IF overs[i].offset = 0 THEN Align(n, BALIGN) ELSE n)
                  + overs[i].mend - overs[i].mstart,
           MetaLen, order)
Wraps == Required >= AddrMax

\* The copies are faithful: two copied buffers share a byte of the message exactly
\* where they share one of user memory, every copy lies between the lists and the
\* end of the message buffer, the pages announced to the DSP contain it, and the
\* check of the remaining length never refuses a call. Two kinds of calls are
\* excluded: a buffer that overlaps a mapped one, whose place is computed as if both
\* were copied, and buffers whose sum wraps copylen around. The check of each
\* length against LONG_MAX keeps a single copied buffer from that, but not two.
CopiesFaithful ==
  Unmixed =>
    /\ Wraps /\ Sent => \E i, j \in Copied : i # j
    /\ lay.err => Wraps
    /\ Sent /\ ~ Wraps =>
       /\ \A i, j \in Copied : \A a \in Bytes(i), b \in Bytes(j) :
            a = b <=> lay.pv[i] + a - B(i).start = lay.pv[j] + b - B(j).start
       /\ \A i \in Copied :
            /\ MetaLen <= lay.pv[i] /\ lay.pv[i] + B(i).len <= copylen
            /\ lay.page[i].addr <= lay.pv[i]
            /\ lay.pv[i] + B(i).len <= lay.page[i].addr + lay.page[i].size

\* When the call is sent, every byte of a cached mapping that the DSP can see has
\* been cleaned, and a line that the invalidation after the call takes only in
\* part has been cleaned too, so that no neighbouring data is lost.
CacheClean ==
  Unmixed /\ pc = "sent" =>
    \A i \in Idx : Maintained(i) =>
      /\ Bytes(i) \subseteq flushed
      /\ i \in Outs => \A l \in InvLines(i) :
           l \in lines \/ \A x \in 0 .. LINE - 1 : l * LINE + x \in Bytes(i)
=============================================================================
