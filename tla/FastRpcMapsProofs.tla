-------------------------- MODULE FastRpcMapsProofs --------------------------
(***************************************************************************)
(* What FastRpcMaps promises about the references of mappings, the remote  *)
(* heap and the close of a file, proved for every number of threads,       *)
(* files, buffers, addresses, operations and restarts.                     *)
(***************************************************************************)
EXTENDS FastRpcMaps, FiniteSetTheorems, TLAPS

\* Where a thread holds a reference of the mapping in its local m, and where it works on
\* a mapping that nobody else works on.
HoldPcs == {"handles", "lbuf", "cbuf", "dsp", "put", "ctxfree", "fdlist", "imem", "initdsp"}
SolePcs == {"mmapdsp", "mundsp", "statdsp", "ssrdsp"}

\* Nothing happened that breaks the counts.
Clean == hist \cap {"stolen", "ssrtook", "taken"} = {}

\* A thread in the driver works for an open file.
Active == \A t \in Threads : pc[t] # "idle" => FileOf[t] \in open

\* Where a thread's local m is in use; a persistent mapping is one of a buffer.
LocalMap ==
  \A t \in Threads :
    /\ loc[t].m # Nil => pc[t] \in HoldPcs \cup SolePcs
    /\ pc[t] = "ssrdsp" => loc[t].m # Nil
    /\ pc[t] \in {"mmapdsp", "mundsp"} => loc[t].m = Nil \/ loc[t].b = Nil
    /\ loc[t].keep => loc[t].fd # Nil

\* What any mapping looks like. A remote heap belongs to no file, and nothing else is
\* handed to the DSP.
ShapeOf(m) == /\ map[m].kind \in Heaps => map[m].fl = Nil
              /\ map[m].prot => map[m].kind \in Heaps
              /\ map[m].used => map[m].refs >= 1
Shape == \A m \in Maps : ShapeOf(m)

\* A mapping in a thread's local m exists and belongs to its file; where it stands
\* depends on what the thread does with it.
ReferredBy(t) ==
  LET r == map[loc[t].m]
  IN  /\ r.used /\ r.va = 1 /\ r.fl \in {Nil, FileOf[t]}
      /\ pc[t] \in HoldPcs => r.kind = "buf"
      /\ pc[t] = "mmapdsp" => r.listed /\ ~r.raddr /\ ~r.prot /\ r.urefs >= 1
      /\ pc[t] = "mundsp"  => ~r.listed /\ r.urefs >= 1 /\ r.refs = 1
      /\ pc[t] = "statdsp" => r.listed /\ ~r.raddr /\ r.kind \in Heaps
      /\ pc[t] = "ssrdsp"  => ~r.listed /\ r.kind \in Heaps
Referred == Clean => \A t \in Threads : loc[t].m # Nil => ReferredBy(t)

\* Two threads do not map, unmap or remove the same mapping.
WorksOn(t, m) == loc[t].m = m /\ pc[t] \in SolePcs
Exclusive ==
  Clean => \A m \in Maps, t, u \in Threads : WorksOn(t, m) /\ WorksOn(u, m) => t = u

\* The mappings of handles have only references of handles, a remote heap has the one of
\* its MMAP or INIT, and what the DSP has mapped is still owed a MUNMAP.
OwnersOf(m) ==
  LET r == map[m]
  IN  /\ r.listed => r.used
      /\ r.raddr => r.urefs >= 1
      /\ r.used /\ r.va = 0 => r.kind = "buf" /\ r.urefs = 0 /\ ~r.keep
      /\ r.used /\ r.kind \in Heaps => r.refs = 1 /\ r.urefs = 1 /\ r.hrefs = 0 /\ ~r.keep
Owned == Clean => \A m \in Maps : OwnersOf(m)

Exact(m) ==
  map[m].refs = Cardinality(Holders(m)) + map[m].hrefs + map[m].urefs
                + (IF map[m].keep THEN 1 ELSE 0)

\* RefsExact, also for the mapping that a MUNMAP or a restart has unhooked and may put
\* back.
Known(m) == map[m].used /\ (map[m].listed \/ \E t \in Threads : loc[t].m = m)
Counted ==
  /\ \A m \in Maps : IsFiniteSet(Holders(m))
  /\ Clean => \A m \in Maps : Known(m) => Exact(m)

\* A mapping of a file is on its list, from where the close of the file frees it, but
\* for the moment in which a MUNMAP of the file decides what becomes of it.
FiledUnder(m) ==
  map[m].fl # Nil =>
    /\ map[m].fl \in open
    /\ \/ map[m].listed
       \/ /\ map[m].refs <= 1
          /\ \E t \in Threads : FileOf[t] = map[m].fl /\ pc[t] = "mundsp" /\ loc[t].m = m
OnFile == "lostmap" \notin hist => \A m \in Maps : FiledUnder(m)

\* A thread that has buffer b in its context.
InContext(t, b) == \/ pc[t] = "cbuf" /\ loc[t].lb = b
                   \/ pc[t] \in {"dsp", "put", "fdlist", "ctxfree"} /\ b \in {loc[t].lb, loc[t].b}

\* A buffer of a file is where its close finds it, or in the context of a call.
Placed(b) ==
  buf[b].fl # Nil =>
    /\ buf[b].fl \in open
    /\ \/ buf[b].at \in {"cached", "remote"}
       \/ buf[b].at = "init" /\ initMem[buf[b].fl] = b
       \/ \E t \in Threads : FileOf[t] = buf[b].fl /\ InContext(t, b)
BufOwned == "lostinit" \notin hist => \A b \in Bufs : Placed(b)

IInv ==
  /\ TypeOK /\ Active /\ LocalMap /\ Shape /\ Referred /\ Exclusive /\ Owned /\ Counted
  /\ OnFile /\ BufOwned /\ NoUseAfterFree /\ HeapReturned

-----------------------------------------------------------------------------
(* Lemmas about the operators *)

\* The structures that kzalloc returns.
LEMMA FreshTyped == NoMap \in MapRec /\ NoLoc \in Loc /\ NoBuf \in BufRec
BY DEF NoMap, MapRec, Kinds, Heaps, NoLoc, Loc, NoBuf, BufRec, Places

\* An assignment to a local.
LEMMA LocalTyped ==
  ASSUME NEW r \in Loc
  PROVE  /\ \A x \in Maps \cup {Nil} : [r EXCEPT !.m = x] \in Loc
         /\ \A x \in Bufs \cup {Nil} : [r EXCEPT !.b = x] \in Loc /\ [r EXCEPT !.lb = x] \in Loc
         /\ \A x \in SUBSET Fds : [r EXCEPT !.rel = x] \in Loc
         /\ \A x \in BOOLEAN : [r EXCEPT !.found = x] \in Loc
         /\ \A x \in Fds \cup {Nil} : [r EXCEPT !.fd = x] \in Loc
         /\ \A x \in {Nil, "ssr", "pdr"} : [r EXCEPT !.why = x] \in Loc
BY DEF Loc

\* What a step of one thread leaves alone.
LEMMA Moved ==
  ASSUME TypeOK, NEW t \in Threads, NEW l \in PCs, NEW r \in Loc, Goto(t, l, r)
  PROVE  /\ pc'[t] = l /\ loc'[t] = r
         /\ \A u \in Threads \ {t} : pc'[u] = pc[u] /\ loc'[u] = loc[u]
         /\ pc' \in [Threads -> PCs] /\ loc' \in [Threads -> Loc]
BY DEF TypeOK, Goto

\* What no assignment to a field of a mapping changes.
Same(r, s) == /\ s.used = r.used /\ s.kind = r.kind /\ s.fl = r.fl /\ s.fd = r.fd /\ s.va = r.va

Counts(s, refs, keep, hrefs, urefs) ==
  s.refs = refs /\ s.keep = keep /\ s.hrefs = hrefs /\ s.urefs = urefs

Flags(s, listed, raddr, prot) == s.listed = listed /\ s.raddr = raddr /\ s.prot = prot

\* An assignment to a field of a mapping.
LEMMA FieldAssigned ==
  ASSUME NEW r \in MapRec, NEW n \in Nat, NEW b \in BOOLEAN
  PROVE  /\ LET s == [r EXCEPT !.refs = n]
            IN  s \in MapRec /\ Same(r, s) /\ Flags(s, r.listed, r.raddr, r.prot)
                /\ Counts(s, n, r.keep, r.hrefs, r.urefs)
         /\ LET s == [r EXCEPT !.hrefs = n]
            IN  s \in MapRec /\ Same(r, s) /\ Flags(s, r.listed, r.raddr, r.prot)
                /\ Counts(s, r.refs, r.keep, n, r.urefs)
         /\ LET s == [r EXCEPT !.urefs = n]
            IN  s \in MapRec /\ Same(r, s) /\ Flags(s, r.listed, r.raddr, r.prot)
                /\ Counts(s, r.refs, r.keep, r.hrefs, n)
         /\ LET s == [r EXCEPT !.keep = b]
            IN  s \in MapRec /\ Same(r, s) /\ Flags(s, r.listed, r.raddr, r.prot)
                /\ Counts(s, r.refs, b, r.hrefs, r.urefs)
         /\ LET s == [r EXCEPT !.listed = b]
            IN  s \in MapRec /\ Same(r, s) /\ Flags(s, b, r.raddr, r.prot)
                /\ Counts(s, r.refs, r.keep, r.hrefs, r.urefs)
         /\ LET s == [r EXCEPT !.raddr = b]
            IN  s \in MapRec /\ Same(r, s) /\ Flags(s, r.listed, b, r.prot)
                /\ Counts(s, r.refs, r.keep, r.hrefs, r.urefs)
         /\ LET s == [r EXCEPT !.prot = b]
            IN  s \in MapRec /\ Same(r, s) /\ Flags(s, r.listed, r.raddr, b)
                /\ Counts(s, r.refs, r.keep, r.hrefs, r.urefs)
BY DEF MapRec, Same, Flags, Counts

\* An assignment to one mapping.
LEMMA MapAssigned ==
  ASSUME NEW mm \in [Maps -> MapRec], NEW m \in Maps, NEW r \in MapRec
  PROVE  LET nn == [mm EXCEPT ![m] = r]
         IN  /\ nn \in [Maps -> MapRec] /\ nn[m] = r
             /\ \A x \in Maps \ {m} : nn[x] = mm[x]
OBVIOUS

\* fastrpc_mmap_free gives one reference back, or the mapping with the last one.
LEMMA Dropped ==
  ASSUME NEW mm \in [Maps -> MapRec], NEW m \in Maps
  PROVE  /\ Drop(mm, m) \in [Maps -> MapRec]
         /\ \A x \in Maps \ {m} : Drop(mm, m)[x] = mm[x]
         /\ IF mm[m].refs > 1
            THEN /\ Same(mm[m], Drop(mm, m)[m])
                 /\ Flags(Drop(mm, m)[m], mm[m].listed, mm[m].raddr, mm[m].prot)
                 /\ Counts(Drop(mm, m)[m], mm[m].refs - 1, mm[m].keep, mm[m].hrefs, mm[m].urefs)
            ELSE Drop(mm, m)[m] = NoMap
<1>1. CASE mm[m].refs > 1
  <2> DEFINE r == [mm[m] EXCEPT !.refs = mm[m].refs - 1]
  <2>1. mm[m] \in MapRec /\ mm[m].refs \in Nat BY DEF MapRec
  <2>2. mm[m].refs - 1 \in Nat BY <1>1, <2>1
  <2>3. r \in MapRec /\ Same(mm[m], r) /\ Flags(r, mm[m].listed, mm[m].raddr, mm[m].prot)
        /\ Counts(r, mm[m].refs - 1, mm[m].keep, mm[m].hrefs, mm[m].urefs)
    BY <2>1, <2>2, FieldAssigned
  <2>4. Drop(mm, m) = [mm EXCEPT ![m] = r]
    BY <1>1 DEF Drop
  <2> HIDE DEF r
  <2>5. Drop(mm, m) \in [Maps -> MapRec] /\ Drop(mm, m)[m] = r
        /\ \A x \in Maps \ {m} : Drop(mm, m)[x] = mm[x]
    BY <2>3, <2>4, MapAssigned
  <2> QED BY <1>1, <2>3, <2>5
<1>2. CASE ~(mm[m].refs > 1)
  BY <1>2, FreshTyped, MapAssigned DEF Drop
<1> QED BY <1>1, <1>2

\* A mapping that fastrpc_mmap_create has filled in.
Filled(r, f, va, kind) ==
  r.used /\ r.kind = kind /\ r.va = va /\ r.fl = IF kind \in Heaps THEN Nil ELSE f

Others(mm, m) == \A x \in Maps \ {m} : mm[x] = map[x]

\* The four ways in which fastrpc_mmap_create ends: with a mapping it has found, with a
\* new one, with none, and with one that it has lost.
Found(o, f, fd, va, kind) ==
  /\ o.m \in Find(f, fd, va, kind) /\ o.lost = {} /\ Others(o.map, o.m)
  /\ Same(map[o.m], o.map[o.m])
  /\ Flags(o.map[o.m], map[o.m].listed, map[o.m].raddr, map[o.m].prot)
  /\ Counts(o.map[o.m], map[o.m].refs + 1, map[o.m].keep, map[o.m].hrefs, map[o.m].urefs)
Fresh(o, f, fd, va, kind, keep) ==
  /\ Find(f, fd, va, kind) = {}
  /\ o.m \in Maps /\ ~map[o.m].used /\ o.lost = {} /\ Others(o.map, o.m)
  /\ Filled(o.map[o.m], f, va, kind) /\ Flags(o.map[o.m], TRUE, FALSE, FALSE)
  /\ Counts(o.map[o.m], IF keep THEN 2 ELSE 1, keep, 0, 0)
None(o) == o.m = Nil /\ o.map = map /\ o.lost = {}
Lost(o, f, va, kind, m) ==
  /\ o.m = Nil /\ o.lost = {"lostmap"} /\ ~map[m].used /\ Others(o.map, m)
  /\ Filled(o.map[m], f, va, kind) /\ Flags(o.map[m], FALSE, FALSE, FALSE)
  /\ Counts(o.map[m], 1, FALSE, 0, 0)

\* What fastrpc_mmap_create puts into a mapping.
LEMMA NewMapFilled ==
  ASSUME NEW f \in Files, NEW fd \in Fds \cup {Nil}, NEW va \in {0, 1}, NEW kind \in Kinds,
         NEW keep \in BOOLEAN
  PROVE  LET r == NewMap(f, fd, va, kind, keep)
         IN  /\ r \in MapRec /\ Filled(r, f, va, kind) /\ Flags(r, TRUE, FALSE, FALSE)
             /\ Counts(r, IF keep THEN 2 ELSE 1, keep, 0, 0)
<1> DEFINE g == IF kind \in Heaps THEN Nil ELSE f
           n == IF keep THEN 2 ELSE 1
<1>1. g \in Files \cup {Nil} /\ n \in Nat OBVIOUS
<1>2. NewMap(f, fd, va, kind, keep) =
        [NoMap EXCEPT !.used = TRUE, !.kind = kind, !.fd = fd, !.va = va,
                      !.fl = g, !.refs = n, !.keep = keep, !.listed = TRUE]
  BY DEF NewMap
<1> HIDE DEF g, n
<1> DEFINE r == NewMap(f, fd, va, kind, keep)
<1>3. NoMap \in MapRec BY FreshTyped
<1>4. r \in MapRec /\ r.used /\ r.kind = kind /\ r.va = va /\ r.fl = g
  BY ONLY <1>1, <1>2, <1>3, f \in Files, fd \in Fds \cup {Nil}, va \in {0, 1}, kind \in Kinds,
          keep \in BOOLEAN DEF MapRec
<1>5. Flags(r, TRUE, FALSE, FALSE)
  BY <1>2 DEF NoMap, Flags
<1>6. Counts(r, n, keep, 0, 0)
  BY <1>2 DEF NoMap, Counts
<1> HIDE DEF r
<1>7. Filled(r, f, va, kind)
  BY <1>4 DEF g, Filled
<1>8. Counts(r, IF keep THEN 2 ELSE 1, keep, 0, 0)
  BY <1>6 DEF n
<1> QED BY <1>4, <1>5, <1>7, <1>8 DEF r

\* The outcomes of fastrpc_mmap_create.
LEMMA Created ==
  ASSUME map \in [Maps -> MapRec], NEW f \in Files, NEW fd \in Fds \cup {Nil}, NEW va \in {0, 1},
         NEW kind \in Kinds, NEW keep \in BOOLEAN, NEW o \in Create(f, fd, va, kind, keep)
  PROVE  /\ o.map \in [Maps -> MapRec]
         /\ \/ Found(o, f, fd, va, kind)
            \/ Fresh(o, f, fd, va, kind, keep)
            \/ None(o)
            \/ keep /\ \E m \in Maps : Lost(o, f, va, kind, m)
<1> DEFINE rec == NewMap(f, fd, va, kind, keep)
           ran == [rec EXCEPT !.refs = 1, !.keep = FALSE, !.listed = FALSE]
<1>0. /\ rec \in MapRec /\ Filled(rec, f, va, kind) /\ Flags(rec, TRUE, FALSE, FALSE)
      /\ Counts(rec, IF keep THEN 2 ELSE 1, keep, 0, 0)
  BY NewMapFilled
<1> HIDE DEF rec
<1>1. /\ rec \in MapRec /\ Filled(rec, f, va, kind) /\ Flags(rec, TRUE, FALSE, FALSE)
      /\ Counts(rec, IF keep THEN 2 ELSE 1, keep, 0, 0) /\ rec.keep = keep
  BY <1>0 DEF Counts
<1>2. /\ ran \in MapRec /\ Filled(ran, f, va, kind) /\ Flags(ran, FALSE, FALSE, FALSE)
      /\ Counts(ran, 1, FALSE, 0, 0)
  BY <1>1 DEF MapRec, Filled, Flags, Counts
<1> HIDE DEF ran
<1>3. CASE Find(f, fd, va, kind) # {}
  <2>1. PICK m \in Find(f, fd, va, kind) : o = [m |-> m, map |-> Share(m), lost |-> {}]
    BY <1>3 DEF Create
  <2> DEFINE r == [map[m] EXCEPT !.refs = map[m].refs + 1]
  <2>2. m \in Maps /\ map[m] \in MapRec /\ map[m].refs + 1 \in Nat
    BY DEF Find, MapRec
  <2>3. /\ r \in MapRec /\ Same(map[m], r) /\ Flags(r, map[m].listed, map[m].raddr, map[m].prot)
        /\ Counts(r, map[m].refs + 1, map[m].keep, map[m].hrefs, map[m].urefs)
    BY <2>2, FieldAssigned
  <2>4. Share(m) = [map EXCEPT ![m] = r]
    BY DEF Share
  <2> HIDE DEF r
  <2>5. Share(m) \in [Maps -> MapRec] /\ Share(m)[m] = r /\ \A x \in Maps \ {m} : Share(m)[x] = map[x]
    BY <2>2, <2>3, <2>4, MapAssigned
  <2>6. o.m = m /\ o.map = Share(m) /\ o.lost = {}
    BY <2>1
  <2> QED BY <2>3, <2>5, <2>6 DEF Found, Others
<1>4. CASE Find(f, fd, va, kind) = {}
  <2>1. \/ \E m \in Maps : ~map[m].used /\ o = [m |-> m, map |-> [map EXCEPT ![m] = rec], lost |-> {}]
        \/ \E m \in Maps : ~map[m].used /\ o = CreateFails(m, rec)
        \/ o = [m |-> Nil, map |-> map, lost |-> {}]
    <3> DEFINE U == UNION {{[m |-> m, map |-> [map EXCEPT ![m] = rec], lost |-> {}],
                            CreateFails(m, rec)} : m \in {x \in Maps : ~map[x].used}}
               n == [m |-> Nil, map |-> map, lost |-> {}]
    <3>1. o \in U \cup {n}
      BY <1>4, Zenon DEF Create, rec
    <3>2. o \in U => \/ \E m \in Maps : ~map[m].used /\ o = [m |-> m, map |-> [map EXCEPT ![m] = rec], lost |-> {}]
                     \/ \E m \in Maps : ~map[m].used /\ o = CreateFails(m, rec)
      BY Zenon
    <3> HIDE DEF U
    <3> QED BY <3>1, <3>2, Zenon
  <2>2. CASE \E m \in Maps : ~map[m].used /\ o = [m |-> m, map |-> [map EXCEPT ![m] = rec], lost |-> {}]
    <3> PICK m \in Maps : ~map[m].used /\ o = [m |-> m, map |-> [map EXCEPT ![m] = rec], lost |-> {}]
      BY <2>2
    <3>1. o.m = m /\ o.map = [map EXCEPT ![m] = rec] /\ o.lost = {} OBVIOUS
    <3>2. o.map \in [Maps -> MapRec] /\ o.map[m] = rec /\ \A x \in Maps \ {m} : o.map[x] = map[x]
      BY <1>1, <3>1, MapAssigned
    <3> QED BY <1>1, <1>4, <3>1, <3>2 DEF Fresh, Others
  <2>3. CASE \E m \in Maps : ~map[m].used /\ o = CreateFails(m, rec)
    <3> PICK m \in Maps : ~map[m].used /\ o = CreateFails(m, rec) BY <2>3
    <3>1. CASE keep
      <4>1. o = [m |-> Nil, lost |-> {"lostmap"}, map |-> [map EXCEPT ![m] = ran]]
        BY <1>1, <3>1 DEF CreateFails, ran
      <4>2. o.m = Nil /\ o.map = [map EXCEPT ![m] = ran] /\ o.lost = {"lostmap"} BY <4>1
      <4>3. o.map \in [Maps -> MapRec] /\ o.map[m] = ran /\ \A x \in Maps \ {m} : o.map[x] = map[x]
        BY <1>2, <4>2, MapAssigned
      <4>4. Lost(o, f, va, kind, m)
        BY <1>2, <4>2, <4>3 DEF Lost, Others
      <4> QED BY <3>1, <4>3, <4>4
    <3>2. CASE ~keep
      BY <1>1, <3>2 DEF CreateFails, None
    <3> QED BY <3>1, <3>2
  <2>4. CASE o = [m |-> Nil, map |-> map, lost |-> {}]
    BY <2>4 DEF None
  <2> QED BY <2>1, <2>2, <2>3, <2>4
<1> QED BY <1>3, <1>4

\* What fastrpc_buf_alloc does: a buffer of the cache or an unused one, the cache being
\* emptied when memory is short.
Allocated(o, f, at) ==
  /\ o.b \in Bufs \cup {Nil}
  /\ o.b # Nil => o.buf[o.b].at = at /\ o.buf[o.b].fl = f
  /\ \A x \in Bufs \ {o.b} : o.buf[x] = buf[x] \/ o.buf[x] = NoBuf

\* The outcomes of fastrpc_buf_alloc.
LEMMA BufAllocated ==
  ASSUME buf \in [Bufs -> BufRec], NEW f \in Files, NEW size \in {1, 2}, NEW at \in Places,
         NEW o \in BufAlloc(f, size, at)
  PROVE  o.buf \in [Bufs -> BufRec] /\ Allocated(o, f, at)
<1> DEFINE new == [NoBuf EXCEPT !.at = at, !.fl = f, !.size = size]
           flush == [b \in Bufs |-> IF b \in Cached(f) THEN NoBuf ELSE buf[b]]
           Into(bb) == {[b |-> b, buf |-> [bb EXCEPT ![b] = new]] : b \in {x \in Bufs : bb[x].at = "none"}}
<1>1. new \in BufRec /\ new.at = at /\ new.fl = f
  <2>1. size \in 0 .. 2 /\ at \in Places /\ f \in Files \cup {Nil}
    OBVIOUS
  <2>2. NoBuf \in BufRec
    BY FreshTyped
  <2> QED BY ONLY <2>1, <2>2 DEF BufRec
<1> HIDE DEF new
<1>2. flush \in [Bufs -> BufRec] /\ \A x \in Bufs : flush[x] = buf[x] \/ flush[x] = NoBuf
  BY FreshTyped
<1> HIDE DEF flush
<1>3. \/ \E b \in Cached(f) : o = [b |-> b, buf |-> [buf EXCEPT ![b] = [buf[b] EXCEPT !.at = at]]]
      \/ o \in Into(buf)
      \/ o \in Into(flush)
      \/ o = [b |-> Nil, buf |-> flush]
  BY DEF BufAlloc, flush, new
<1>4. CASE \E b \in Cached(f) : o = [b |-> b, buf |-> [buf EXCEPT ![b] = [buf[b] EXCEPT !.at = at]]]
  <2> PICK b \in Cached(f) : o = [b |-> b, buf |-> [buf EXCEPT ![b] = [buf[b] EXCEPT !.at = at]]]
    BY <1>4
  <2> DEFINE r == [buf[b] EXCEPT !.at = at]
  <2>1. b \in Bufs /\ buf[b].fl = f /\ buf[b] \in BufRec BY DEF Cached
  <2>2. r \in BufRec /\ r.at = at /\ r.fl = f BY <2>1 DEF BufRec
  <2>3. o.b = b /\ o.buf = [buf EXCEPT ![b] = r] OBVIOUS
  <2> HIDE DEF r
  <2>4. o.buf \in [Bufs -> BufRec] /\ o.buf[b] = r /\ \A x \in Bufs \ {b} : o.buf[x] = buf[x]
    BY <2>1, <2>2, <2>3
  <2> QED BY <2>1, <2>2, <2>3, <2>4 DEF Allocated
<1>5. ASSUME NEW bb \in [Bufs -> BufRec], \A x \in Bufs : bb[x] = buf[x] \/ bb[x] = NoBuf, o \in Into(bb)
      PROVE  o.buf \in [Bufs -> BufRec] /\ Allocated(o, f, at)
  <2> PICK b \in Bufs : o = [b |-> b, buf |-> [bb EXCEPT ![b] = new]] BY <1>5
  <2>1. o.b = b /\ o.buf = [bb EXCEPT ![b] = new] OBVIOUS
  <2>2. o.buf \in [Bufs -> BufRec] /\ o.buf[b] = new /\ \A x \in Bufs \ {b} : o.buf[x] = bb[x]
    BY <1>1, <2>1
  <2> QED BY <1>1, <1>5, <2>1, <2>2 DEF Allocated
<1>6. CASE o = [b |-> Nil, buf |-> flush]
  BY <1>2, <1>6 DEF Allocated
<1> HIDE DEF Into
<1> QED BY <1>2, <1>3, <1>4, <1>5, <1>6

\* What fastrpc_munmap_on_dsp_rh reports: only the error for a HEAP_ADDR heap is hidden.
LEMMA Unmapped ==
  ASSUME NEW m \in Maps, map[m] \in MapRec, NEW o \in UnmapOutcomes(m)
  PROVE  /\ o.err \in BOOLEAN /\ o.prot \in BOOLEAN
         /\ o.prot /\ ~o.err => map[m].kind = "heap"
<1>1. map[m].kind \in {"buf", "heap", "rheap"} /\ map[m].prot \in BOOLEAN
  BY DEF MapRec, Kinds, Heaps
<1>2. CASE map[m].kind = "heap"
  <2>1. UnmapOutcomes(m) = {[err |-> FALSE, prot |-> p] : p \in {FALSE, map[m].prot}}
    BY <1>2, Zenon DEF UnmapOutcomes
  <2>2. PICK p \in {FALSE, map[m].prot} : o = [err |-> FALSE, prot |-> p]
    BY <2>1, Zenon
  <2>3. o.err = FALSE /\ o.prot = p
    BY <2>2
  <2> QED BY <1>1, <1>2, <2>3, Zenon
<1>3. CASE map[m].kind = "rheap"
  <2>1. UnmapOutcomes(m) = {[err |-> FALSE, prot |-> FALSE], [err |-> TRUE, prot |-> map[m].prot]}
    BY <1>3, Zenon DEF UnmapOutcomes
  <2>2. \/ o = [err |-> FALSE, prot |-> FALSE]
        \/ o = [err |-> TRUE, prot |-> map[m].prot]
    BY <2>1, Zenon
  <2>3. (o.err = FALSE /\ o.prot = FALSE) \/ (o.err = TRUE /\ o.prot = map[m].prot)
    BY <2>2
  <2> QED BY <1>1, <2>3, Zenon
<1>4. CASE map[m].kind = "buf"
  <2>1. UnmapOutcomes(m) = {[err |-> FALSE, prot |-> FALSE]}
    BY <1>4, Zenon DEF UnmapOutcomes
  <2>2. o = [err |-> FALSE, prot |-> FALSE]
    BY <2>1, Zenon
  <2>3. o.err = FALSE /\ o.prot = FALSE
    BY <2>2
  <2> QED BY <2>3, Zenon
<1> QED BY <1>1, <1>2, <1>3, <1>4

-----------------------------------------------------------------------------
(* The holders of a mapping *)

Holds(t, m) == loc[t].m = m /\ pc[t] \in HoldPcs

\* What a step of thread t may change.
OnlyThread(t) == \A u \in Threads \ {t} : pc'[u] = pc[u] /\ loc'[u] = loc[u]

\* The holders of a mapping are the threads that hold it.
LEMMA HoldersAre == ASSUME NEW m PROVE Holders(m) = {t \in Threads : Holds(t, m)}
BY DEF Holders, Holds, HoldPcs

\* How the step of a thread changes the number of holders.
LEMMA HoldersStep ==
  ASSUME NEW t \in Threads, OnlyThread(t), NEW m, IsFiniteSet(Holders(m))
  PROVE  /\ IsFiniteSet(Holders(m)')
         /\ Cardinality(Holders(m)) \in Nat /\ Cardinality(Holders(m)') \in Nat
         /\ (Holds(t, m) <=> Holds(t, m)') => Cardinality(Holders(m)') = Cardinality(Holders(m))
         /\ ~Holds(t, m) /\ Holds(t, m)' => Cardinality(Holders(m)') = Cardinality(Holders(m)) + 1
         /\ Holds(t, m) /\ ~Holds(t, m)' => Cardinality(Holders(m)') = Cardinality(Holders(m)) - 1
<1> DEFINE H == Holders(m)
           I == Holders(m)'
<1>1. H = {u \in Threads : Holds(u, m)} /\ I = {u \in Threads : Holds(u, m)'}
  BY DEF Holders, Holds, HoldPcs
<1>2. \A u \in Threads \ {t} : Holds(u, m) <=> Holds(u, m)'
  BY DEF OnlyThread, Holds
<1>3. (Holds(t, m) <=> Holds(t, m)') => I = H
  BY <1>1, <1>2
<1>4. ~Holds(t, m) /\ Holds(t, m)' => I = H \cup {t} /\ t \notin H
  BY <1>1, <1>2
<1>5. Holds(t, m) /\ ~Holds(t, m)' => I = H \ {t} /\ t \in H
  BY <1>1, <1>2
<1>6. IsFiniteSet(H) OBVIOUS
<1> HIDE DEF H, I
<1>7. /\ IsFiniteSet(H \cup {t}) /\ IsFiniteSet(H \ {t})
      /\ t \notin H => Cardinality(H \cup {t}) = Cardinality(H) + 1
      /\ t \in H => Cardinality(H \ {t}) = Cardinality(H) - 1
  BY <1>6, FS_AddElement, FS_RemoveElement
<1>8. IsFiniteSet(I) BY <1>3, <1>4, <1>5, <1>6, <1>7
<1>9. Cardinality(H) \in Nat /\ Cardinality(I) \in Nat BY <1>6, <1>8, FS_CardinalityType
<1> QED BY <1>3, <1>4, <1>5, <1>7, <1>8, <1>9 DEF H, I

\* One holder, and two.
LEMMA HoldersCount ==
  ASSUME NEW m, IsFiniteSet(Holders(m))
  PROVE  /\ Cardinality(Holders(m)) \in Nat
         /\ \A t \in Threads : Holds(t, m) => Cardinality(Holders(m)) >= 1
         /\ \A t, u \in Threads : Holds(t, m) /\ Holds(u, m) /\ t # u => Cardinality(Holders(m)) >= 2
<1> DEFINE H == Holders(m)
<1>1. \A t \in Threads : t \in H <=> Holds(t, m) BY HoldersAre
<1>2. IsFiniteSet(H) OBVIOUS
<1> HIDE DEF H
<1>3. ASSUME NEW t \in H
      PROVE  Cardinality(H) >= 1 /\ \A u \in H : t # u => Cardinality(H) >= 2
  <2>1. IsFiniteSet(H \ {t}) /\ Cardinality(H \ {t}) = Cardinality(H) - 1
    BY <1>2, FS_RemoveElement
  <2>2. Cardinality(H) \in Nat /\ Cardinality(H \ {t}) \in Nat
    BY <1>2, <2>1, FS_CardinalityType
  <2>3. ASSUME NEW u \in H, t # u PROVE Cardinality(H) >= 2
    <3>1. u \in H \ {t} BY <2>3
    <3>2. IsFiniteSet((H \ {t}) \ {u}) /\ Cardinality((H \ {t}) \ {u}) = Cardinality(H \ {t}) - 1
      BY <2>1, <3>1, FS_RemoveElement
    <3>3. Cardinality((H \ {t}) \ {u}) \in Nat BY <3>2, FS_CardinalityType
    <3> QED BY <2>1, <2>2, <3>2, <3>3
  <2> QED BY <2>1, <2>2, <2>3
<1>4. Cardinality(H) \in Nat BY <1>2, FS_CardinalityType
<1> QED BY <1>1, <1>3, <1>4 DEF H

\* Nobody refers to a mapping that does not exist, and its count has no holders.
LEMMA Unreferred ==
  ASSUME IInv, Clean, NEW m \in Maps, ~map[m].used
  PROVE  \A t \in Threads : loc[t].m # m
BY MapsAssumption DEF IInv, Referred, ReferredBy, MapsAssumption

-----------------------------------------------------------------------------
(***************************************************************************)
(* What a step can do to the mappings.                                     *)
(***************************************************************************)

MapsInv ==
  Shape /\ Referred /\ Exclusive /\ Owned /\ Counted /\ OnFile /\ NoUseAfterFree /\ HeapReturned

\* A step of thread t of an open file; the close of a file is the only one that is not.
Step(t) ==
  /\ OnlyThread(t) /\ TypeOK' /\ LocalMap' /\ UNCHANGED open
  /\ hist \subseteq hist' /\ FileOf[t] \in open

\* Nothing new in hist that the properties of mappings are about.
NoFault == hist' \subseteq hist \cup {"lostinit"}

\* A step of thread t that changes only mapping m keeps what concerns the others: what
\* is left is to look at m.
LEMMA StepAt ==
  ASSUME IInv, NEW t \in Threads, Step(t), NEW m \in Maps, Others(map', m),
         \/ loc[t].m \in {Nil, m} /\ loc'[t].m \in {Nil, m}
         \/ loc'[t].m = loc[t].m /\ pc[t] \in HoldPcs /\ pc'[t] \in HoldPcs,
         ShapeOf(m)',
         Clean' => \A u \in Threads : loc'[u].m = m => ReferredBy(u)',
         Clean' => \A u \in Threads \ {t} : ~(WorksOn(u, m) /\ WorksOn(t, m)'),
         Clean' => OwnersOf(m)',
         Clean' /\ Known(m)' => Exact(m)',
         "lostmap" \notin hist' => FiledUnder(m)',
         NoUseAfterFree', HeapReturned'
  PROVE  MapsInv'
<1>1. Clean' => Clean BY DEF Clean, Step
<1>2. \A u \in Threads \ {t} : loc'[u] = loc[u] /\ pc'[u] = pc[u]
  BY DEF Step, OnlyThread
<1>3. Nil \notin Maps BY MapsAssumption DEF MapsAssumption
<1>4. \A x \in Maps \ {m} : map'[x] = map[x] BY DEF Others
<1>5. \A u \in Threads : /\ loc[u].m \in Maps \cup {Nil} /\ loc'[u].m \in Maps \cup {Nil}
  BY DEF IInv, TypeOK, Loc, Step
<1>6. \A u \in Threads : loc'[u].m \notin {Nil, m} =>
        /\ loc'[u].m = loc[u].m
        /\ pc'[u] = pc[u] \/ (pc[u] \in HoldPcs /\ pc'[u] \in HoldPcs)
  BY <1>2
<1>7. Shape' BY <1>4 DEF IInv, Shape, ShapeOf
<1>8. Referred'
  <2> SUFFICES ASSUME Clean', NEW u \in Threads, loc'[u].m # Nil, loc'[u].m # m
               PROVE  ReferredBy(u)'
    BY DEF Referred
  <2>1. ReferredBy(u) BY <1>1, <1>6 DEF IInv, Referred
  <2>2. map'[loc'[u].m] = map[loc[u].m] BY <1>4, <1>5, <1>6
  <2> QED BY <1>6, <2>1, <2>2 DEF ReferredBy, HoldPcs
<1>9. Exclusive'
  <2> SUFFICES ASSUME Clean', NEW x \in Maps, NEW u \in Threads, NEW v \in Threads,
                      WorksOn(u, x)', WorksOn(v, x)'
               PROVE  u = v
    BY DEF Exclusive
  <2>1. CASE x = m BY <1>1, <1>2, <2>1 DEF WorksOn, IInv, Exclusive
  <2>2. CASE x # m
    BY <1>1, <1>3, <1>6, <2>2 DEF WorksOn, IInv, Exclusive, HoldPcs, SolePcs
  <2> QED BY <2>1, <2>2
<1>10. Owned' BY <1>1, <1>4 DEF IInv, Owned, OwnersOf
<1>11. \A x \in Maps : IsFiniteSet(Holders(x)) /\ IsFiniteSet(Holders(x)')
  BY HoldersStep DEF IInv, Counted, Step
<1>12. \A x \in Maps \ {m} : Cardinality(Holders(x)') = Cardinality(Holders(x))
  <2>1. \A x \in Maps \ {m} : Holds(t, x) <=> Holds(t, x)'
    BY <1>3 DEF Holds
  <2> QED BY <2>1, <1>11, HoldersStep DEF Step
<1>13. \A x \in Maps \ {m} : Known(x)' => Known(x)
  BY <1>3, <1>4, <1>6 DEF Known
<1>14. \A x \in Maps \ {m} : Exact(x) => Exact(x)'
  BY <1>4, <1>12 DEF Exact
<1>15. Counted'
  BY <1>1, <1>11, <1>13, <1>14 DEF IInv, Counted
<1>16. ASSUME NEW x \in Maps \ {m}, FiledUnder(x) PROVE FiledUnder(x)'
  <2>1. \A u \in Threads : loc[u].m = x /\ pc[u] = "mundsp" => loc'[u].m = x /\ pc'[u] = "mundsp"
    BY <1>2, <1>3 DEF HoldPcs
  <2> QED BY <1>4, <1>16, <2>1 DEF FiledUnder, Step
<1>17. OnFile' BY <1>16 DEF IInv, OnFile, Step
<1> QED BY <1>7, <1>8, <1>9, <1>10, <1>15, <1>17 DEF MapsInv

\* Nobody's mapping changes, and the thread keeps what it refers to or refers to nothing.
LEMMA StepQuiet ==
  ASSUME IInv, NEW t \in Threads, Step(t), NoFault, map' = map,
         \/ loc'[t].m = loc[t].m /\ pc[t] \in HoldPcs /\ pc'[t] \in HoldPcs
         \/ loc'[t].m = Nil /\ (loc[t].m = Nil \/ pc[t] = "statdsp")
  PROVE  MapsInv'
<1>1. Clean' => Clean BY DEF Clean, Step
<1>2. \A u \in Threads \ {t} : loc'[u] = loc[u] /\ pc'[u] = pc[u]
  BY DEF Step, OnlyThread
<1>3. \A u \in Threads : loc'[u].m # Nil =>
        /\ loc'[u].m = loc[u].m
        /\ pc'[u] = pc[u] \/ (pc[u] \in HoldPcs /\ pc'[u] \in HoldPcs)
  BY <1>2
<1>4. Nil \notin Maps BY MapsAssumption DEF MapsAssumption
<1>5. Shape' BY DEF IInv, Shape, ShapeOf
<1>6. Referred' BY <1>1, <1>3 DEF IInv, Referred, ReferredBy, HoldPcs
<1>7. Exclusive' BY <1>1, <1>3, <1>4 DEF IInv, Exclusive, WorksOn, HoldPcs, SolePcs
<1>8. Owned' BY <1>1 DEF IInv, Owned, OwnersOf
<1>9. \A m \in Maps : IsFiniteSet(Holders(m)') /\ Cardinality(Holders(m)') = Cardinality(Holders(m))
  <2>1. \A m \in Maps : Holds(t, m) <=> Holds(t, m)' BY <1>4 DEF Holds, HoldPcs
  <2> QED BY <2>1, HoldersStep DEF IInv, Counted, Step
<1>10. \A m \in Maps : (Known(m)' => Known(m)) /\ (Exact(m) => Exact(m)')
  BY <1>3, <1>4, <1>9 DEF Known, Exact
<1>11. Counted' BY <1>1, <1>9, <1>10 DEF IInv, Counted
<1>12. OnFile'
  BY <1>2, <1>4 DEF IInv, OnFile, FiledUnder, Step, HoldPcs
<1>13. NoUseAfterFree' BY DEF IInv, NoUseAfterFree, NoFault, Step
<1>14. HeapReturned' BY DEF IInv, HeapReturned, NoFault, Step
<1> QED BY <1>5, <1>6, <1>7, <1>8, <1>11, <1>12, <1>13, <1>14 DEF MapsInv

\* The number of holders of m after the step.
LEMMA HoldersAfter ==
  ASSUME IInv, NEW t \in Threads, Step(t), NEW m \in Maps
  PROVE  /\ Cardinality(Holders(m)) \in Nat /\ Cardinality(Holders(m)') \in Nat
         /\ Cardinality(Holders(m)') = Cardinality(Holders(m))
                                       + (IF Holds(t, m)' THEN 1 ELSE 0) - (IF Holds(t, m) THEN 1 ELSE 0)
<1>1. IsFiniteSet(Holders(m)) /\ OnlyThread(t)
  BY DEF IInv, Counted, Step
<1>2. /\ Cardinality(Holders(m)) \in Nat /\ Cardinality(Holders(m)') \in Nat
      /\ (Holds(t, m) <=> Holds(t, m)') => Cardinality(Holders(m)') = Cardinality(Holders(m))
      /\ ~Holds(t, m) /\ Holds(t, m)' => Cardinality(Holders(m)') = Cardinality(Holders(m)) + 1
      /\ Holds(t, m) /\ ~Holds(t, m)' => Cardinality(Holders(m)') = Cardinality(Holders(m)) - 1
  BY <1>1, HoldersStep
<1>3. CASE Holds(t, m) /\ Holds(t, m)' BY <1>2, <1>3
<1>4. CASE ~Holds(t, m) /\ ~Holds(t, m)' BY <1>2, <1>4
<1>5. CASE Holds(t, m) /\ ~Holds(t, m)' BY <1>2, <1>5
<1>6. CASE ~Holds(t, m) /\ Holds(t, m)' BY <1>2, <1>6
<1> QED BY <1>3, <1>4, <1>5, <1>6

\* A mapping that is new: the thread holds it or works on it, or a handle does.
LEMMA StepMade ==
  ASSUME IInv, NEW t \in Threads, Step(t), NoFault, NEW m \in Maps, ~map[m].used, Others(map', m),
         NEW kind \in Kinds, NEW va \in {0, 1}, Filled(map'[m], FileOf[t], va, kind),
         NEW keep \in BOOLEAN, NEW hrefs \in Nat, NEW urefs \in Nat, NEW prot \in BOOLEAN,
         Counts(map'[m], IF keep THEN 2 ELSE 1, keep, hrefs, urefs),
         Flags(map'[m], TRUE, FALSE, prot),
         \/ /\ loc[t].m = Nil /\ loc'[t].m = m /\ pc'[t] \in HoldPcs
            /\ va = 1 /\ kind = "buf" /\ ~prot /\ hrefs = 0 /\ urefs = 0
         \/ /\ loc'[t].m = loc[t].m /\ pc[t] \in HoldPcs /\ pc'[t] \in HoldPcs
            /\ va = 0 /\ kind = "buf" /\ ~prot /\ ~keep /\ hrefs = 1 /\ urefs = 0
         \/ /\ loc[t].m = Nil /\ loc'[t].m = m /\ va = 1 /\ ~keep /\ hrefs = 0 /\ urefs = 1
            /\ \/ pc'[t] = "mmapdsp" /\ ~prot
               \/ pc'[t] = "statdsp" /\ kind \in Heaps
  PROVE  MapsInv'
<1>1. Clean' => Clean BY DEF Clean, Step
<1>2. \A u \in Threads \ {t} : loc'[u] = loc[u] /\ pc'[u] = pc[u]
  BY DEF Step, OnlyThread
<1>3. Clean => \A u \in Threads : loc[u].m # m
  BY Unreferred
<1>4. Nil \notin Maps BY MapsAssumption DEF MapsAssumption
<1>5. /\ map'[m].used /\ map'[m].kind = kind /\ map'[m].va = va
      /\ map'[m].fl = IF kind \in Heaps THEN Nil ELSE FileOf[t]
      /\ map'[m].refs = (IF keep THEN 2 ELSE 1) /\ map'[m].keep = keep
      /\ map'[m].hrefs = hrefs /\ map'[m].urefs = urefs
      /\ map'[m].listed /\ ~map'[m].raddr /\ map'[m].prot = prot
  BY DEF Filled, Counts, Flags
<1>6. ShapeOf(m)' BY <1>5 DEF ShapeOf, Heaps
<1>7. Clean' => \A u \in Threads : loc'[u].m = m => ReferredBy(u)'
  BY <1>1, <1>2, <1>3, <1>5 DEF ReferredBy, HoldPcs, Heaps
<1>8. Clean' => \A u \in Threads \ {t} : ~(WorksOn(u, m) /\ WorksOn(t, m)')
  BY <1>1, <1>3 DEF WorksOn
<1>9. Clean' => OwnersOf(m)' BY <1>5 DEF OwnersOf, Heaps
<1>10. Clean => Cardinality(Holders(m)) = 0 /\ ~Holds(t, m)
  <2>1. Clean => Holders(m) = {} BY <1>3, HoldersAre DEF Holds
  <2> QED BY <2>1, <1>3, FS_EmptySet DEF Holds
<1>11. Clean => Cardinality(Holders(m)') = IF Holds(t, m)' THEN 1 ELSE 0
  BY <1>10, HoldersAfter
<1>12. Clean' => Exact(m)'
  BY <1>1, <1>3, <1>5, <1>11 DEF Exact, Holds, HoldPcs
<1>13. FiledUnder(m)' BY <1>5 DEF FiledUnder, Step
<1>14. NoUseAfterFree' BY DEF IInv, NoUseAfterFree, NoFault, Step
<1>15. HeapReturned' BY DEF IInv, HeapReturned, NoFault, Step
<1>16. \/ loc[t].m \in {Nil, m} /\ loc'[t].m \in {Nil, m}
       \/ loc'[t].m = loc[t].m /\ pc[t] \in HoldPcs /\ pc'[t] \in HoldPcs
  OBVIOUS
<1> QED BY <1>6, <1>7, <1>8, <1>9, <1>12, <1>13, <1>14, <1>15, <1>16, StepAt

\* A mapping that is lost: hist says so.
LEMMA StepLost ==
  ASSUME IInv, NEW t \in Threads, Step(t), hist' = hist \cup {"lostmap"}, NEW m \in Maps,
         ~map[m].used, Others(map', m), Filled(map'[m], FileOf[t], 1, "buf"),
         Counts(map'[m], 1, FALSE, 0, 0), Flags(map'[m], FALSE, FALSE, FALSE),
         loc[t].m = Nil, loc'[t].m = Nil
  PROVE  MapsInv'
<1>1. Clean' => Clean BY DEF Clean, Step
<1>2. \A u \in Threads \ {t} : loc'[u] = loc[u] /\ pc'[u] = pc[u]
  BY DEF Step, OnlyThread
<1>3. Clean => \A u \in Threads : loc[u].m # m
  BY Unreferred
<1>4. Nil \notin Maps BY MapsAssumption DEF MapsAssumption
<1>5. /\ map'[m].used /\ map'[m].kind = "buf" /\ map'[m].va = 1
      /\ map'[m].refs = 1 /\ ~map'[m].keep /\ map'[m].hrefs = 0 /\ map'[m].urefs = 0
      /\ ~map'[m].listed /\ ~map'[m].raddr /\ ~map'[m].prot
  BY DEF Filled, Counts, Flags
<1>6. ShapeOf(m)' BY <1>5 DEF ShapeOf, Heaps
<1>7. Clean' => \A u \in Threads : loc'[u].m # m
  BY <1>1, <1>2, <1>3, <1>4
<1>8. ~WorksOn(t, m)' BY <1>4 DEF WorksOn
<1>9. Clean' => OwnersOf(m)' BY <1>5 DEF OwnersOf, Heaps
<1>10. Clean' => ~Known(m)' BY <1>5, <1>7 DEF Known
<1>11. NoUseAfterFree' BY DEF IInv, NoUseAfterFree
<1>12. HeapReturned' BY DEF IInv, HeapReturned
<1> QED BY <1>6, <1>7, <1>8, <1>9, <1>10, <1>11, <1>12, StepAt

\* One more reference on a mapping of the file: of the thread, of a handle, of an MMAP.
LEMMA StepShared ==
  ASSUME IInv, NEW t \in Threads, Step(t), NoFault, NEW m \in Maps, NEW va \in {0, 1},
         map[m].listed, map[m].kind \notin Heaps, map[m].fl = FileOf[t], map[m].va = va,
         Others(map', m), Same(map[m], map'[m]),
         Flags(map'[m], map[m].listed, map[m].raddr, map[m].prot),
         NEW hrefs \in {0, 1}, NEW urefs \in {0, 1},
         Counts(map'[m], map[m].refs + 1, map[m].keep, map[m].hrefs + hrefs, map[m].urefs + urefs),
         \/ /\ loc[t].m = Nil /\ loc'[t].m = m /\ pc'[t] \in HoldPcs
            /\ va = 1 /\ hrefs = 0 /\ urefs = 0
         \/ /\ loc'[t].m = loc[t].m /\ pc[t] \in HoldPcs /\ pc'[t] \in HoldPcs
            /\ va = 0 /\ hrefs = 1 /\ urefs = 0
         \/ /\ loc[t].m = Nil /\ loc'[t].m = Nil /\ va = 1 /\ hrefs = 0 /\ urefs = 1
  PROVE  MapsInv'
<1>1. Clean' => Clean BY DEF Clean, Step
<1>2. \A u \in Threads \ {t} : loc'[u] = loc[u] /\ pc'[u] = pc[u]
  BY DEF Step, OnlyThread
<1>4. Nil \notin Maps BY MapsAssumption DEF MapsAssumption
<1>5. /\ map'[m].used = map[m].used /\ map'[m].kind = map[m].kind /\ map'[m].fl = map[m].fl
      /\ map'[m].va = map[m].va
      /\ map'[m].refs = map[m].refs + 1 /\ map'[m].keep = map[m].keep
      /\ map'[m].hrefs = map[m].hrefs + hrefs /\ map'[m].urefs = map[m].urefs + urefs
      /\ map'[m].listed /\ map'[m].raddr = map[m].raddr /\ map'[m].prot = map[m].prot
  BY DEF Same, Counts, Flags
<1>6. /\ map[m].refs \in Nat /\ map[m].hrefs \in Nat /\ map[m].urefs \in Nat /\ map[m].kind = "buf"
      /\ map[m].keep \in BOOLEAN
  BY DEF IInv, TypeOK, MapRec, Kinds
<1>7. Clean => map[m].used /\ ShapeOf(m) /\ OwnersOf(m) /\ Exact(m)
  BY DEF IInv, Shape, Owned, OwnersOf, Counted, Known
<1>8. ShapeOf(m)'
  BY <1>5, <1>6 DEF IInv, Shape, ShapeOf
<1>9. \A u \in Threads : loc'[u].m = m =>
        \/ u = t /\ loc[t].m = Nil /\ pc'[t] \in HoldPcs /\ va = 1
        \/ loc[u].m = m /\ (pc'[u] = pc[u] \/ (pc[u] \in HoldPcs /\ pc'[u] \in HoldPcs))
  BY <1>2, <1>4
<1>10. \A u \in Threads : Clean /\ loc[u].m = m => ReferredBy(u) /\ pc[u] # "mundsp"
  BY <1>4, <1>5 DEF IInv, Referred, ReferredBy
<1>11. Clean' => \A u \in Threads : loc'[u].m = m => ReferredBy(u)'
  <2> SUFFICES ASSUME Clean', NEW u \in Threads, loc'[u].m = m PROVE ReferredBy(u)'
    OBVIOUS
  <2>1. CASE u = t /\ loc[t].m = Nil /\ pc'[t] \in HoldPcs /\ va = 1
    BY <1>1, <1>5, <1>6, <1>7, <2>1 DEF ReferredBy, HoldPcs
  <2>2. CASE loc[u].m = m /\ (pc'[u] = pc[u] \/ (pc[u] \in HoldPcs /\ pc'[u] \in HoldPcs))
    <3>1. ReferredBy(u) /\ pc[u] # "mundsp" BY <1>1, <1>10, <2>2
    <3> QED BY <1>5, <1>6, <2>2, <3>1 DEF ReferredBy, HoldPcs
  <2> QED BY <1>9, <2>1, <2>2
<1>12. ~WorksOn(t, m)'
  BY <1>4 DEF WorksOn, HoldPcs, SolePcs
<1>13. Clean' => OwnersOf(m)'
  BY <1>1, <1>5, <1>6, <1>7 DEF OwnersOf, Heaps
<1>14. /\ Cardinality(Holders(m)) \in Nat
       /\ Cardinality(Holders(m)') = Cardinality(Holders(m)) + 1 - hrefs - urefs
  <2>2. /\ hrefs = 0 /\ urefs = 0 => Holds(t, m)' /\ ~Holds(t, m)
        /\ hrefs = 1 => (Holds(t, m)' <=> Holds(t, m)) /\ urefs = 0
        /\ urefs = 1 => ~Holds(t, m)' /\ ~Holds(t, m) /\ hrefs = 0
    BY <1>4 DEF Holds
  <2>3. CASE hrefs = 0 /\ urefs = 0 BY <2>2, <2>3, HoldersAfter
  <2>4. CASE hrefs = 1
    <3>1. CASE Holds(t, m) BY <2>2, <2>4, <3>1, HoldersAfter
    <3>2. CASE ~Holds(t, m) BY <2>2, <2>4, <3>2, HoldersAfter
    <3> QED BY <3>1, <3>2
  <2>5. CASE urefs = 1 BY <2>2, <2>5, HoldersAfter
  <2> QED BY <2>3, <2>4, <2>5
<1>15. Clean' => Exact(m)'
  BY <1>1, <1>5, <1>6, <1>7, <1>14 DEF Exact
<1>16. "lostmap" \notin hist' => FiledUnder(m)'
  BY <1>5 DEF IInv, OnFile, FiledUnder, Step
<1>17. NoUseAfterFree' BY DEF IInv, NoUseAfterFree, NoFault, Step
<1>18. HeapReturned' BY DEF IInv, HeapReturned, NoFault, Step
<1>19. \/ loc[t].m \in {Nil, m} /\ loc'[t].m \in {Nil, m}
       \/ loc'[t].m = loc[t].m /\ pc[t] \in HoldPcs /\ pc'[t] \in HoldPcs
  OBVIOUS
<1> QED BY <1>8, <1>11, <1>12, <1>13, <1>15, <1>16, <1>17, <1>18, <1>19, StepAt

\* A mapping that is freed with nobody left who refers to it.
LEMMA StepGone ==
  ASSUME IInv, NEW t \in Threads, Step(t), NEW m \in Maps, Others(map', m), map'[m] = NoMap,
         loc[t].m \in {Nil, m}, loc'[t].m = Nil,
         Clean' => \A u \in Threads \ {t} : loc[u].m # m,
         NoUseAfterFree', HeapReturned'
  PROVE  MapsInv'
<1>1. /\ ~map'[m].used /\ map'[m].kind = "buf" /\ map'[m].fl = Nil /\ ~map'[m].prot
      /\ ~map'[m].listed /\ ~map'[m].raddr
  BY DEF NoMap
<1>2. Clean' => \A u \in Threads : loc'[u].m # m
  BY MapsAssumption DEF Step, OnlyThread, MapsAssumption
<1>3. ShapeOf(m)' BY <1>1 DEF ShapeOf, Heaps
<1>4. Clean' => \A u \in Threads \ {t} : ~(WorksOn(u, m) /\ WorksOn(t, m)')
  BY <1>2 DEF WorksOn
<1>5. OwnersOf(m)' BY <1>1 DEF OwnersOf
<1>6. ~Known(m)' BY <1>1 DEF Known
<1>7. FiledUnder(m)' BY <1>1 DEF FiledUnder
<1> QED BY <1>2, <1>3, <1>4, <1>5, <1>6, <1>7, StepAt

\* Who refers to a mapping that exists, by what it is counted for.
LEMMA Referrers ==
  ASSUME IInv, Clean, NEW m \in Maps, NEW u \in Threads, loc[u].m = m
  PROVE  /\ map[m].used /\ map[m].va = 1 /\ Exact(m) /\ OwnersOf(m) /\ ShapeOf(m) /\ ReferredBy(u)
         /\ Cardinality(Holders(m)) \in Nat /\ map[m].refs \in Nat
         /\ map[m].urefs \in Nat /\ map[m].hrefs \in Nat
         /\ \/ Holds(u, m) /\ map[m].kind = "buf" /\ Cardinality(Holders(m)) >= 1
            \/ WorksOn(u, m) /\ map[m].urefs >= 1
<1>1. Nil \notin Maps BY MapsAssumption DEF MapsAssumption
<1>2. ReferredBy(u) /\ map[m].used /\ map[m].va = 1
  BY <1>1 DEF IInv, Referred, ReferredBy
<1>3. Exact(m) /\ OwnersOf(m) /\ ShapeOf(m)
  BY <1>2 DEF IInv, Counted, Known, Owned, Shape
<1>4. map[m].refs \in Nat /\ map[m].urefs \in Nat /\ map[m].hrefs \in Nat
  BY DEF IInv, TypeOK, MapRec
<1>5. /\ Cardinality(Holders(m)) \in Nat
      /\ Holds(u, m) => Cardinality(Holders(m)) >= 1
  BY HoldersCount DEF IInv, Counted
<1>6. Holds(u, m) \/ WorksOn(u, m)
  BY <1>1 DEF Holds, WorksOn, IInv, LocalMap
<1>7. Holds(u, m) => map[m].kind = "buf"
  BY <1>2 DEF Holds, ReferredBy
<1>8. WorksOn(u, m) => map[m].urefs >= 1
  BY <1>2, <1>3, <1>4 DEF WorksOn, ReferredBy, OwnersOf, SolePcs
<1> QED BY <1>2, <1>3, <1>4, <1>5, <1>6, <1>7, <1>8

\* A call or an INIT gives its reference back.
LEMMA StepHeldDropped ==
  ASSUME IInv, NEW t \in Threads, Step(t), NEW m \in Maps, Holds(t, m), loc'[t].m = Nil,
         map' = Drop(map, m), hist' = hist \cup DropFaults(m)
  PROVE  MapsInv'
<1>1. Clean' => Clean BY DEF Clean, Step
<1>2. \A u \in Threads \ {t} : loc'[u] = loc[u] /\ pc'[u] = pc[u]
  BY DEF Step, OnlyThread
<1>3. Nil \notin Maps BY MapsAssumption DEF MapsAssumption
<1>4. loc[t].m = m BY DEF Holds
<1>5. /\ Others(map', m)
      /\ IF map[m].refs > 1
         THEN /\ Same(map[m], map'[m])
              /\ Flags(map'[m], map[m].listed, map[m].raddr, map[m].prot)
              /\ Counts(map'[m], map[m].refs - 1, map[m].keep, map[m].hrefs, map[m].urefs)
         ELSE map'[m] = NoMap
  BY Dropped DEF IInv, TypeOK, Others
<1>6. Clean => /\ map[m].used /\ map[m].kind = "buf" /\ Exact(m) /\ OwnersOf(m)
               /\ Cardinality(Holders(m)) \in Nat /\ Cardinality(Holders(m)) >= 1
  BY <1>4, Referrers DEF Holds, WorksOn, HoldPcs, SolePcs
<1>7. m # Nil /\ ShapeOf(m) /\ map[m].refs \in Nat /\ map[m].hrefs \in Nat /\ map[m].urefs \in Nat
      /\ map[m].keep \in BOOLEAN
  BY <1>3 DEF IInv, Shape, TypeOK, MapRec
<1>8. NoUseAfterFree'
  BY <1>1, <1>6, <1>7 DEF NoUseAfterFree, Clean, DropFaults, IInv
<1>9. HeapReturned'
  BY <1>1, <1>6, <1>7 DEF HeapReturned, Clean, DropFaults, IInv, ShapeOf, Heaps
<1>10. Cardinality(Holders(m)') = Cardinality(Holders(m)) - 1 /\ Cardinality(Holders(m)) \in Nat
  <2>1. ~Holds(t, m)' BY <1>3 DEF Holds
  <2> QED BY <2>1, HoldersAfter
<1>11. CASE map[m].refs > 1
  <2>1. /\ map'[m].used = map[m].used /\ map'[m].kind = map[m].kind /\ map'[m].fl = map[m].fl
        /\ map'[m].va = map[m].va
        /\ map'[m].refs = map[m].refs - 1 /\ map'[m].keep = map[m].keep
        /\ map'[m].hrefs = map[m].hrefs /\ map'[m].urefs = map[m].urefs
        /\ map'[m].listed = map[m].listed /\ map'[m].raddr = map[m].raddr
        /\ map'[m].prot = map[m].prot
    BY <1>5, <1>11 DEF Same, Flags, Counts
  <2>2. ShapeOf(m)' BY <1>7, <1>11, <2>1 DEF ShapeOf
  <2>3. Clean' => \A u \in Threads : loc'[u].m = m => ReferredBy(u)'
    <3> SUFFICES ASSUME Clean', NEW u \in Threads, loc'[u].m = m PROVE ReferredBy(u)'
      OBVIOUS
    <3>1. u # t BY <1>3
    <3>2. ReferredBy(u) /\ loc[u].m = m BY <1>1, <1>2, <1>3, <3>1 DEF IInv, Referred
    <3> QED BY <1>2, <1>11, <2>1, <3>1, <3>2 DEF ReferredBy
  <2>4. ~WorksOn(t, m)' BY <1>3 DEF WorksOn
  <2>5. Clean' => OwnersOf(m)'
    BY <1>1, <1>6, <2>1 DEF OwnersOf, Heaps
  <2>6. Clean' => Exact(m)'
    BY <1>1, <1>6, <1>7, <1>10, <2>1 DEF Exact
  <2>7. "lostmap" \notin hist' => FiledUnder(m)'
    BY <1>7, <1>11, <2>1 DEF IInv, OnFile, FiledUnder, Step
  <2> QED BY <1>4, <1>5, <1>8, <1>9, <2>2, <2>3, <2>4, <2>5, <2>6, <2>7, StepAt
<1>12. CASE ~(map[m].refs > 1)
  <2>1. ASSUME Clean, NEW u \in Threads \ {t}, loc[u].m = m PROVE FALSE
    <3>1. map[m].refs = 1 BY <1>6, <1>7, <1>12, <2>1 DEF ShapeOf
    <3>2. Cardinality(Holders(m)) = 1 /\ map[m].urefs = 0
      BY <1>6, <1>7, <2>1, <3>1 DEF Exact
    <3>3. Holds(u, m) BY <2>1, <3>2, Referrers
    <3> QED BY <2>1, <3>2, <3>3, HoldersCount DEF IInv, Counted
  <2> QED BY <1>1, <1>4, <1>5, <1>8, <1>9, <1>12, <2>1, StepGone
<1> QED BY <1>11, <1>12

\* An MMAP has called the DSP: the mapping has a remote address now.
LEMMA StepMapped ==
  ASSUME IInv, NEW t \in Threads, Step(t), NEW m \in Maps, loc[t].m = m, pc[t] = "mmapdsp",
         loc'[t].m = Nil, Others(map', m),
         IF map[m].used
         THEN /\ hist' = hist /\ Same(map[m], map'[m])
              /\ Flags(map'[m], map[m].listed, TRUE, map[m].kind \in Heaps)
              /\ Counts(map'[m], map[m].refs, map[m].keep, map[m].hrefs, map[m].urefs)
         ELSE map'[m] = map[m] /\ hist' = hist \cup {"uaf"}
  PROVE  MapsInv'
<1>1. Clean' => Clean BY DEF Clean, Step
<1>2. \A u \in Threads \ {t} : loc'[u] = loc[u] /\ pc'[u] = pc[u]
  BY DEF Step, OnlyThread
<1>3. Nil \notin Maps BY MapsAssumption DEF MapsAssumption
<1>4. WorksOn(t, m) /\ ~Holds(t, m) /\ ~WorksOn(t, m)' /\ ~Holds(t, m)'
  BY <1>3 DEF WorksOn, Holds, SolePcs, HoldPcs
<1>5. Clean => map[m].used /\ Exact(m) /\ OwnersOf(m) /\ ReferredBy(t) /\ map[m].urefs >= 1
  BY <1>4, Referrers
<1>6. Cardinality(Holders(m)') = Cardinality(Holders(m))
  BY <1>4, HoldersAfter
<1>7. /\ map'[m].used = map[m].used /\ map'[m].kind = map[m].kind /\ map'[m].fl = map[m].fl
      /\ map'[m].va = map[m].va
      /\ map'[m].refs = map[m].refs /\ map'[m].keep = map[m].keep
      /\ map'[m].hrefs = map[m].hrefs /\ map'[m].urefs = map[m].urefs
      /\ map'[m].listed = map[m].listed
      /\ map[m].used => map'[m].raddr /\ (map'[m].prot <=> map[m].kind \in Heaps)
      /\ ~map[m].used => map'[m].prot = map[m].prot
  BY DEF Same, Flags, Counts
<1>8. ShapeOf(m)' BY <1>7 DEF IInv, Shape, ShapeOf
<1>9. Clean' => \A u \in Threads : loc'[u].m = m => ReferredBy(u)'
  <2> SUFFICES ASSUME Clean', NEW u \in Threads, loc'[u].m = m PROVE ReferredBy(u)'
    OBVIOUS
  <2>1. u # t /\ loc[u].m = m /\ pc'[u] = pc[u] BY <1>2, <1>3
  <2>2. ~WorksOn(u, m) BY <1>1, <1>4, <2>1 DEF IInv, Exclusive
  <2>3. Holds(u, m) /\ ReferredBy(u) BY <1>1, <2>1, <2>2, Referrers
  <2> QED BY <1>1, <1>5, <1>7, <2>1, <2>3 DEF ReferredBy, Holds, HoldPcs
<1>10. Clean' => OwnersOf(m)' BY <1>1, <1>5, <1>7 DEF OwnersOf
<1>11. Clean' => Exact(m)' BY <1>1, <1>5, <1>6, <1>7 DEF Exact
<1>12. "lostmap" \notin hist' => FiledUnder(m)'
  BY <1>2, <1>7 DEF IInv, OnFile, FiledUnder, Step
<1>13. NoUseAfterFree' BY <1>1, <1>5 DEF IInv, NoUseAfterFree, Clean
<1>14. HeapReturned' BY <1>1, <1>5 DEF IInv, HeapReturned, Clean
<1> QED BY <1>4, <1>8, <1>9, <1>10, <1>11, <1>12, <1>13, <1>14, StepAt

\* An MMAP that the DSP refuses gives its reference back.
LEMMA StepMapFails ==
  ASSUME IInv, NEW t \in Threads, Step(t), NEW m \in Maps, loc[t].m = m, pc[t] = "mmapdsp",
         loc'[t].m = Nil, Others(map', m), hist' = hist \cup DropFaults(m),
         IF map[m].refs > 1
         THEN /\ Same(map[m], map'[m])
              /\ Flags(map'[m], map[m].listed, map[m].raddr, map[m].prot)
              /\ Counts(map'[m], map[m].refs - 1, map[m].keep, map[m].hrefs,
                        IF map[m].urefs = 0 THEN 0 ELSE map[m].urefs - 1)
         ELSE map'[m] = NoMap
  PROVE  MapsInv'
<1>1. Clean' => Clean BY DEF Clean, Step
<1>2. \A u \in Threads \ {t} : loc'[u] = loc[u] /\ pc'[u] = pc[u]
  BY DEF Step, OnlyThread
<1>3. Nil \notin Maps BY MapsAssumption DEF MapsAssumption
<1>4. WorksOn(t, m) /\ ~Holds(t, m) /\ ~WorksOn(t, m)' /\ ~Holds(t, m)'
  BY <1>3 DEF WorksOn, Holds, SolePcs, HoldPcs
<1>5. Clean => /\ map[m].used /\ Exact(m) /\ OwnersOf(m) /\ ReferredBy(t) /\ map[m].urefs >= 1
               /\ ~map[m].raddr /\ ~map[m].prot /\ map[m].va = 1
  BY <1>4, Referrers DEF ReferredBy
<1>6. m # Nil /\ ShapeOf(m) /\ map[m].refs \in Nat /\ map[m].hrefs \in Nat /\ map[m].urefs \in Nat
      /\ map[m].keep \in BOOLEAN
  BY <1>3 DEF IInv, Shape, TypeOK, MapRec
<1>7. Cardinality(Holders(m)') = Cardinality(Holders(m)) /\ Cardinality(Holders(m)) \in Nat
  BY <1>4, HoldersAfter
<1>8. NoUseAfterFree' BY <1>1, <1>5, <1>6 DEF NoUseAfterFree, Clean, DropFaults, IInv
<1>9. HeapReturned' BY <1>1, <1>5, <1>6 DEF HeapReturned, Clean, DropFaults, IInv
<1>10. Clean => \A u \in Threads \ {t} : loc[u].m = m => Holds(u, m) /\ ReferredBy(u)
  <2> SUFFICES ASSUME Clean, NEW u \in Threads \ {t}, loc[u].m = m PROVE Holds(u, m) /\ ReferredBy(u)
    OBVIOUS
  <2>1. ~WorksOn(u, m) BY <1>4 DEF IInv, Exclusive
  <2> QED BY <2>1, Referrers
<1>11. CASE map[m].refs > 1
  <2>1. /\ map'[m].used = map[m].used /\ map'[m].kind = map[m].kind /\ map'[m].fl = map[m].fl
        /\ map'[m].va = map[m].va
        /\ map'[m].refs = map[m].refs - 1 /\ map'[m].keep = map[m].keep
        /\ map'[m].hrefs = map[m].hrefs
        /\ map'[m].urefs = (IF map[m].urefs = 0 THEN 0 ELSE map[m].urefs - 1)
        /\ map'[m].listed = map[m].listed /\ map'[m].raddr = map[m].raddr
        /\ map'[m].prot = map[m].prot
    BY <1>11 DEF Same, Flags, Counts
  <2>2. ShapeOf(m)' BY <1>6, <1>11, <2>1 DEF ShapeOf
  <2>3. Clean' => \A u \in Threads : loc'[u].m = m => ReferredBy(u)'
    <3> SUFFICES ASSUME Clean', NEW u \in Threads, loc'[u].m = m PROVE ReferredBy(u)'
      OBVIOUS
    <3>1. u # t /\ loc[u].m = m /\ pc'[u] = pc[u] BY <1>2, <1>3
    <3>2. Holds(u, m) /\ ReferredBy(u) BY <1>1, <1>10, <3>1
    <3> QED BY <2>1, <3>1, <3>2 DEF ReferredBy, Holds, HoldPcs
  <2>4. Clean' => OwnersOf(m)'
    BY <1>1, <1>5, <1>11, <2>1 DEF OwnersOf
  <2>5. Clean' => Exact(m)'
    BY <1>1, <1>5, <1>6, <1>7, <2>1 DEF Exact
  <2>6. "lostmap" \notin hist' => FiledUnder(m)'
    BY <1>6, <1>11, <2>1 DEF IInv, OnFile, FiledUnder, Step
  <2> QED BY <1>4, <1>8, <1>9, <2>2, <2>3, <2>4, <2>5, <2>6, StepAt
<1>12. CASE ~(map[m].refs > 1)
  <2>1. ASSUME Clean, NEW u \in Threads \ {t}, loc[u].m = m PROVE FALSE
    <3>1. map[m].refs = 1 BY <1>5, <1>6, <1>12, <2>1 DEF ShapeOf
    <3>2. Cardinality(Holders(m)) = 0
      BY <1>5, <1>6, <1>7, <2>1, <3>1 DEF Exact
    <3>3. Holds(u, m) BY <1>10, <2>1
    <3> QED BY <3>2, <3>3, HoldersCount DEF IInv, Counted
  <2> QED BY <1>1, <1>8, <1>9, <1>12, <2>1, StepGone
<1> QED BY <1>11, <1>12

\* A MUNMAP or the removal after a restart unhooks a mapping nobody else refers to, or
\* takes it from under its owner and hist says so.
LEMMA StepUnhooked ==
  ASSUME IInv, NEW t \in Threads, Step(t), NEW m \in Maps, map[m].listed,
         loc[t].m = Nil, loc'[t].m = m, Others(map', m), Same(map[m], map'[m]),
         Flags(map'[m], FALSE, map[m].raddr, map[m].prot),
         Counts(map'[m], map[m].refs, map[m].keep, map[m].hrefs, map[m].urefs),
         \/ /\ pc'[t] = "mundsp" /\ map[m].refs = 1
            /\ map[m].kind \in Heaps \/ map[m].fl = FileOf[t]
            /\ hist' \subseteq hist \cup {"taken"}
            /\ "taken" \in hist' \/ Owed(m)
         \/ /\ pc'[t] = "ssrdsp" /\ map[m].kind \in Heaps
            /\ hist' \subseteq hist \cup {"ssrtook"}
            /\ "ssrtook" \in hist' \/ ~Busy(m)
  PROVE  MapsInv'
<1>1. Clean' => Clean BY DEF Clean, Step
<1>2. \A u \in Threads \ {t} : loc'[u] = loc[u] /\ pc'[u] = pc[u]
  BY DEF Step, OnlyThread
<1>3. Nil \notin Maps BY MapsAssumption DEF MapsAssumption
<1>4. ~WorksOn(t, m) /\ ~Holds(t, m) /\ ~Holds(t, m)'
  BY <1>3 DEF WorksOn, Holds, HoldPcs
<1>5. Clean => map[m].used /\ Exact(m) /\ OwnersOf(m)
  BY DEF IInv, Owned, OwnersOf, Counted, Known
<1>6. ShapeOf(m) /\ map[m].refs \in Nat /\ map[m].hrefs \in Nat /\ map[m].urefs \in Nat
      /\ map[m].keep \in BOOLEAN /\ map[m].va \in {0, 1}
  BY DEF IInv, Shape, TypeOK, MapRec
<1>7. Cardinality(Holders(m)') = Cardinality(Holders(m)) /\ Cardinality(Holders(m)) \in Nat
  BY <1>4, HoldersAfter
<1>8. Clean' => map[m].refs = 1 /\ map[m].urefs >= 1 /\ map[m].va = 1
  BY <1>1, <1>5, <1>6 DEF OwnersOf, Heaps, Owed, Clean
<1>9. ASSUME Clean', NEW u \in Threads, loc[u].m = m PROVE FALSE
  <2>1. ReferredBy(u) /\ (Holds(u, m) \/ WorksOn(u, m)) BY <1>1, <1>9, Referrers
  <2>2. ~Holds(u, m)
    <3>1. Cardinality(Holders(m)) = 0
      BY <1>1, <1>5, <1>6, <1>7, <1>8, <1>9 DEF Exact
    <3> QED BY <3>1, HoldersCount DEF IInv, Counted
  <2>3. pc[u] \in {"mmapdsp", "statdsp"}
    BY <1>9, <2>1, <2>2 DEF ReferredBy, WorksOn, SolePcs
  <2>4. ~Busy(m) BY <1>9 DEF Clean, Owed
  <2> QED BY <1>9, <2>3, <2>4 DEF Busy
<1>10. /\ map'[m].used = map[m].used /\ map'[m].kind = map[m].kind /\ map'[m].fl = map[m].fl
       /\ map'[m].va = map[m].va
       /\ map'[m].refs = map[m].refs /\ map'[m].keep = map[m].keep
       /\ map'[m].hrefs = map[m].hrefs /\ map'[m].urefs = map[m].urefs
       /\ ~map'[m].listed /\ map'[m].raddr = map[m].raddr /\ map'[m].prot = map[m].prot
  BY DEF Same, Flags, Counts
<1>11. ShapeOf(m)' BY <1>6, <1>10 DEF ShapeOf
<1>12. Clean' => \A u \in Threads : loc'[u].m = m => ReferredBy(u)'
  <2> SUFFICES ASSUME Clean', NEW u \in Threads, loc'[u].m = m PROVE ReferredBy(u)'
    OBVIOUS
  <2>1. u = t BY <1>2, <1>9
  <2> QED BY <1>1, <1>5, <1>6, <1>8, <1>10, <2>1 DEF ReferredBy, ShapeOf, HoldPcs
<1>13. Clean' => \A u \in Threads \ {t} : ~(WorksOn(u, m) /\ WorksOn(t, m)')
  BY <1>9 DEF WorksOn
<1>14. Clean' => OwnersOf(m)' BY <1>1, <1>5, <1>10 DEF OwnersOf
<1>15. Clean' => Exact(m)' BY <1>1, <1>5, <1>7, <1>10 DEF Exact
<1>16. "lostmap" \notin hist' => FiledUnder(m)'
  BY <1>6, <1>10 DEF IInv, OnFile, FiledUnder, Step, ShapeOf
<1>17. NoUseAfterFree' BY DEF IInv, NoUseAfterFree, Step
<1>18. HeapReturned' BY DEF IInv, HeapReturned, Step
<1> QED BY <1>11, <1>12, <1>13, <1>14, <1>15, <1>16, <1>17, <1>18, StepAt

\* What nobody else refers to: a mapping that a MUNMAP or a removal has unhooked, and the
\* heap of an INIT.
LEMMA Unhooked ==
  ASSUME IInv, Clean, NEW m \in Maps, NEW t \in Threads, loc[t].m = m,
         pc[t] \in {"mundsp", "ssrdsp", "statdsp"}
  PROVE  map[m].used /\ map[m].refs = 1 /\ \A u \in Threads \ {t} : loc[u].m # m
<1>1. /\ map[m].used /\ Exact(m) /\ OwnersOf(m) /\ ReferredBy(t) /\ map[m].urefs >= 1
      /\ map[m].urefs \in Nat /\ map[m].hrefs \in Nat /\ Cardinality(Holders(m)) \in Nat
      /\ WorksOn(t, m)
  BY Referrers DEF WorksOn, Holds, HoldPcs, SolePcs
<1>2. map[m].refs = 1
  BY <1>1 DEF ReferredBy, OwnersOf
<1>3. Cardinality(Holders(m)) = 0
  BY <1>1, <1>2 DEF Exact
<1>4. ASSUME NEW u \in Threads \ {t}, loc[u].m = m PROVE FALSE
  <2>1. ~WorksOn(u, m) BY <1>1 DEF IInv, Exclusive
  <2>2. Holds(u, m) BY <1>4, <2>1, Referrers
  <2> QED BY <1>3, <2>2, HoldersCount DEF IInv, Counted
<1> QED BY <1>1, <1>2, <1>4

\* The mapping goes back on its list.
LEMMA StepRelisted ==
  ASSUME IInv, NEW t \in Threads, Step(t), NEW m \in Maps, loc[t].m = m,
         pc[t] \in {"mundsp", "ssrdsp"}, loc'[t].m = Nil, Others(map', m), Same(map[m], map'[m]),
         Flags(map'[m], TRUE, map[m].raddr, map[m].prot),
         Counts(map'[m], map[m].refs, map[m].keep, map[m].hrefs, map[m].urefs),
         hist' \subseteq hist \cup (IF map[m].used THEN {} ELSE {"uaf"})
  PROVE  MapsInv'
<1>1. Clean' => Clean BY DEF Clean, Step
<1>2. \A u \in Threads \ {t} : loc'[u] = loc[u] /\ pc'[u] = pc[u]
  BY DEF Step, OnlyThread
<1>3. Nil \notin Maps BY MapsAssumption DEF MapsAssumption
<1>4. ~Holds(t, m) /\ ~WorksOn(t, m)' /\ ~Holds(t, m)'
  BY <1>3 DEF WorksOn, Holds, HoldPcs
<1>5. Clean => map[m].used /\ Exact(m) /\ OwnersOf(m) /\ \A u \in Threads \ {t} : loc[u].m # m
  BY Unhooked, Referrers
<1>6. Cardinality(Holders(m)') = Cardinality(Holders(m))
  BY <1>4, HoldersAfter
<1>7. /\ map'[m].used = map[m].used /\ map'[m].kind = map[m].kind /\ map'[m].fl = map[m].fl
      /\ map'[m].va = map[m].va
      /\ map'[m].refs = map[m].refs /\ map'[m].keep = map[m].keep
      /\ map'[m].hrefs = map[m].hrefs /\ map'[m].urefs = map[m].urefs
      /\ map'[m].listed /\ map'[m].raddr = map[m].raddr /\ map'[m].prot = map[m].prot
  BY DEF Same, Flags, Counts
<1>8. ShapeOf(m)' BY <1>7 DEF IInv, Shape, ShapeOf
<1>9. Clean' => \A u \in Threads : loc'[u].m # m BY <1>1, <1>2, <1>3, <1>5
<1>10. Clean' => OwnersOf(m)' BY <1>1, <1>5, <1>7 DEF OwnersOf
<1>11. Clean' => Exact(m)' BY <1>1, <1>5, <1>6, <1>7 DEF Exact
<1>12. "lostmap" \notin hist' => FiledUnder(m)'
  BY <1>7 DEF IInv, OnFile, FiledUnder, Step
<1>13. NoUseAfterFree' BY <1>1, <1>5 DEF IInv, NoUseAfterFree, Clean, Step
<1>14. HeapReturned' BY DEF IInv, HeapReturned, Step
<1> QED BY <1>4, <1>8, <1>9, <1>10, <1>11, <1>12, <1>13, <1>14, StepAt

\* The mapping is freed.
LEMMA StepFreed ==
  ASSUME IInv, NEW t \in Threads, Step(t), NEW m \in Maps, loc[t].m = m,
         pc[t] \in {"mundsp", "ssrdsp", "statdsp"}, loc'[t].m = Nil, map' = Drop(map, m),
         "uaf" \in hist' => "uaf" \in hist \/ ~map[m].used,
         "heaplost" \in hist' => "heaplost" \in hist \/ hist' \cap {"shadowed", "unverified"} # {}
  PROVE  MapsInv'
<1>1. Clean' => Clean BY DEF Clean, Step
<1>2. \A u \in Threads \ {t} : loc'[u] = loc[u] /\ pc'[u] = pc[u]
  BY DEF Step, OnlyThread
<1>3. Nil \notin Maps BY MapsAssumption DEF MapsAssumption
<1>4. ~WorksOn(t, m)' BY <1>3 DEF WorksOn
<1>5. Clean => map[m].used /\ map[m].refs = 1 /\ \A u \in Threads \ {t} : loc[u].m # m
  BY Unhooked
<1>6. /\ Others(map', m)
      /\ IF map[m].refs > 1
         THEN /\ Same(map[m], map'[m])
              /\ Flags(map'[m], map[m].listed, map[m].raddr, map[m].prot)
              /\ Counts(map'[m], map[m].refs - 1, map[m].keep, map[m].hrefs, map[m].urefs)
         ELSE map'[m] = NoMap
  BY Dropped DEF IInv, TypeOK, Others
<1>7. NoUseAfterFree' BY <1>1, <1>5 DEF IInv, NoUseAfterFree, Clean, Step
<1>8. HeapReturned' BY DEF IInv, HeapReturned, Step
<1>9. CASE map[m].refs > 1
  <2>1. ~Clean BY <1>5, <1>9
  <2>2. map[m].refs \in Nat /\ ShapeOf(m) BY DEF IInv, TypeOK, MapRec, Shape
  <2>3. ShapeOf(m)' BY <1>6, <1>9, <2>2 DEF ShapeOf, Same, Flags, Counts
  <2>4. "lostmap" \notin hist' => FiledUnder(m)'
    BY <1>6, <1>9, <2>2 DEF IInv, OnFile, FiledUnder, Step, Same, Flags
  <2> QED BY <1>1, <1>6, <1>7, <1>8, <2>1, <2>3, <2>4, StepAt
<1>10. CASE ~(map[m].refs > 1)
  BY <1>1, <1>5, <1>6, <1>7, <1>8, <1>10, StepGone
<1> QED BY <1>9, <1>10

\* MUNMAP_FD gives the reference of a persistent mapping back, or steals another.
LEMMA StepFdDropped ==
  ASSUME IInv, NEW t \in Threads, Step(t), NEW m \in Maps, map[m].listed, map[m].kind \notin Heaps,
         map[m].fl = FileOf[t], loc[t].m = Nil, loc'[t].m = Nil, Others(map', m),
         hist' = hist \cup DropFaults(m) \cup (IF map[m].keep THEN {} ELSE {"stolen"}),
         IF map[m].refs > 1
         THEN /\ Same(map[m], map'[m])
              /\ Flags(map'[m], map[m].listed, map[m].raddr, map[m].prot)
              /\ Counts(map'[m], map[m].refs - 1, FALSE, map[m].hrefs, map[m].urefs)
         ELSE map'[m] = NoMap
  PROVE  MapsInv'
<1>1. Clean' => Clean /\ map[m].keep
  BY DEF Clean, Step
<1>2. \A u \in Threads \ {t} : loc'[u] = loc[u] /\ pc'[u] = pc[u]
  BY DEF Step, OnlyThread
<1>3. Nil \notin Maps BY MapsAssumption DEF MapsAssumption
<1>4. ~Holds(t, m) /\ ~WorksOn(t, m)' /\ ~Holds(t, m)'
  BY <1>3 DEF WorksOn, Holds
<1>5. Clean => map[m].used /\ Exact(m) /\ OwnersOf(m)
  BY DEF IInv, Owned, OwnersOf, Counted, Known
<1>6. m # Nil /\ ShapeOf(m) /\ map[m].refs \in Nat /\ map[m].hrefs \in Nat /\ map[m].urefs \in Nat
      /\ map[m].keep \in BOOLEAN /\ map[m].kind = "buf" /\ ~map[m].prot
  BY <1>3 DEF IInv, Shape, ShapeOf, TypeOK, MapRec, Kinds
<1>7. Cardinality(Holders(m)') = Cardinality(Holders(m)) /\ Cardinality(Holders(m)) \in Nat
  BY <1>4, HoldersAfter
<1>8. "uaf" \in hist' => "uaf" \in hist \/ ~map[m].used
  BY <1>6 DEF DropFaults
<1>9. "heaplost" \in hist' => "heaplost" \in hist
  BY <1>6 DEF DropFaults
<1>10. NoUseAfterFree' BY <1>1, <1>5, <1>8 DEF NoUseAfterFree, Clean, IInv
<1>11. HeapReturned' BY <1>9 DEF HeapReturned, IInv, Step
<1>12. CASE map[m].refs > 1
  <2>1. /\ map'[m].used = map[m].used /\ map'[m].kind = map[m].kind /\ map'[m].fl = map[m].fl
        /\ map'[m].va = map[m].va
        /\ map'[m].refs = map[m].refs - 1 /\ map'[m].keep = FALSE
        /\ map'[m].hrefs = map[m].hrefs /\ map'[m].urefs = map[m].urefs
        /\ map'[m].listed = map[m].listed /\ map'[m].raddr = map[m].raddr
        /\ map'[m].prot = map[m].prot
    BY <1>12 DEF Same, Flags, Counts
  <2>2. ShapeOf(m)' BY <1>6, <1>12, <2>1 DEF ShapeOf
  <2>3. Clean' => \A u \in Threads : loc'[u].m = m => ReferredBy(u)'
    <3> SUFFICES ASSUME Clean', NEW u \in Threads, loc'[u].m = m PROVE ReferredBy(u)'
      OBVIOUS
    <3>1. u # t /\ loc[u].m = m /\ pc'[u] = pc[u] BY <1>2, <1>3
    <3>2. ReferredBy(u) BY <1>1, <3>1, Referrers
    <3> QED BY <2>1, <3>1, <3>2 DEF ReferredBy
  <2>4. Clean' => OwnersOf(m)' BY <1>1, <1>5, <1>6, <2>1 DEF OwnersOf, Heaps
  <2>5. Clean' => Exact(m)' BY <1>1, <1>5, <1>6, <1>7, <2>1 DEF Exact
  <2>6. "lostmap" \notin hist' => FiledUnder(m)'
    BY <2>1 DEF IInv, OnFile, FiledUnder, Step
  <2> QED BY <1>4, <1>10, <1>11, <2>2, <2>3, <2>4, <2>5, <2>6, StepAt
<1>13. CASE ~(map[m].refs > 1)
  <2>1. ASSUME Clean', NEW u \in Threads \ {t}, loc[u].m = m PROVE FALSE
    <3>1. map[m].refs = 1 BY <1>1, <1>5, <1>6, <1>13, <2>1 DEF ShapeOf
    <3>2. Cardinality(Holders(m)) = 0 /\ map[m].urefs = 0
      BY <1>1, <1>5, <1>6, <1>7, <2>1, <3>1 DEF Exact
    <3> QED BY <1>1, <2>1, <3>2, Referrers
  <2> QED BY <1>10, <1>11, <1>13, <2>1, StepGone
<1> QED BY <1>12, <1>13

\* The list of handles gives back a reference of each mapping of a handle that is on it.
LEMMA StepFdlist ==
  ASSUME IInv, NEW t \in Threads, Step(t), loc'[t].m = loc[t].m, pc[t] \in HoldPcs, pc'[t] \in HoldPcs,
         NEW hit \in SUBSET Maps, \A m \in Maps \ hit : map'[m] = map[m],
         \A m \in hit : /\ map[m].listed /\ map[m].kind \notin Heaps /\ map[m].va = 0
                        /\ IF map[m].refs > 1
                           THEN /\ Same(map[m], map'[m])
                                /\ Flags(map'[m], map[m].listed, map[m].raddr, map[m].prot)
                                /\ Counts(map'[m], map[m].refs - 1, map[m].keep,
                                          IF map[m].hrefs = 0 THEN 0 ELSE map[m].hrefs - 1,
                                          map[m].urefs)
                           ELSE map'[m] = NoMap,
         hist' \subseteq hist \cup {"uaf", "heaplost"},
         "uaf" \in hist' => "uaf" \in hist \/ \E m \in hit : ~map[m].used,
         "heaplost" \in hist' => "heaplost" \in hist \/ \E m \in hit : map[m].prot
  PROVE  MapsInv'
<1>1. Clean' => Clean BY DEF Clean, Step
<1>2. \A u \in Threads : /\ loc'[u].m = loc[u].m
                         /\ pc'[u] = pc[u] \/ (pc[u] \in HoldPcs /\ pc'[u] \in HoldPcs)
  BY DEF Step, OnlyThread
<1>3. Nil \notin Maps BY MapsAssumption DEF MapsAssumption
<1>4. \A m \in Maps : /\ ShapeOf(m) /\ map[m].refs \in Nat /\ map[m].hrefs \in Nat
                      /\ map[m].urefs \in Nat /\ map[m].keep \in BOOLEAN
                      /\ map[m].kind \in Kinds /\ map[m].fl \in Files \cup {Nil}
  BY DEF IInv, Shape, TypeOK, MapRec
<1>5. \A m \in Maps : /\ IsFiniteSet(Holders(m)') /\ Cardinality(Holders(m)) \in Nat
                      /\ Cardinality(Holders(m)') = Cardinality(Holders(m))
  <2>1. \A m \in Maps : Holds(t, m) <=> Holds(t, m)' BY DEF Holds
  <2> QED BY <2>1, HoldersStep DEF IInv, Counted, Step
<1>6. ASSUME Clean, NEW m \in hit
      PROVE  /\ map[m].used /\ Exact(m) /\ OwnersOf(m) /\ map[m].urefs = 0 /\ ~map[m].keep
             /\ ~map[m].prot
             /\ Cardinality(Holders(m)) = 0 /\ map[m].refs = map[m].hrefs /\ map[m].hrefs >= 1
             /\ \A u \in Threads : loc[u].m # m
  <2>1. map[m].used /\ Exact(m) /\ OwnersOf(m) /\ ShapeOf(m)
    BY <1>4, <1>6 DEF IInv, Owned, OwnersOf, Counted, Known
  <2>2. \A u \in Threads : loc[u].m # m
    BY <1>3, <1>6 DEF IInv, Referred, ReferredBy
  <2>3. Holders(m) = {} BY <2>2, HoldersAre DEF Holds
  <2>4. Cardinality(Holders(m)) = 0 BY <2>3, FS_EmptySet
  <2>5. map[m].urefs = 0 /\ ~map[m].keep /\ ~map[m].prot BY <2>1 DEF OwnersOf, ShapeOf
  <2> QED BY <1>4, <2>1, <2>2, <2>4, <2>5 DEF Exact, ShapeOf
<1>7. \A m \in hit : IF map[m].refs > 1
        THEN /\ map'[m].used = map[m].used /\ map'[m].kind = map[m].kind /\ map'[m].fl = map[m].fl
             /\ map'[m].va = map[m].va
             /\ map'[m].refs = map[m].refs - 1 /\ map'[m].keep = map[m].keep
             /\ map'[m].hrefs = (IF map[m].hrefs = 0 THEN 0 ELSE map[m].hrefs - 1)
             /\ map'[m].urefs = map[m].urefs
             /\ map'[m].listed = map[m].listed /\ map'[m].raddr = map[m].raddr
             /\ map'[m].prot = map[m].prot
        ELSE /\ ~map'[m].used /\ map'[m].kind = "buf" /\ map'[m].fl = Nil /\ ~map'[m].prot
             /\ ~map'[m].listed /\ ~map'[m].raddr
  BY DEF Same, Flags, Counts, NoMap
<1>8. Shape'
  <2> SUFFICES ASSUME NEW m \in Maps PROVE ShapeOf(m)' BY DEF Shape
  <2>1. CASE m \in hit BY <1>4, <1>7, <2>1 DEF ShapeOf, Heaps
  <2>2. CASE m \notin hit BY <1>4, <2>2 DEF ShapeOf
  <2> QED BY <2>1, <2>2
<1>9. Referred'
  <2> SUFFICES ASSUME Clean', NEW u \in Threads, loc'[u].m # Nil PROVE ReferredBy(u)'
    BY DEF Referred
  <2>1. ReferredBy(u) /\ loc[u].m \in Maps /\ loc[u].m \notin hit
    BY <1>1, <1>2, <1>6 DEF IInv, Referred, TypeOK, Loc
  <2> QED BY <1>2, <2>1 DEF ReferredBy, HoldPcs
<1>10. Exclusive'
  <2>1. \A m \in Maps, u \in Threads : WorksOn(u, m)' => WorksOn(u, m)
    BY <1>2 DEF WorksOn, HoldPcs, SolePcs
  <2> QED BY <1>1, <2>1 DEF IInv, Exclusive
<1>11. Owned'
  <2> SUFFICES ASSUME Clean', NEW m \in Maps PROVE OwnersOf(m)' BY DEF Owned
  <2>1. CASE m \in hit BY <1>1, <1>4, <1>6, <1>7, <2>1 DEF OwnersOf
  <2>2. CASE m \notin hit BY <1>1, <2>2 DEF IInv, Owned, OwnersOf
  <2> QED BY <2>1, <2>2
<1>12. Counted'
  <2> SUFFICES ASSUME Clean', NEW m \in Maps, Known(m)' PROVE Exact(m)' BY <1>5 DEF Counted
  <2>1. CASE m \in hit BY <1>1, <1>4, <1>5, <1>6, <1>7, <2>1 DEF Exact, Known
  <2>2. CASE m \notin hit
    <3>1. Known(m) BY <1>2, <2>2 DEF Known
    <3> QED BY <1>1, <1>5, <2>2, <3>1 DEF IInv, Counted, Exact
  <2> QED BY <2>1, <2>2
<1>13. OnFile'
  <2> SUFFICES ASSUME "lostmap" \notin hist', NEW m \in Maps PROVE FiledUnder(m)' BY DEF OnFile
  <2>1. FiledUnder(m) BY DEF IInv, OnFile, Step
  <2>2. CASE m \in hit BY <1>7, <2>1, <2>2 DEF FiledUnder, Step
  <2>3. CASE m \notin hit
    <3>1. map'[m] = map[m] BY <2>3
    <3>2. \A u \in Threads : pc[u] = "mundsp" => pc'[u] = "mundsp" BY <1>2 DEF HoldPcs
    <3> QED BY <1>2, <2>1, <3>1, <3>2 DEF FiledUnder, Step
  <2> QED BY <2>2, <2>3
<1>14. NoUseAfterFree' BY <1>1, <1>6 DEF IInv, NoUseAfterFree, Clean, Step
<1>15. HeapReturned' BY <1>1, <1>6 DEF IInv, HeapReturned, Clean, Step
<1> QED BY <1>8, <1>9, <1>10, <1>11, <1>12, <1>13, <1>14, <1>15 DEF MapsInv

\* The close of a file frees what is on its list: nobody is working on it.
LEMMA FileFreeMaps ==
  ASSUME IInv, NEW f \in Files, FileFree(f)
  PROVE  MapsInv'
<1>1. /\ \A t \in Threads : FileOf[t] = f => pc[t] = "idle"
      /\ open' = open \ {f} /\ pc' = pc /\ loc' = loc /\ hist' = hist
      /\ map' = [m \in Maps |-> IF m \in OnLists(f) THEN NoMap ELSE map[m]]
  BY DEF FileFree
<1>2. f # Nil /\ Nil \notin Maps BY MapsAssumption DEF MapsAssumption
<1>3. \A m \in Maps : IF map[m].listed /\ map[m].fl = f
        THEN /\ ~map'[m].used /\ map'[m].kind = "buf" /\ map'[m].fl = Nil /\ ~map'[m].prot
             /\ ~map'[m].listed /\ ~map'[m].raddr
        ELSE map'[m] = map[m]
  BY <1>1 DEF OnLists, NoMap
<1>4. ASSUME Clean, NEW t \in Threads, loc[t].m # Nil
      PROVE  loc[t].m \in Maps /\ map[loc[t].m].fl # f /\ map'[loc[t].m] = map[loc[t].m] /\ ReferredBy(t)
  <2>1. loc[t].m \in Maps BY <1>4 DEF IInv, TypeOK, Loc
  <2>2. ReferredBy(t) BY <1>4 DEF IInv, Referred
  <2>3. FileOf[t] # f BY <1>1, <1>4 DEF IInv, LocalMap, HoldPcs, SolePcs
  <2> QED BY <1>2, <1>3, <2>1, <2>2, <2>3 DEF ReferredBy
<1>5. Shape'
  <2> SUFFICES ASSUME NEW m \in Maps PROVE ShapeOf(m)' BY DEF Shape
  <2> QED BY <1>3 DEF IInv, Shape, ShapeOf, Heaps
<1>6. Referred' BY <1>1, <1>4 DEF Referred, ReferredBy, Clean
<1>7. Exclusive' BY <1>1 DEF IInv, Exclusive, WorksOn, Clean
<1>8. Owned'
  <2> SUFFICES ASSUME Clean, NEW m \in Maps PROVE OwnersOf(m)' BY <1>1 DEF Owned, Clean
  <2> QED BY <1>3 DEF IInv, Owned, OwnersOf
<1>9. Counted'
  <2>1. \A m \in Maps : Holders(m)' = Holders(m) BY <1>1 DEF Holders
  <2>2. ASSUME Clean, NEW m \in Maps, Known(m)' PROVE Exact(m)'
    <3>1. map'[m] = map[m] BY <1>3, <2>2 DEF Known
    <3>2. Known(m) BY <1>1, <2>2, <3>1 DEF Known
    <3> QED BY <2>1, <2>2, <3>1, <3>2 DEF IInv, Counted, Exact
  <2> QED BY <1>1, <2>1, <2>2 DEF IInv, Counted, Clean
<1>10. OnFile'
  <2> SUFFICES ASSUME "lostmap" \notin hist, NEW m \in Maps PROVE FiledUnder(m)'
    BY <1>1 DEF OnFile
  <2>1. FiledUnder(m) BY DEF IInv, OnFile
  <2>2. CASE map[m].listed /\ map[m].fl = f BY <1>3, <2>2 DEF FiledUnder
  <2>3. CASE ~(map[m].listed /\ map[m].fl = f)
    <3>1. map'[m] = map[m] BY <1>3, <2>3
    <3>2. map[m].fl # Nil => map[m].fl # f BY <1>1, <2>1, <2>3 DEF FiledUnder
    <3> QED BY <1>1, <2>1, <3>1, <3>2 DEF FiledUnder
  <2> QED BY <2>2, <2>3
<1>11. NoUseAfterFree' /\ HeapReturned' BY <1>1 DEF IInv, NoUseAfterFree, HeapReturned
<1> QED BY <1>5, <1>6, <1>7, <1>8, <1>9, <1>10, <1>11 DEF MapsInv

-----------------------------------------------------------------------------
(***************************************************************************)
(* The steps of a thread.                                                  *)
(***************************************************************************)

\* The types of what only a few steps change.
RestTyped ==
  /\ buf \in [Bufs -> BufRec]
  /\ initMem \in [Files -> Bufs \cup {Nil}]
  /\ mapMutex \in [Files -> Threads \cup {Nil}]
  /\ staticpd \in BOOLEAN
  /\ stale \subseteq {"ssr", "pdr"}
  /\ dsph \in [Files \X Fds -> Nat]
  /\ kept \subseteq Files \X Fds
  /\ ops \in [user : Nat, restart : Nat]
  /\ hist \subseteq Faults

\* What the local m of a thread may be, by the stretch it comes to.
LocalOK(l, r) == /\ r.m # Nil => l \in HoldPcs \cup SolePcs
                 /\ l = "ssrdsp" => r.m # Nil
                 /\ l \in {"mmapdsp", "mundsp"} => r.m = Nil \/ r.b = Nil
                 /\ r.keep => r.fd # Nil

\* A step of a thread, seen from its control.
LEMMA Stepped ==
  ASSUME IInv, NEW t \in Threads, NEW l \in PCs, NEW r \in Loc, Goto(t, l, r), LocalOK(l, r),
         FileOf[t] \in open, map' \in [Maps -> MapRec], RestTyped', open' = open,
         hist \subseteq hist'
  PROVE  Step(t) /\ TypeOK' /\ LocalMap' /\ Active' /\ pc'[t] = l /\ loc'[t] = r
<1>1. /\ pc'[t] = l /\ loc'[t] = r
      /\ \A u \in Threads \ {t} : pc'[u] = pc[u] /\ loc'[u] = loc[u]
      /\ pc' \in [Threads -> PCs] /\ loc' \in [Threads -> Loc]
  BY Moved DEF IInv
<1>2. open' \subseteq Files BY DEF IInv, TypeOK
<1>3. TypeOK' BY <1>1, <1>2 DEF TypeOK, RestTyped
<1>4. LocalMap' BY <1>1 DEF IInv, LocalMap, LocalOK
<1>5. Active' BY <1>1 DEF IInv, Active
<1> QED BY <1>1, <1>3, <1>4, <1>5 DEF Step, OnlyThread

\* The start of an operation, and a thread that is in one.
LEMMA Started ==
  ASSUME IInv, NEW t \in Threads, NEW op, NEW l, NEW r, Start(t, op, l, r)
  PROVE  /\ pc[t] = "idle" /\ loc[t].m = Nil /\ FileOf[t] \in open /\ FileOf[t] \in Files
         /\ Goto(t, l, r) /\ ops' \in [user : Nat, restart : Nat]
<1>1. pc[t] = "idle" /\ FileOf[t] \in open /\ Goto(t, l, r) /\ ops' = [ops EXCEPT !.user = @ + 1]
  BY DEF Start
<1>2. loc[t].m = Nil BY <1>1 DEF IInv, LocalMap, HoldPcs, SolePcs
<1>3. ops' \in [user : Nat, restart : Nat] BY <1>1 DEF IInv, TypeOK
<1>4. FileOf[t] \in Files BY MapsAssumption DEF MapsAssumption
<1> QED BY <1>1, <1>2, <1>3, <1>4

\* A thread that is in an operation works for an open file.
LEMMA Running ==
  ASSUME IInv, NEW t \in Threads, pc[t] # "idle"
  PROVE  FileOf[t] \in open /\ FileOf[t] \in Files /\ loc[t] \in Loc
BY MapsAssumption DEF IInv, Active, MapsAssumption, TypeOK

\* What a step does to the buffers: those in S are looked at one by one.
LEMMA BufStep ==
  ASSUME IInv, NEW t \in Threads, Step(t), NEW S \in SUBSET Bufs,
         \A x \in Bufs \ S : \/ buf'[x] = NoBuf
                             \/ buf'[x] = buf[x] /\ (InContext(t, x) => InContext(t, x)'),
         "lostinit" \notin hist' => \A x \in S : Placed(x)',
         "lostinit" \notin hist' => \A g \in Files : initMem[g] = Nil \/ initMem'[g] = initMem[g]
  PROVE  BufOwned'
<1> SUFFICES ASSUME "lostinit" \notin hist', NEW x \in Bufs \ S PROVE Placed(x)'
  BY DEF BufOwned
<1>1. Placed(x) BY DEF IInv, BufOwned, Step
<1>2. CASE buf'[x] = NoBuf BY <1>2 DEF Placed, NoBuf
<1>3. CASE buf'[x] = buf[x] /\ (InContext(t, x) => InContext(t, x)')
  <2>1. buf[x].fl \in Files \cup {Nil} BY DEF IInv, TypeOK, BufRec
  <2>2. x # Nil BY MapsAssumption DEF MapsAssumption
  <2>3. \A u \in Threads : InContext(u, x) => InContext(u, x)'
    BY <1>3 DEF InContext, Step, OnlyThread
  <2>4. buf[x].fl # Nil /\ initMem[buf[x].fl] = x => initMem'[buf[x].fl] = x
    BY <2>1, <2>2
  <2> QED BY <1>1, <1>3, <2>3, <2>4 DEF Placed, Step
<1> QED BY <1>2, <1>3

\* No buffer changes.
LEMMA BufQuiet ==
  ASSUME IInv, NEW t \in Threads, Step(t), buf' = buf, initMem' = initMem,
         \/ pc[t] \notin {"cbuf", "dsp", "put", "fdlist", "ctxfree"}
         \/ /\ pc[t] \in {"dsp", "put", "fdlist", "ctxfree"}
            /\ pc'[t] \in {"dsp", "put", "fdlist", "ctxfree"}
            /\ loc'[t].b = loc[t].b /\ loc'[t].lb = loc[t].lb
  PROVE  BufOwned'
<1>1. \A x \in Bufs : InContext(t, x) => InContext(t, x)'
  BY DEF InContext
<1> QED BY <1>1, BufStep, {} \in SUBSET Bufs

\* The parts of the invariant, put together.
LEMMA Kept ==
  ASSUME NEW t \in Threads, Step(t), Active', MapsInv', BufOwned'
  PROVE  IInv'
BY DEF IInv, Step, MapsInv

\* A call starts.
LEMMA KeepsInvoke == ASSUME IInv, NEW t \in Threads, Invoke(t) PROVE IInv'
<1>1. PICK fd \in Fds \cup {Nil}, hfd \in Fds \cup {Nil}, out \in BOOLEAN, keep \in BOOLEAN :
        /\ keep => fd # Nil
        /\ Start(t, "invoke", "bufs",
                 [NoLoc EXCEPT !.fd = fd, !.hfd = hfd, !.out = out, !.keep = keep])
        /\ UNCHANGED <<mmVars, sysVars, mapMutex, dsph, kept, hist>>
  BY DEF Invoke
<1> DEFINE r == [NoLoc EXCEPT !.fd = fd, !.hfd = hfd, !.out = out, !.keep = keep]
<1>2. r \in Loc /\ r.m = Nil /\ r.keep = keep /\ r.fd = fd
  BY DEF NoLoc, Loc
<1>3. Start(t, "invoke", "bufs", r) BY <1>1
<1> HIDE DEF r
<1>4. /\ pc[t] = "idle" /\ loc[t].m = Nil /\ FileOf[t] \in open /\ Goto(t, "bufs", r)
      /\ ops' \in [user : Nat, restart : Nat]
  BY <1>3, Started
<1>5. RestTyped' /\ map' = map /\ open' = open /\ hist' = hist /\ buf' = buf /\ initMem' = initMem
      /\ map' \in [Maps -> MapRec]
  BY <1>1, <1>4 DEF IInv, TypeOK, RestTyped, mmVars, sysVars
<1>6. LocalOK("bufs", r) /\ "bufs" \in PCs BY <1>1, <1>2 DEF LocalOK, PCs
<1>7. Step(t) /\ Active' /\ pc'[t] = "bufs" /\ loc'[t] = r
  BY <1>2, <1>4, <1>5, <1>6, Stepped
<1>8. MapsInv' BY <1>2, <1>4, <1>5, <1>7, StepQuiet DEF NoFault
<1>9. BufOwned' BY <1>4, <1>5, <1>7, BufQuiet
<1> QED BY <1>7, <1>8, <1>9, Kept

\* The first loop of get_args: the buffer is found, mapped, copied, or lost.
LEMMA KeepsMapBufs == ASSUME IInv, NEW t \in Threads, MapBufs(t) PROVE IInv'
<1>1. /\ pc[t] = "bufs" /\ ops' = ops
      /\ UNCHANGED <<buf, initMem, sysVars, mapMutex, dsph, kept>>
  BY DEF MapBufs, At
<1>2. FileOf[t] \in open /\ FileOf[t] \in Files /\ loc[t] \in Loc BY <1>1, Running
<1>3. loc[t].m = Nil /\ loc[t].fd \in Fds \cup {Nil} /\ loc[t].keep \in BOOLEAN
  BY <1>1, <1>2 DEF IInv, LocalMap, HoldPcs, SolePcs, Loc
<1>4. CASE loc[t].fd = Nil
  <2>1. Goto(t, "handles", loc[t]) /\ map' = map /\ hist' = hist
    BY <1>4 DEF MapBufs
  <2>2. RestTyped' /\ open' = open /\ buf' = buf /\ initMem' = initMem /\ map' \in [Maps -> MapRec]
    BY <1>1, <2>1 DEF IInv, TypeOK, RestTyped, sysVars
  <2>3. LocalOK("handles", loc[t]) /\ "handles" \in PCs BY <1>3 DEF LocalOK, PCs, IInv, LocalMap
  <2>4. Step(t) /\ Active' /\ pc'[t] = "handles" /\ loc'[t] = loc[t]
    BY <1>2, <2>1, <2>2, <2>3, Stepped
  <2>5. MapsInv' BY <1>3, <2>1, <2>4, StepQuiet DEF NoFault
  <2>6. BufOwned' BY <1>1, <2>2, <2>4, BufQuiet
  <2> QED BY <2>4, <2>5, <2>6, Kept
<1>5. CASE loc[t].fd # Nil
  <2>1. PICK o \in Create(FileOf[t], loc[t].fd, 1, "buf", loc[t].keep) :
          /\ map' = o.map /\ hist' = hist \cup o.lost
          /\ Goto(t, "handles", [loc[t] EXCEPT !.m = o.m])
    BY <1>5 DEF MapBufs
  <2> DEFINE r == [loc[t] EXCEPT !.m = o.m]
             f == FileOf[t]
  <2>2. /\ o.map \in [Maps -> MapRec]
        /\ \/ Found(o, f, loc[t].fd, 1, "buf")
           \/ Fresh(o, f, loc[t].fd, 1, "buf", loc[t].keep)
           \/ None(o)
           \/ loc[t].keep /\ \E m \in Maps : Lost(o, f, 1, "buf", m)
    BY <1>2, <1>3, Created DEF IInv, TypeOK, Kinds
  <2>3. o.m \in Maps \cup {Nil} /\ o.lost \in {{}, {"lostmap"}}
    BY <2>2 DEF Found, Fresh, None, Lost, Find
  <2>4. r \in Loc /\ r.m = o.m /\ r.keep = loc[t].keep /\ r.fd = loc[t].fd
    <3>1. loc[t] \in Loc BY <1>2
    <3>2. r \in Loc BY <2>3, <3>1, LocalTyped
    <3>3. r.m = o.m /\ r.keep = loc[t].keep /\ r.fd = loc[t].fd BY <3>1 DEF Loc
    <3> QED BY <3>2, <3>3
  <2>5. Goto(t, "handles", r) BY <2>1
  <2> HIDE DEF r
  <2>6. RestTyped' /\ open' = open /\ buf' = buf /\ initMem' = initMem /\ map' \in [Maps -> MapRec]
        /\ hist \subseteq hist'
    BY <1>1, <2>1, <2>2, <2>3 DEF IInv, TypeOK, RestTyped, sysVars, Faults
  <2>7. LocalOK("handles", r) /\ "handles" \in PCs BY <1>5, <2>4 DEF LocalOK, PCs, HoldPcs
  <2>8. Step(t) /\ Active' /\ pc'[t] = "handles" /\ loc'[t] = r
    BY <1>2, <2>4, <2>5, <2>6, <2>7, Stepped
  <2>9. MapsInv'
    <3>1. CASE Found(o, f, loc[t].fd, 1, "buf")
      <4>1. /\ o.m \in Maps /\ map[o.m].listed /\ map[o.m].kind \notin Heaps /\ map[o.m].fl = f
            /\ map[o.m].va = 1
        BY <3>1 DEF Found, Find, Heaps
      <4>2. /\ Others(map', o.m) /\ Same(map[o.m], map'[o.m]) /\ hist' = hist
            /\ Flags(map'[o.m], map[o.m].listed, map[o.m].raddr, map[o.m].prot)
            /\ Counts(map'[o.m], map[o.m].refs + 1, map[o.m].keep, map[o.m].hrefs, map[o.m].urefs)
        BY <2>1, <3>1 DEF Found
      <4>3. map[o.m].hrefs + 0 = map[o.m].hrefs /\ map[o.m].urefs + 0 = map[o.m].urefs
        BY <4>1 DEF IInv, TypeOK, MapRec
      <4>4. loc'[t].m = o.m /\ pc'[t] \in HoldPcs BY <2>4, <2>8 DEF HoldPcs
      <4> QED BY <1>3, <2>8, <4>1, <4>2, <4>3, <4>4, StepShared DEF NoFault
    <3>2. CASE Fresh(o, f, loc[t].fd, 1, "buf", loc[t].keep)
      <4>1. /\ o.m \in Maps /\ ~map[o.m].used /\ Others(map', o.m) /\ hist' = hist
            /\ Filled(map'[o.m], f, 1, "buf") /\ Flags(map'[o.m], TRUE, FALSE, FALSE)
            /\ Counts(map'[o.m], IF loc[t].keep THEN 2 ELSE 1, loc[t].keep, 0, 0)
        BY <2>1, <3>2 DEF Fresh
      <4>2. loc'[t].m = o.m /\ pc'[t] \in HoldPcs BY <2>4, <2>8 DEF HoldPcs
      <4> QED BY <1>3, <2>8, <4>1, <4>2, StepMade DEF NoFault, Kinds
    <3>3. CASE None(o)
      BY <1>3, <2>1, <2>4, <2>8, <3>3, StepQuiet DEF NoFault, None
    <3>4. ASSUME NEW m \in Maps, Lost(o, f, 1, "buf", m) PROVE MapsInv'
      <4>1. /\ ~map[m].used /\ Others(map', m) /\ hist' = hist \cup {"lostmap"}
            /\ Filled(map'[m], f, 1, "buf") /\ Flags(map'[m], FALSE, FALSE, FALSE)
            /\ Counts(map'[m], 1, FALSE, 0, 0) /\ loc'[t].m = Nil
        BY <2>1, <2>4, <2>8, <3>4 DEF Lost
      <4> QED BY <1>3, <2>8, <4>1, StepLost
    <3> QED BY <2>2, <3>1, <3>2, <3>3, <3>4
  <2>10. BufOwned' BY <1>1, <2>6, <2>8, BufQuiet
  <2> QED BY <2>8, <2>9, <2>10, Kept
<1> QED BY <1>4, <1>5

\* The second loop of get_args: a handle gets a reference.
LEMMA KeepsMapHandles == ASSUME IInv, NEW t \in Threads, MapHandles(t) PROVE IInv'
<1>1. /\ pc[t] = "handles" /\ ops' = ops /\ hist' = hist
      /\ UNCHANGED <<buf, initMem, sysVars, mapMutex, dsph, kept>>
  BY DEF MapHandles, At
<1>2. FileOf[t] \in open /\ FileOf[t] \in Files /\ loc[t] \in Loc BY <1>1, Running
<1>3. loc[t].hfd \in Fds \cup {Nil} /\ pc[t] \in HoldPcs
  BY <1>1, <1>2 DEF Loc, HoldPcs
<1>4. RestTyped' /\ open' = open /\ buf' = buf /\ initMem' = initMem
  BY <1>1 DEF IInv, TypeOK, RestTyped, sysVars
<1>5. \A l \in {"lbuf", "ctxfree"} : LocalOK(l, loc[t]) /\ l \in PCs /\ l \in HoldPcs
  BY DEF LocalOK, PCs, HoldPcs, IInv, LocalMap
<1>6. ASSUME NEW l \in {"lbuf", "ctxfree"}, Goto(t, l, loc[t]), map' \in [Maps -> MapRec]
      PROVE  Step(t) /\ Active' /\ pc'[t] = l /\ loc'[t] = loc[t] /\ BufOwned'
  <2>1. Step(t) /\ Active' /\ pc'[t] = l /\ loc'[t] = loc[t]
    BY <1>1, <1>2, <1>4, <1>5, <1>6, Stepped
  <2> QED BY <1>1, <1>4, <2>1, BufQuiet
<1>7. CASE map' = map /\ \E l \in {"lbuf", "ctxfree"} : Goto(t, l, loc[t])
  <2>1. PICK l \in {"lbuf", "ctxfree"} : Goto(t, l, loc[t]) BY <1>7
  <2>2. Step(t) /\ Active' /\ pc'[t] = l /\ loc'[t] = loc[t] /\ BufOwned'
    BY <1>6, <1>7, <2>1 DEF IInv, TypeOK
  <2>3. MapsInv' BY <1>1, <1>3, <1>5, <1>7, <2>2, StepQuiet DEF NoFault
  <2> QED BY <2>2, <2>3, Kept
<1>8. CASE /\ loc[t].hfd # Nil
           /\ \E o \in Create(FileOf[t], loc[t].hfd, 0, "buf", FALSE) :
                /\ o.m # Nil /\ map' = [o.map EXCEPT ![o.m].hrefs = @ + 1]
                /\ Goto(t, "lbuf", loc[t])
  <2>1. PICK o \in Create(FileOf[t], loc[t].hfd, 0, "buf", FALSE) :
          /\ o.m # Nil /\ map' = [o.map EXCEPT ![o.m].hrefs = @ + 1]
          /\ Goto(t, "lbuf", loc[t])
    BY <1>8
  <2> DEFINE f == FileOf[t]
             s == [o.map[o.m] EXCEPT !.hrefs = o.map[o.m].hrefs + 1]
  <2>2. /\ o.map \in [Maps -> MapRec]
        /\ Found(o, f, loc[t].hfd, 0, "buf") \/ Fresh(o, f, loc[t].hfd, 0, "buf", FALSE)
    BY <1>2, <1>3, <2>1, Created DEF IInv, TypeOK, Kinds, None, Lost
  <2>3. o.m \in Maps /\ Others(o.map, o.m) BY <2>2 DEF Found, Fresh, Find
  <2>4. o.map[o.m] \in MapRec /\ o.map[o.m].hrefs + 1 \in Nat BY <2>2, <2>3 DEF MapRec
  <2>5. /\ s \in MapRec /\ Same(o.map[o.m], s)
        /\ Flags(s, o.map[o.m].listed, o.map[o.m].raddr, o.map[o.m].prot)
        /\ Counts(s, o.map[o.m].refs, o.map[o.m].keep, o.map[o.m].hrefs + 1, o.map[o.m].urefs)
    BY <2>4, FieldAssigned
  <2>6. map' = [o.map EXCEPT ![o.m] = s] BY <2>1
  <2> HIDE DEF s
  <2>7. map' \in [Maps -> MapRec] /\ map'[o.m] = s /\ Others(map', o.m)
    BY <2>2, <2>3, <2>5, <2>6, MapAssigned DEF Others
  <2>8. Step(t) /\ Active' /\ pc'[t] = "lbuf" /\ loc'[t] = loc[t] /\ BufOwned' /\ pc'[t] \in HoldPcs
    BY <1>5, <1>6, <2>1, <2>7
  <2>9. MapsInv'
    <3>1. CASE Found(o, f, loc[t].hfd, 0, "buf")
      <4>1. /\ map[o.m].listed /\ map[o.m].kind \notin Heaps /\ map[o.m].fl = f /\ map[o.m].va = 0
            /\ map[o.m].urefs + 0 = map[o.m].urefs
        BY <2>3, <3>1 DEF Found, Find, Heaps, IInv, TypeOK, MapRec
      <4>2. /\ Same(map[o.m], map'[o.m])
            /\ Flags(map'[o.m], map[o.m].listed, map[o.m].raddr, map[o.m].prot)
            /\ Counts(map'[o.m], map[o.m].refs + 1, map[o.m].keep, map[o.m].hrefs + 1,
                      map[o.m].urefs)
        BY <2>5, <2>7, <3>1 DEF Found, Same, Flags, Counts
      <4> QED BY <1>1, <1>3, <2>3, <2>7, <2>8, <4>1, <4>2, StepShared DEF NoFault
    <3>2. CASE Fresh(o, f, loc[t].hfd, 0, "buf", FALSE)
      <4>1. /\ ~map[o.m].used /\ Filled(map'[o.m], f, 0, "buf")
            /\ Flags(map'[o.m], TRUE, FALSE, FALSE)
        BY <2>5, <2>7, <3>2, Zenon DEF Fresh, Filled, Same, Flags
      <4>2. Counts(o.map[o.m], 1, FALSE, 0, 0) BY <3>2 DEF Fresh
      <4>3. Counts(map'[o.m], IF FALSE THEN 2 ELSE 1, FALSE, 1, 0)
        BY <2>5, <2>7, <4>2 DEF Counts
      <4> QED BY <1>1, <1>3, <2>3, <2>7, <2>8, <4>1, <4>3, StepMade DEF NoFault, Kinds
    <3> QED BY <2>2, <3>1, <3>2
  <2> QED BY <2>8, <2>9, Kept
<1>9. ASSUME loc[t].hfd # Nil, NEW o \in Create(FileOf[t], loc[t].hfd, 0, "buf", FALSE), o.m = Nil
      PROVE  o.map = map
  <2>1. /\ Nil \notin Maps
        /\ \/ Found(o, FileOf[t], loc[t].hfd, 0, "buf")
           \/ Fresh(o, FileOf[t], loc[t].hfd, 0, "buf", FALSE)
           \/ None(o)
    BY <1>2, <1>3, Created, MapsAssumption DEF IInv, TypeOK, Kinds, MapsAssumption
  <2> QED BY <1>9, <2>1 DEF Found, Fresh, None, Find
<1>10. \/ map' = map /\ \E l \in {"lbuf", "ctxfree"} : Goto(t, l, loc[t])
       \/ /\ loc[t].hfd # Nil
          /\ \E o \in Create(FileOf[t], loc[t].hfd, 0, "buf", FALSE) :
               /\ o.m # Nil /\ map' = [o.map EXCEPT ![o.m].hrefs = @ + 1]
               /\ Goto(t, "lbuf", loc[t])
  BY <1>9 DEF MapHandles
<1> QED BY <1>7, <1>8, <1>10

\* A call gets a buffer for its context, or none.
LEMMA ContextBuf ==
  ASSUME IInv, NEW t \in Threads, Step(t), initMem' = initMem,
         NEW o, Allocated(o, FileOf[t], "ctx"), buf' = o.buf,
         \/ pc[t] = "lbuf" /\ (o.b # Nil => InContext(t, o.b)')
         \/ /\ pc[t] = "cbuf" /\ (o.b # Nil => InContext(t, o.b)')
            /\ \A x \in Bufs : InContext(t, x) => InContext(t, x)'
  PROVE  BufOwned'
<1> DEFINE S == {o.b} \ {Nil}
<1>1. S \in SUBSET Bufs BY DEF Allocated
<1>2. \A x \in Bufs : pc[t] = "lbuf" => ~InContext(t, x) BY DEF InContext
<1>3. \A x \in Bufs \ S : buf'[x] = NoBuf \/ (buf'[x] = buf[x] /\ (InContext(t, x) => InContext(t, x)'))
  <2> TAKE x \in Bufs \ S
  <2>1. x # o.b BY MapsAssumption DEF MapsAssumption
  <2> QED BY <1>2, <2>1 DEF Allocated
<1>4. \A x \in S : Placed(x)'
  BY DEF Placed, Allocated, Step
<1> QED BY <1>1, <1>3, <1>4, BufStep

\* The context gets its two buffers.
LEMMA KeepsAllocArgs == ASSUME IInv, NEW t \in Threads, AllocArgs(t) PROVE IInv'
<1>1. /\ pc[t] \in {"lbuf", "cbuf"} /\ ops' = ops /\ hist' = hist /\ map' = map /\ initMem' = initMem
      /\ open' = open /\ UNCHANGED <<sysVars, mapMutex, dsph, kept>>
  BY DEF AllocArgs, At, sysVars
<1>2. FileOf[t] \in open /\ FileOf[t] \in Files /\ loc[t] \in Loc BY <1>1, Running
<1>3. pc[t] \in HoldPcs BY <1>1 DEF HoldPcs
<1>4. ASSUME NEW l \in {"ctxfree", "cbuf", "dsp"}, NEW r \in Loc, Goto(t, l, r), r.m = loc[t].m,
             r.keep = loc[t].keep, r.fd = loc[t].fd,
             buf' \in [Bufs -> BufRec]
      PROVE  Step(t) /\ Active' /\ pc'[t] = l /\ loc'[t] = r /\ MapsInv'
  <2>1. RestTyped' /\ map' \in [Maps -> MapRec]
    BY <1>1, <1>4 DEF IInv, TypeOK, RestTyped, sysVars
  <2>2. LocalOK(l, r) /\ l \in PCs /\ l \in HoldPcs
    BY <1>4 DEF LocalOK, PCs, HoldPcs, IInv, LocalMap
  <2>3. Step(t) /\ Active' /\ pc'[t] = l /\ loc'[t] = r
    BY <1>1, <1>2, <1>4, <2>1, <2>2, Stepped
  <2>4. MapsInv' BY <1>1, <1>3, <1>4, <2>2, <2>3, StepQuiet DEF NoFault
  <2> QED BY <2>3, <2>4
<1>5. CASE /\ pc[t] = "lbuf"
           /\ \E o \in BufAlloc(FileOf[t], 1, "ctx") :
                /\ buf' = o.buf
                /\ Goto(t, IF o.b = Nil THEN "ctxfree" ELSE "cbuf", [loc[t] EXCEPT !.lb = o.b])
  <2> PICK o \in BufAlloc(FileOf[t], 1, "ctx") :
             /\ buf' = o.buf
             /\ Goto(t, IF o.b = Nil THEN "ctxfree" ELSE "cbuf", [loc[t] EXCEPT !.lb = o.b])
    BY <1>5
  <2> DEFINE l == IF o.b = Nil THEN "ctxfree" ELSE "cbuf"
             r == [loc[t] EXCEPT !.lb = o.b]
  <2>1. o.buf \in [Bufs -> BufRec] /\ Allocated(o, FileOf[t], "ctx")
    BY <1>2, BufAllocated DEF IInv, TypeOK, Places
  <2>2. o.b \in Bufs \cup {Nil} BY <2>1 DEF Allocated
  <2>3. r \in Loc /\ r.lb = o.b /\ r.m = loc[t].m /\ r.keep = loc[t].keep /\ r.fd = loc[t].fd
    <3>1. loc[t] \in Loc BY <1>2
    <3>2. r \in Loc BY <2>2, <3>1, LocalTyped
    <3>3. r.lb = o.b /\ r.m = loc[t].m /\ r.keep = loc[t].keep /\ r.fd = loc[t].fd
      BY <3>1 DEF Loc
    <3> QED BY <3>2, <3>3
  <2>4. Goto(t, l, r) /\ l \in {"ctxfree", "cbuf"} /\ (o.b # Nil => l = "cbuf") OBVIOUS
  <2> HIDE DEF l, r
  <2>5. Step(t) /\ Active' /\ pc'[t] = l /\ loc'[t] = r /\ MapsInv'
    BY <1>4, <2>1, <2>3, <2>4
  <2>6. o.b # Nil => InContext(t, o.b)' BY <2>3, <2>4, <2>5 DEF InContext
  <2>7. BufOwned' BY <1>1, <1>5, <2>1, <2>5, <2>6, ContextBuf
  <2> QED BY <2>5, <2>7, Kept
<1>6. CASE pc[t] = "lbuf" /\ Goto(t, "dsp", loc[t]) /\ buf' = buf
  <2>1. Step(t) /\ Active' /\ MapsInv'
    BY <1>2, <1>4, <1>6 DEF IInv, TypeOK
  <2>2. BufOwned' BY <1>1, <1>6, <2>1, BufQuiet
  <2> QED BY <2>1, <2>2, Kept
<1>7. CASE /\ pc[t] = "cbuf"
           /\ \E size \in {1, 2} : \E o \in BufAlloc(FileOf[t], size, "ctx") :
                /\ buf' = o.buf
                /\ Goto(t, IF o.b = Nil THEN "ctxfree" ELSE "dsp", [loc[t] EXCEPT !.b = o.b])
  <2> PICK size \in {1, 2} : \E o \in BufAlloc(FileOf[t], size, "ctx") :
             /\ buf' = o.buf
             /\ Goto(t, IF o.b = Nil THEN "ctxfree" ELSE "dsp", [loc[t] EXCEPT !.b = o.b])
    BY <1>7
  <2> PICK o \in BufAlloc(FileOf[t], size, "ctx") :
             /\ buf' = o.buf
             /\ Goto(t, IF o.b = Nil THEN "ctxfree" ELSE "dsp", [loc[t] EXCEPT !.b = o.b])
    OBVIOUS
  <2> DEFINE l == IF o.b = Nil THEN "ctxfree" ELSE "dsp"
             r == [loc[t] EXCEPT !.b = o.b]
  <2>1. o.buf \in [Bufs -> BufRec] /\ Allocated(o, FileOf[t], "ctx")
    BY <1>2, BufAllocated DEF IInv, TypeOK, Places
  <2>2. o.b \in Bufs \cup {Nil} BY <2>1 DEF Allocated
  <2>3. /\ r \in Loc /\ r.b = o.b /\ r.m = loc[t].m /\ r.lb = loc[t].lb
        /\ r.keep = loc[t].keep /\ r.fd = loc[t].fd
    <3>1. r \in Loc BY <1>2, <2>2, LocalTyped
    <3> QED BY <1>2, <3>1 DEF Loc
  <2>4. Goto(t, l, r) /\ l \in {"ctxfree", "dsp"} OBVIOUS
  <2> HIDE DEF l, r
  <2>5. Step(t) /\ Active' /\ pc'[t] = l /\ loc'[t] = r /\ MapsInv'
    BY <1>4, <2>1, <2>3, <2>4
  <2>6. /\ o.b # Nil => InContext(t, o.b)'
        /\ \A x \in Bufs : InContext(t, x) => InContext(t, x)'
    BY <1>7, <2>3, <2>4, <2>5 DEF InContext
  <2>7. BufOwned' BY <1>1, <1>7, <2>1, <2>5, <2>6, ContextBuf
  <2> QED BY <2>5, <2>7, Kept
<1> QED BY <1>5, <1>6, <1>7 DEF AllocArgs, At

\* The call fails before the DSP has seen it.
LEMMA KeepsCallFails == ASSUME IInv, NEW t \in Threads, CallFails(t) PROVE IInv'
<1>1. /\ pc[t] = "dsp" /\ Goto(t, "ctxfree", loc[t])
      /\ UNCHANGED <<ops, mmVars, sysVars, mapMutex, dsph, kept, hist>>
  BY DEF CallFails, At
<1>2. FileOf[t] \in open /\ loc[t] \in Loc BY <1>1, Running
<1>3. RestTyped' /\ map' = map /\ open' = open /\ hist' = hist /\ buf' = buf /\ initMem' = initMem
      /\ map' \in [Maps -> MapRec]
  BY <1>1 DEF IInv, TypeOK, RestTyped, mmVars, sysVars
<1>4. LocalOK("ctxfree", loc[t]) /\ "ctxfree" \in PCs /\ "ctxfree" \in HoldPcs /\ pc[t] \in HoldPcs
  BY <1>1 DEF LocalOK, PCs, HoldPcs, IInv, LocalMap
<1>5. Step(t) /\ Active' /\ pc'[t] = "ctxfree" /\ loc'[t] = loc[t]
  BY <1>1, <1>2, <1>3, <1>4, Stepped
<1>6. MapsInv' BY <1>3, <1>4, <1>5, StepQuiet DEF NoFault
<1>7. BufOwned' BY <1>1, <1>3, <1>5, BufQuiet
<1> QED BY <1>5, <1>6, <1>7, Kept

\* The DSP runs the call.
LEMMA KeepsDspRuns == ASSUME IInv, NEW t \in Threads, DspRuns(t) PROVE IInv'
<1> DEFINE f == FileOf[t]
           got == IF loc[t].hfd = Nil THEN dsph ELSE [dsph EXCEPT ![<<f, loc[t].hfd>>] = @ + 1]
           after(rel) == [x \in Files \X Fds |->
                            IF x[1] = f /\ x[2] \in rel THEN got[x] - 1 ELSE got[x]]
<1>1. /\ pc[t] = "dsp" /\ UNCHANGED <<ops, mmVars, sysVars, mapMutex, kept, hist>>
      /\ \/ dsph' = got /\ Goto(t, "ctxfree", loc[t])
         \/ \E rel \in SUBSET {fd \in Fds : got[<<f, fd>>] > 0} :
              dsph' = after(rel) /\ Goto(t, "put", [loc[t] EXCEPT !.rel = rel])
  BY DEF DspRuns, At
<1>2. FileOf[t] \in open /\ loc[t] \in Loc BY <1>1, Running
<1>3. dsph \in [Files \X Fds -> Nat] BY DEF IInv, TypeOK
<1>4. got \in [Files \X Fds -> Nat]
  <2>1. loc[t].hfd # Nil => <<f, loc[t].hfd>> \in Files \X Fds
    BY <1>1, <1>2, Running DEF Loc
  <2>2. ASSUME NEW x \in Files \X Fds PROVE [dsph EXCEPT ![x] = @ + 1] \in [Files \X Fds -> Nat]
    BY <1>3
  <2> QED BY <1>3, <2>1, <2>2
<1> HIDE DEF got
<1>5. ASSUME NEW l \in {"ctxfree", "put"}, NEW r \in Loc, Goto(t, l, r), r.m = loc[t].m,
             r.b = loc[t].b, r.lb = loc[t].lb, r.keep = loc[t].keep, r.fd = loc[t].fd,
             dsph' \in [Files \X Fds -> Nat]
      PROVE  IInv'
  <2>1. RestTyped' /\ map' = map /\ open' = open /\ hist' = hist /\ buf' = buf /\ initMem' = initMem
        /\ map' \in [Maps -> MapRec]
    BY <1>1, <1>5 DEF IInv, TypeOK, RestTyped, mmVars, sysVars
  <2>2. LocalOK(l, r) /\ l \in PCs /\ l \in HoldPcs /\ pc[t] \in HoldPcs
    BY <1>1, <1>5 DEF LocalOK, PCs, HoldPcs, IInv, LocalMap
  <2>3. Step(t) /\ Active' /\ pc'[t] = l /\ loc'[t] = r
    BY <1>2, <1>5, <2>1, <2>2, Stepped
  <2>4. MapsInv' BY <1>5, <2>1, <2>2, <2>3, StepQuiet DEF NoFault
  <2>5. BufOwned' BY <1>1, <1>5, <2>1, <2>3, BufQuiet
  <2> QED BY <2>3, <2>4, <2>5, Kept
<1>6. CASE dsph' = got /\ Goto(t, "ctxfree", loc[t])
  BY <1>2, <1>4, <1>5, <1>6
<1>7. ASSUME NEW rel \in SUBSET {fd \in Fds : got[<<f, fd>>] > 0}, dsph' = after(rel),
             Goto(t, "put", [loc[t] EXCEPT !.rel = rel])
      PROVE  IInv'
  <2> DEFINE r == [loc[t] EXCEPT !.rel = rel]
  <2>1. /\ r \in Loc /\ r.m = loc[t].m /\ r.b = loc[t].b /\ r.lb = loc[t].lb
        /\ r.keep = loc[t].keep /\ r.fd = loc[t].fd
    <3>1. r \in Loc BY <1>2, LocalTyped
    <3> QED BY <1>2, <3>1 DEF Loc
  <2>2. \A x \in Files \X Fds : (IF x[1] = f /\ x[2] \in rel THEN got[x] - 1 ELSE got[x]) \in Nat
    <3> SUFFICES ASSUME NEW g \in Files, NEW fd \in Fds, g = f, fd \in rel PROVE got[<<g, fd>>] - 1 \in Nat
      BY <1>4
    <3> QED BY <1>4
  <2>3. dsph' \in [Files \X Fds -> Nat] BY <1>7, <2>2
  <2> HIDE DEF r
  <2> QED BY <1>5, <1>7, <2>1, <2>3 DEF r
<1> QED BY <1>1, <1>6, <1>7

\* The types of a free, and its effect where a thread gives up what it holds.
LEMMA DropTyped ==
  ASSUME IInv, NEW m \in Maps \cup {Nil}
  PROVE  /\ DropFaults(m) \subseteq {"uaf", "heaplost"}
         /\ (IF m = Nil THEN map ELSE Drop(map, m)) \in [Maps -> MapRec]
<1>1. DropFaults(m) \subseteq {"uaf", "heaplost"} BY DEF DropFaults
<1>2. m # Nil => Drop(map, m) \in [Maps -> MapRec] BY Dropped DEF IInv, TypeOK
<1>3. map \in [Maps -> MapRec] BY DEF IInv, TypeOK
<1> QED BY <1>1, <1>2, <1>3

\* A call or an INIT that has a mapping, or none, is done with it.
LEMMA StepGivesUp ==
  ASSUME IInv, NEW t \in Threads, Step(t), pc[t] \in HoldPcs, loc'[t].m = Nil,
         map' = IF loc[t].m = Nil THEN map ELSE Drop(map, loc[t].m),
         hist' = hist \cup DropFaults(loc[t].m)
  PROVE  MapsInv'
<1>1. CASE loc[t].m = Nil
  <2>1. hist' = hist BY <1>1 DEF DropFaults
  <2> QED BY <1>1, <2>1, StepQuiet DEF NoFault
<1>2. CASE loc[t].m # Nil
  <2>1. loc[t].m \in Maps BY <1>2 DEF IInv, TypeOK, Loc
  <2>2. Holds(t, loc[t].m) BY DEF Holds
  <2> QED BY <1>2, <2>1, <2>2, StepHeldDropped
<1> QED BY <1>1, <1>2

\* put_args drops the mapping of an output buffer.
LEMMA KeepsPutOutBufs == ASSUME IInv, NEW t \in Threads, PutOutBufs(t) PROVE IInv'
<1>1. /\ pc[t] = "put" /\ UNCHANGED <<ops, buf, initMem, sysVars, mapMutex, dsph, kept>>
  BY DEF PutOutBufs, At
<1>2. FileOf[t] \in open /\ loc[t] \in Loc BY <1>1, Running
<1>3. loc[t].m \in Maps \cup {Nil} /\ pc[t] \in HoldPcs BY <1>1, <1>2 DEF Loc, HoldPcs
<1>4. ASSUME NEW l \in {"fdlist", "ctxfree"}, NEW r \in Loc, Goto(t, l, r), r.b = loc[t].b,
             r.lb = loc[t].lb, r.keep = loc[t].keep, r.fd = loc[t].fd,
             map' \in [Maps -> MapRec], hist \subseteq hist', hist' \subseteq Faults
      PROVE  Step(t) /\ Active' /\ pc'[t] = l /\ loc'[t] = r /\ BufOwned' /\ l \in HoldPcs
  <2>1. RestTyped' /\ open' = open /\ buf' = buf /\ initMem' = initMem
    BY <1>1, <1>4 DEF IInv, TypeOK, RestTyped, sysVars
  <2>2. LocalOK(l, r) /\ l \in PCs /\ l \in HoldPcs
    BY <1>4 DEF LocalOK, PCs, HoldPcs, IInv, LocalMap
  <2>3. Step(t) /\ Active' /\ pc'[t] = l /\ loc'[t] = r
    BY <1>2, <1>4, <2>1, <2>2, Stepped
  <2>4. BufOwned' BY <1>1, <1>4, <2>1, <2>3, BufQuiet
  <2> QED BY <2>2, <2>3, <2>4
<1>5. hist \subseteq Faults /\ map \in [Maps -> MapRec] BY DEF IInv, TypeOK
<1>6. CASE /\ loc[t].m # Nil /\ map' = Drop(map, loc[t].m)
           /\ hist' = hist \cup DropFaults(loc[t].m)
           /\ Goto(t, "fdlist", [loc[t] EXCEPT !.m = Nil, !.found = TRUE])
  <2> DEFINE r == [loc[t] EXCEPT !.m = Nil, !.found = TRUE]
  <2>1. /\ r \in Loc /\ r.m = Nil /\ r.b = loc[t].b /\ r.lb = loc[t].lb
        /\ r.keep = loc[t].keep /\ r.fd = loc[t].fd
    BY <1>2 DEF Loc
  <2>2. Goto(t, "fdlist", r) BY <1>6
  <2> HIDE DEF r
  <2>3. map' \in [Maps -> MapRec] /\ hist' \subseteq Faults /\ hist \subseteq hist'
    BY <1>3, <1>5, <1>6, DropTyped DEF Faults
  <2>4. Step(t) /\ Active' /\ loc'[t] = r /\ BufOwned' BY <1>4, <2>1, <2>2, <2>3
  <2>5. MapsInv' BY <1>3, <1>6, <2>1, <2>4, StepGivesUp
  <2> QED BY <2>4, <2>5, Kept
<1>7. ASSUME map' = map, hist' = hist, NEW l \in {"fdlist", "ctxfree"}, NEW r \in Loc, Goto(t, l, r),
             r.m = loc[t].m, r.b = loc[t].b, r.lb = loc[t].lb, r.keep = loc[t].keep, r.fd = loc[t].fd
      PROVE  IInv'
  <2>1. Step(t) /\ Active' /\ pc'[t] = l /\ loc'[t] = r /\ BufOwned' /\ l \in HoldPcs
    BY <1>4, <1>5, <1>7
  <2>2. MapsInv' BY <1>3, <1>7, <2>1, StepQuiet DEF NoFault
  <2> QED BY <2>1, <2>2, Kept
<1>8. CASE /\ Goto(t, "fdlist", [loc[t] EXCEPT !.found = loc[t].m # Nil])
           /\ map' = map /\ hist' = hist
  <2> DEFINE x == loc[t].m # Nil
             r == [loc[t] EXCEPT !.found = x]
  <2>1. x \in BOOLEAN OBVIOUS
  <2>2. Goto(t, "fdlist", r) BY <1>8
  <2> HIDE DEF x
  <2>3. /\ r \in Loc /\ r.m = loc[t].m /\ r.b = loc[t].b /\ r.lb = loc[t].lb
        /\ r.keep = loc[t].keep /\ r.fd = loc[t].fd
    BY <1>2, <2>1 DEF Loc
  <2> HIDE DEF r
  <2> QED BY <1>7, <1>8, <2>2, <2>3
<1>9. CASE Goto(t, "ctxfree", loc[t]) /\ map' = map /\ hist' = hist
  BY <1>2, <1>7, <1>9
<1> QED BY <1>6, <1>8, <1>9 DEF PutOutBufs

\* put_args drops the handles the DSP needs no longer.
LEMMA KeepsPutFdlist == ASSUME IInv, NEW t \in Threads, PutFdlist(t) PROVE IInv'
<1> DEFINE f == FileOf[t]
           hit == {m \in Maps : \E fd \in loc[t].rel : m \in Find(f, fd, 0, "buf")}
           rec(m) == [Drop(map, m)[m] EXCEPT !.hrefs = IF @ = 0 THEN 0 ELSE @ - 1]
<1>1. /\ pc[t] = "fdlist" /\ Goto(t, "ctxfree", loc[t])
      /\ UNCHANGED <<ops, buf, initMem, sysVars, mapMutex, dsph>>
      /\ map' = [m \in Maps |-> IF m \notin hit THEN map[m] ELSE rec(m)]
      /\ hist' = hist \cup (UNION {DropFaults(m) : m \in hit})
      /\ kept' = IF loc[t].keep /\ loc[t].found THEN kept \cup {<<f, loc[t].fd>>} ELSE kept
  BY DEF PutFdlist, At
<1>2. f \in open /\ f \in Files /\ loc[t] \in Loc BY <1>1, Running
<1>3. \A m \in hit : map[m].listed /\ map[m].kind \notin Heaps /\ map[m].va = 0 /\ m \in Maps /\ m # Nil
  BY MapsAssumption DEF Find, Heaps, MapsAssumption
<1>4. hit \in SUBSET Maps OBVIOUS
<1> HIDE DEF hit
<1>5. ASSUME NEW m \in hit
      PROVE  /\ rec(m) \in MapRec
             /\ IF map[m].refs > 1
                THEN /\ Same(map[m], rec(m))
                     /\ Flags(rec(m), map[m].listed, map[m].raddr, map[m].prot)
                     /\ Counts(rec(m), map[m].refs - 1, map[m].keep,
                               IF map[m].hrefs = 0 THEN 0 ELSE map[m].hrefs - 1, map[m].urefs)
                ELSE rec(m) = NoMap
  <2> DEFINE d == Drop(map, m)[m]
             n == IF d.hrefs = 0 THEN 0 ELSE d.hrefs - 1
  <2>1. /\ d \in MapRec
        /\ IF map[m].refs > 1
           THEN /\ Same(map[m], d)
                /\ Flags(d, map[m].listed, map[m].raddr, map[m].prot)
                /\ Counts(d, map[m].refs - 1, map[m].keep, map[m].hrefs, map[m].urefs)
           ELSE d = NoMap
    BY <1>3, <1>5, Dropped DEF IInv, TypeOK
  <2>2. rec(m) = [d EXCEPT !.hrefs = n] OBVIOUS
  <2> HIDE DEF d
  <2>3. n \in Nat BY <2>1 DEF MapRec
  <2> HIDE DEF rec, n
  <2>4. /\ rec(m) \in MapRec /\ Same(d, rec(m)) /\ Flags(rec(m), d.listed, d.raddr, d.prot)
        /\ Counts(rec(m), d.refs, d.keep, n, d.urefs)
    BY <2>1, <2>2, <2>3, FieldAssigned
  <2>5. CASE map[m].refs > 1
    BY <2>1, <2>4, <2>5 DEF n, Same, Flags, Counts
  <2>6. CASE ~(map[m].refs > 1)
    <3>1. d = NoMap BY <2>1, <2>6
    <3>3. n = 0 BY <3>1 DEF n, NoMap
    <3>2. [NoMap EXCEPT !.hrefs = 0] = NoMap
      <4>1. \A r \in MapRec : r.hrefs = 0 => [r EXCEPT !.hrefs = 0] = r BY DEF MapRec
      <4>2. NoMap.hrefs = 0 BY DEF NoMap
      <4> QED BY <4>1, <4>2, FreshTyped
    <3> QED BY <2>2, <2>4, <2>6, <3>1, <3>2, <3>3
  <2> QED BY <2>5, <2>6
<1>6. map' \in [Maps -> MapRec] /\ (\A m \in Maps \ hit : map'[m] = map[m])
      /\ \A m \in hit : map'[m] = rec(m)
  <2> HIDE DEF rec
  <2> QED BY <1>1, <1>4, <1>5 DEF IInv, TypeOK
<1> HIDE DEF rec
<1>7. \A m \in hit : /\ "uaf" \in DropFaults(m) => ~map[m].used
                     /\ "heaplost" \in DropFaults(m) => map[m].prot
                     /\ DropFaults(m) \subseteq {"uaf", "heaplost"}
  BY <1>3 DEF DropFaults
<1>8. /\ hist \subseteq hist' /\ hist' \subseteq hist \cup {"uaf", "heaplost"}
      /\ "uaf" \in hist' => "uaf" \in hist \/ \E m \in hit : ~map[m].used
      /\ "heaplost" \in hist' => "heaplost" \in hist \/ \E m \in hit : map[m].prot
  <2>1. \A x \in hist' : x \in hist \/ \E m \in hit : x \in DropFaults(m) BY <1>1
  <2>2. hist \subseteq hist' BY <1>1
  <2> QED BY <1>7, <2>1, <2>2
<1>9. kept' \subseteq Files \X Fds
  <2>1. loc[t].keep => <<f, loc[t].fd>> \in Files \X Fds
    BY <1>2 DEF IInv, LocalMap, Loc
  <2>2. kept \subseteq Files \X Fds BY DEF IInv, TypeOK
  <2> QED BY <1>1, <2>1, <2>2
<1>10. hist' \subseteq Faults BY <1>8 DEF IInv, TypeOK, Faults
<1>11. RestTyped' /\ open' = open /\ buf' = buf /\ initMem' = initMem
  BY <1>1, <1>9, <1>10 DEF IInv, TypeOK, RestTyped, sysVars
<1>12. LocalOK("ctxfree", loc[t]) /\ "ctxfree" \in PCs /\ "ctxfree" \in HoldPcs /\ pc[t] \in HoldPcs
  BY <1>1 DEF LocalOK, PCs, HoldPcs, IInv, LocalMap
<1>13. Step(t) /\ Active' /\ pc'[t] = "ctxfree" /\ loc'[t] = loc[t]
  BY <1>1, <1>2, <1>6, <1>8, <1>11, <1>12, Stepped
<1>14. MapsInv'
  <2>1. \A m \in hit : /\ map[m].listed /\ map[m].kind \notin Heaps /\ map[m].va = 0
                       /\ IF map[m].refs > 1
                          THEN /\ Same(map[m], map'[m])
                               /\ Flags(map'[m], map[m].listed, map[m].raddr, map[m].prot)
                               /\ Counts(map'[m], map[m].refs - 1, map[m].keep,
                                         IF map[m].hrefs = 0 THEN 0 ELSE map[m].hrefs - 1,
                                         map[m].urefs)
                          ELSE map'[m] = NoMap
    BY <1>3, <1>5, <1>6
  <2>2. loc'[t].m = loc[t].m /\ pc'[t] \in HoldPcs BY <1>12, <1>13
  <2> QED BY <1>4, <1>6, <1>8, <1>12, <1>13, <2>1, <2>2, StepFdlist
<1>15. BufOwned' BY <1>1, <1>11, <1>13, BufQuiet
<1> QED BY <1>13, <1>14, <1>15, Kept

\* context_free drops the mapping and caches the buffers.
LEMMA KeepsContextFree == ASSUME IInv, NEW t \in Threads, ContextFree(t) PROVE IInv'
<1> DEFINE S == {loc[t].b, loc[t].lb} \ {Nil}
<1>1. /\ pc[t] = "ctxfree" /\ Goto(t, "idle", NoLoc)
      /\ UNCHANGED <<ops, initMem, sysVars, mapMutex, dsph, kept>>
      /\ map' = IF loc[t].m = Nil THEN map ELSE Drop(map, loc[t].m)
      /\ hist' = hist \cup DropFaults(loc[t].m)
      /\ buf' = [b \in Bufs |-> IF b \in S THEN [buf[b] EXCEPT !.at = "cached"] ELSE buf[b]]
  BY DEF ContextFree, At, Done, BufCache
<1>2. FileOf[t] \in open /\ loc[t] \in Loc BY <1>1, Running
<1>3. loc[t].m \in Maps \cup {Nil} /\ pc[t] \in HoldPcs /\ S \in SUBSET Bufs
  BY <1>1, <1>2 DEF Loc, HoldPcs
<1>4. \A b \in Bufs : [buf[b] EXCEPT !.at = "cached"] \in BufRec
                      /\ [buf[b] EXCEPT !.at = "cached"].at = "cached"
                      /\ [buf[b] EXCEPT !.at = "cached"].fl = buf[b].fl
  BY DEF IInv, TypeOK, BufRec, Places
<1>5. /\ buf' \in [Bufs -> BufRec]
      /\ \A x \in S : buf'[x].at = "cached" /\ buf'[x].fl = buf[x].fl
      /\ \A x \in Bufs \ S : buf'[x] = buf[x]
  <2> HIDE DEF S
  <2> QED BY <1>1, <1>3, <1>4 DEF IInv, TypeOK
<1>6. map' \in [Maps -> MapRec] /\ hist' \subseteq Faults /\ hist \subseteq hist'
  BY <1>1, <1>3, DropTyped DEF IInv, TypeOK, Faults
<1>7. RestTyped' /\ open' = open /\ initMem' = initMem
  BY <1>1, <1>5, <1>6 DEF IInv, TypeOK, RestTyped, sysVars
<1>8. LocalOK("idle", NoLoc) /\ "idle" \in PCs /\ NoLoc \in Loc /\ NoLoc.m = Nil
  BY FreshTyped DEF LocalOK, PCs, NoLoc
<1>9. Step(t) /\ Active' /\ pc'[t] = "idle" /\ loc'[t] = NoLoc
  BY <1>1, <1>2, <1>6, <1>7, <1>8, Stepped
<1>10. MapsInv' BY <1>1, <1>3, <1>8, <1>9, StepGivesUp
<1>11. BufOwned'
  <2>1. "lostinit" \notin hist' => \A x \in S : Placed(x)'
    BY <1>3, <1>5, <1>6, <1>7 DEF IInv, BufOwned, Placed
  <2>2. \A x \in Bufs \ S : ~InContext(t, x)
    BY <1>1, MapsAssumption DEF InContext, MapsAssumption
  <2> HIDE DEF S
  <2> QED BY <1>3, <1>5, <1>7, <1>9, <2>1, <2>2, BufStep
<1> QED BY <1>9, <1>10, <1>11, Kept

\* A fresh local with a mapping or a buffer.
LEMMA FreshLocal ==
  /\ NoLoc \in Loc /\ NoLoc.m = Nil /\ LocalOK("idle", NoLoc)
  /\ \A m \in Maps : LET r == [NoLoc EXCEPT !.m = m]
                     IN  r \in Loc /\ r.m = m /\ r.b = Nil /\ ~r.keep
  /\ \A b \in Bufs : LET r == [NoLoc EXCEPT !.b = b]
                     IN  r \in Loc /\ r.m = Nil /\ r.b = b /\ ~r.keep
<1>1. NoLoc \in Loc /\ NoLoc.m = Nil /\ NoLoc.b = Nil /\ ~NoLoc.keep BY FreshTyped DEF NoLoc
<1>2. ASSUME NEW m \in Maps
      PROVE  LET r == [NoLoc EXCEPT !.m = m] IN r \in Loc /\ r.m = m /\ r.b = Nil /\ ~r.keep
  BY <1>1, LocalTyped DEF Loc
<1>3. ASSUME NEW b \in Bufs
      PROVE  LET r == [NoLoc EXCEPT !.b = b] IN r \in Loc /\ r.m = Nil /\ r.b = b /\ ~r.keep
  BY <1>1, LocalTyped DEF Loc
<1> QED BY <1>1, <1>2, <1>3 DEF LocalOK

\* The mutex of a file.
LEMMA MutexTyped ==
  ASSUME IInv, NEW t \in Threads, Lock(t) \/ Unlock(t) \/ mapMutex' = mapMutex
  PROVE  mapMutex' \in [Files -> Threads \cup {Nil}]
BY MapsAssumption DEF IInv, TypeOK, Lock, Unlock, MapsAssumption

\* MMAP finds a mapping, makes one, or fails.
LEMMA KeepsInternalMmap == ASSUME IInv, NEW t \in Threads, InternalMmap(t) PROVE IInv'
<1> DEFINE f == FileOf[t]
<1>1. PICK op \in {"mmap", "heap", "rheap"}, fd \in Fds :
        LET kind == IF op = "mmap" THEN "buf" ELSE op
        IN /\ \E o \in Create(f, IF kind \in Heaps THEN Nil ELSE fd, 1, kind, FALSE) :
                IF o.m = Nil \/ Find(f, fd, 1, kind) # {}
                THEN /\ Start(t, op, "idle", NoLoc)
                     /\ map' = IF o.m = Nil THEN o.map ELSE [o.map EXCEPT ![o.m].urefs = @ + 1]
                     /\ UNCHANGED mapMutex
                ELSE /\ Start(t, op, "mmapdsp", [NoLoc EXCEPT !.m = o.m])
                     /\ Lock(t)
                     /\ map' = [o.map EXCEPT ![o.m].urefs = 1]
           /\ UNCHANGED <<buf, initMem, sysVars, dsph, kept, hist>>
  BY DEF InternalMmap
<1> DEFINE kind == IF op = "mmap" THEN "buf" ELSE op
           gd == IF kind \in Heaps THEN Nil ELSE fd
<1>2. kind \in Kinds /\ gd \in Fds \cup {Nil} /\ (kind \notin Heaps => gd = fd)
  BY DEF Kinds, Heaps
<1>3. UNCHANGED <<buf, initMem, sysVars, dsph, kept, hist>> BY <1>1
<1>4. PICK o \in Create(f, gd, 1, kind, FALSE) :
        IF o.m = Nil \/ Find(f, fd, 1, kind) # {}
        THEN /\ Start(t, op, "idle", NoLoc)
             /\ map' = IF o.m = Nil THEN o.map ELSE [o.map EXCEPT ![o.m].urefs = @ + 1]
             /\ UNCHANGED mapMutex
        ELSE /\ Start(t, op, "mmapdsp", [NoLoc EXCEPT !.m = o.m])
             /\ Lock(t)
             /\ map' = [o.map EXCEPT ![o.m].urefs = 1]
  BY <1>1
<1> HIDE DEF kind, gd
<1>5. pc[t] = "idle" /\ loc[t].m = Nil /\ f \in open /\ f \in Files /\ ops' \in [user : Nat, restart : Nat]
  BY <1>4, Started
<1>6. /\ o.map \in [Maps -> MapRec]
      /\ Found(o, f, gd, 1, kind) \/ Fresh(o, f, gd, 1, kind, FALSE) \/ None(o)
  BY <1>2, <1>5, Created DEF IInv, TypeOK
<1>7. mapMutex' \in [Files -> Threads \cup {Nil}] BY <1>4, MutexTyped
<1>8. RestTyped' /\ open' = open /\ buf' = buf /\ initMem' = initMem /\ hist' = hist
  BY <1>3, <1>5, <1>7 DEF IInv, TypeOK, RestTyped, sysVars
<1>9. Find(f, fd, 1, kind) = Find(f, gd, 1, kind)
  BY <1>2 DEF Find
<1>10. Nil \notin Maps BY MapsAssumption DEF MapsAssumption
<1>11. CASE None(o)
  <2>1. Goto(t, "idle", NoLoc) /\ map' = map
    BY <1>4, <1>11, Started DEF None
  <2>2. Step(t) /\ Active' /\ pc'[t] = "idle" /\ loc'[t] = NoLoc
    BY <1>5, <1>6, <1>8, <1>11, <2>1, FreshLocal, Stepped DEF None, PCs
  <2>3. MapsInv' BY <1>5, <1>8, <2>1, <2>2, FreshLocal, StepQuiet DEF NoFault
  <2>4. BufOwned' BY <1>5, <1>8, <2>2, BufQuiet
  <2> QED BY <2>2, <2>3, <2>4, Kept
<1>12. ASSUME NEW n \in Nat, o.m \in Maps, map' = [o.map EXCEPT ![o.m].urefs = n]
       PROVE  /\ map' \in [Maps -> MapRec] /\ \A x \in Maps \ {o.m} : map'[x] = o.map[x]
              /\ Same(o.map[o.m], map'[o.m])
              /\ Flags(map'[o.m], o.map[o.m].listed, o.map[o.m].raddr, o.map[o.m].prot)
              /\ Counts(map'[o.m], o.map[o.m].refs, o.map[o.m].keep, o.map[o.m].hrefs, n)
  <2> DEFINE s == [o.map[o.m] EXCEPT !.urefs = n]
  <2>1. /\ s \in MapRec /\ Same(o.map[o.m], s)
        /\ Flags(s, o.map[o.m].listed, o.map[o.m].raddr, o.map[o.m].prot)
        /\ Counts(s, o.map[o.m].refs, o.map[o.m].keep, o.map[o.m].hrefs, n)
    BY <1>6, <1>12, FieldAssigned
  <2>2. map' = [o.map EXCEPT ![o.m] = s] BY <1>12
  <2> HIDE DEF s
  <2> QED BY <1>6, <1>12, <2>1, <2>2, MapAssigned
<1>13. CASE Found(o, f, gd, 1, kind)
  <2>1. /\ o.m \in Maps /\ o.m # Nil /\ Find(f, fd, 1, kind) # {}
        /\ map[o.m].listed /\ map[o.m].kind \notin Heaps /\ map[o.m].fl = f /\ map[o.m].va = 1
    BY <1>9, <1>10, <1>13 DEF Found, Find
  <2>2. Goto(t, "idle", NoLoc) /\ map' = [o.map EXCEPT ![o.m].urefs = o.map[o.m].urefs + 1]
    BY <1>4, <2>1, Started
  <2>3. o.map[o.m].urefs = map[o.m].urefs /\ map[o.m].urefs + 1 \in Nat /\ map[o.m].hrefs + 0 = map[o.m].hrefs
    BY <1>13, <2>1 DEF Found, Counts, IInv, TypeOK, MapRec
  <2>4. /\ map' \in [Maps -> MapRec] /\ \A x \in Maps \ {o.m} : map'[x] = o.map[x]
        /\ Same(o.map[o.m], map'[o.m])
        /\ Flags(map'[o.m], o.map[o.m].listed, o.map[o.m].raddr, o.map[o.m].prot)
        /\ Counts(map'[o.m], o.map[o.m].refs, o.map[o.m].keep, o.map[o.m].hrefs, map[o.m].urefs + 1)
    BY <1>12, <2>1, <2>2, <2>3
  <2>5. /\ Others(map', o.m) /\ Same(map[o.m], map'[o.m])
        /\ Flags(map'[o.m], map[o.m].listed, map[o.m].raddr, map[o.m].prot)
        /\ Counts(map'[o.m], map[o.m].refs + 1, map[o.m].keep, map[o.m].hrefs, map[o.m].urefs + 1)
    BY <1>13, <2>4 DEF Found, Others, Same, Flags, Counts
  <2>6. Step(t) /\ Active' /\ pc'[t] = "idle" /\ loc'[t] = NoLoc
    BY <1>5, <1>8, <2>2, <2>4, FreshLocal, Stepped DEF PCs
  <2>7. loc'[t].m = Nil BY <2>6, FreshLocal
  <2>8. MapsInv' BY <1>5, <1>8, <2>1, <2>3, <2>5, <2>6, <2>7, StepShared DEF NoFault
  <2>9. BufOwned' BY <1>5, <1>8, <2>6, BufQuiet
  <2> QED BY <2>6, <2>8, <2>9, Kept
<1>14. CASE Fresh(o, f, gd, 1, kind, FALSE)
  <2> DEFINE r == [NoLoc EXCEPT !.m = o.m]
  <2>1. o.m \in Maps /\ o.m # Nil /\ Find(f, fd, 1, kind) = {} /\ ~map[o.m].used
    BY <1>9, <1>10, <1>14 DEF Fresh
  <2>2. Goto(t, "mmapdsp", r) /\ map' = [o.map EXCEPT ![o.m].urefs = 1]
    BY <1>4, <2>1, Started
  <2>3. r \in Loc /\ r.m = o.m /\ r.b = Nil /\ ~r.keep BY <2>1, FreshLocal
  <2> HIDE DEF r
  <2>4. /\ map' \in [Maps -> MapRec] /\ \A x \in Maps \ {o.m} : map'[x] = o.map[x]
        /\ Same(o.map[o.m], map'[o.m])
        /\ Flags(map'[o.m], o.map[o.m].listed, o.map[o.m].raddr, o.map[o.m].prot)
        /\ Counts(map'[o.m], o.map[o.m].refs, o.map[o.m].keep, o.map[o.m].hrefs, 1)
    BY <1>12, <2>1, <2>2
  <2>5. /\ Others(map', o.m) /\ Filled(map'[o.m], f, 1, kind)
        /\ Flags(map'[o.m], TRUE, FALSE, FALSE)
    BY <1>14, <2>4, Zenon DEF Fresh, Others, Filled, Same, Flags
  <2>6. Counts(map'[o.m], IF FALSE THEN 2 ELSE 1, FALSE, 0, 1)
    BY <1>14, <2>4 DEF Fresh, Counts
  <2>7. LocalOK("mmapdsp", r) /\ "mmapdsp" \in PCs BY <2>3 DEF LocalOK, PCs, SolePcs
  <2>8. Step(t) /\ Active' /\ pc'[t] = "mmapdsp" /\ loc'[t] = r
    BY <1>5, <1>8, <2>2, <2>3, <2>4, <2>7, Stepped
  <2>9. MapsInv'
    <3>1. loc'[t].m = o.m BY <2>3, <2>8
    <3> QED BY <1>2, <1>5, <1>8, <2>1, <2>5, <2>6, <2>8, <3>1, StepMade DEF NoFault
  <2>10. BufOwned' BY <1>5, <1>8, <2>8, BufQuiet
  <2> QED BY <2>8, <2>9, <2>10, Kept
<1> QED BY <1>6, <1>11, <1>13, <1>14

\* A thread outside of a call gets a buffer, or none.
LEMMA BufGot ==
  ASSUME IInv, NEW t \in Threads, Step(t), NEW o, NEW at, Allocated(o, FileOf[t], at), buf' = o.buf,
         pc[t] \in {"idle", "imem"}, "lostinit" \notin hist' /\ o.b # Nil => Placed(o.b)',
         "lostinit" \notin hist' => \A g \in Files : initMem[g] = Nil \/ initMem'[g] = initMem[g]
  PROVE  BufOwned'
<1> DEFINE S == {o.b} \ {Nil}
<1>1. S \in SUBSET Bufs BY DEF Allocated
<1>2. \A x \in Bufs : ~InContext(t, x) BY DEF InContext
<1>3. \A x \in Bufs \ S : buf'[x] = NoBuf \/ (buf'[x] = buf[x] /\ (InContext(t, x) => InContext(t, x)'))
  <2> TAKE x \in Bufs \ S
  <2>1. x # o.b BY MapsAssumption DEF MapsAssumption
  <2> QED BY <1>2, <2>1 DEF Allocated
<1>4. "lostinit" \notin hist' => \A x \in S : Placed(x)' OBVIOUS
<1> QED BY <1>1, <1>3, <1>4, BufStep

\* MMAP with ADD_PAGES allocates a remote buffer.
LEMMA KeepsAddPages == ASSUME IInv, NEW t \in Threads, AddPages(t) PROVE IInv'
<1>1. PICK o \in BufAlloc(FileOf[t], 1, "remote") :
        /\ buf' = o.buf
        /\ IF o.b = Nil
           THEN mapMutex[FileOf[t]] = Nil /\ Start(t, "pages", "idle", NoLoc) /\ UNCHANGED mapMutex
           ELSE Lock(t) /\ Start(t, "pages", "mmapdsp", [NoLoc EXCEPT !.b = o.b])
        /\ UNCHANGED <<map, initMem, sysVars, dsph, kept, hist>>
  BY DEF AddPages
<1>2. /\ pc[t] = "idle" /\ loc[t].m = Nil /\ FileOf[t] \in open /\ FileOf[t] \in Files
      /\ ops' \in [user : Nat, restart : Nat]
  BY <1>1, Started
<1>3. o.buf \in [Bufs -> BufRec] /\ Allocated(o, FileOf[t], "remote")
  BY <1>2, BufAllocated DEF IInv, TypeOK, Places
<1>4. o.b \in Bufs \cup {Nil} BY <1>3 DEF Allocated
<1>5. mapMutex' \in [Files -> Threads \cup {Nil}] BY <1>1, MutexTyped
<1>6. RestTyped' /\ open' = open /\ initMem' = initMem /\ hist' = hist /\ map' = map
      /\ map' \in [Maps -> MapRec]
  BY <1>1, <1>2, <1>3, <1>5 DEF IInv, TypeOK, RestTyped, sysVars
<1>7. \E l \in {"idle", "mmapdsp"}, r \in Loc : Goto(t, l, r) /\ r.m = Nil /\ LocalOK(l, r)
  <2>1. CASE o.b = Nil BY <1>1, <2>1, Started, FreshLocal
  <2>2. CASE o.b # Nil
    <3> DEFINE r == [NoLoc EXCEPT !.b = o.b]
    <3>1. r \in Loc /\ r.m = Nil /\ ~r.keep BY <1>4, <2>2, FreshLocal
    <3>2. Goto(t, "mmapdsp", r) BY <1>1, <2>2, Started
    <3> HIDE DEF r
    <3> QED BY <3>1, <3>2 DEF LocalOK
  <2> QED BY <2>1, <2>2
<1>8. PICK l \in {"idle", "mmapdsp"}, r \in Loc : Goto(t, l, r) /\ r.m = Nil /\ LocalOK(l, r) BY <1>7
<1>9. Step(t) /\ Active' /\ pc'[t] = l /\ loc'[t] = r
  BY <1>2, <1>6, <1>8, Stepped DEF PCs
<1>10. MapsInv' BY <1>2, <1>6, <1>8, <1>9, StepQuiet DEF NoFault
<1>11. BufOwned'
  <2>1. o.b # Nil => Placed(o.b)' BY <1>1, <1>2, <1>3, <1>6 DEF Placed, Allocated
  <2> QED BY <1>1, <1>2, <1>3, <1>6, <1>9, <2>1, BufGot
<1> QED BY <1>9, <1>10, <1>11, Kept

\* The DSP maps the memory, or refuses it.
LEMMA KeepsMmapOnDsp == ASSUME IInv, NEW t \in Threads, MmapOnDsp(t) PROVE IInv'
<1> DEFINE m == loc[t].m
           b == loc[t].b
<1>1. /\ pc[t] = "mmapdsp" /\ Goto(t, "idle", NoLoc) /\ Unlock(t)
      /\ UNCHANGED <<ops, initMem, sysVars, dsph, kept>>
      /\ \/ /\ b # Nil /\ UNCHANGED <<map, hist>>
            /\ \E ok \in BOOLEAN : buf' = [buf EXCEPT ![b].raddr = ok]
         \/ /\ m # Nil /\ buf' = buf
            /\ map' = IF map[m].used
                      THEN [map EXCEPT ![m].raddr = TRUE, ![m].prot = map[m].kind \in Heaps]
                      ELSE map
            /\ hist' = hist \cup (IF map[m].used THEN {} ELSE {"uaf"})
         \/ /\ m # Nil /\ buf' = buf
            /\ map' = [Drop(map, m) EXCEPT ![m].urefs = IF @ = 0 THEN 0 ELSE @ - 1]
            /\ hist' = hist \cup DropFaults(m)
  BY DEF MmapOnDsp, At, Done
<1>2. FileOf[t] \in open /\ loc[t] \in Loc BY <1>1, Running
<1>3. m \in Maps \cup {Nil} /\ b \in Bufs \cup {Nil} BY <1>2 DEF Loc
<1>4. mapMutex' \in [Files -> Threads \cup {Nil}] BY <1>1, MutexTyped
<1>5. ASSUME buf' \in [Bufs -> BufRec], hist' \subseteq Faults, hist \subseteq hist', map' \in [Maps -> MapRec]
      PROVE  Step(t) /\ Active' /\ pc'[t] = "idle" /\ loc'[t] = NoLoc /\ loc'[t].m = Nil
  <2>1. RestTyped' /\ open' = open
    BY <1>1, <1>4, <1>5 DEF IInv, TypeOK, RestTyped, sysVars
  <2> QED BY <1>1, <1>2, <1>5, <2>1, FreshLocal, Stepped DEF PCs
<1>6. initMem' = initMem BY <1>1
<1>7. map \in [Maps -> MapRec] /\ buf \in [Bufs -> BufRec] /\ hist \subseteq Faults BY DEF IInv, TypeOK
<1>8. CASE /\ b # Nil /\ UNCHANGED <<map, hist>>
           /\ \E ok \in BOOLEAN : buf' = [buf EXCEPT ![b].raddr = ok]
  <2>1. PICK ok \in BOOLEAN : buf' = [buf EXCEPT ![b].raddr = ok] BY <1>8
  <2> DEFINE s == [buf[b] EXCEPT !.raddr = ok]
  <2>2. b \in Bufs BY <1>3, <1>8
  <2>3. s \in BufRec /\ s.fl = buf[b].fl /\ s.at = buf[b].at BY <1>7, <2>2 DEF BufRec
  <2>4. buf' = [buf EXCEPT ![b] = s] BY <2>1
  <2> HIDE DEF s
  <2>5. buf' \in [Bufs -> BufRec] /\ buf'[b] = s /\ \A x \in Bufs \ {b} : buf'[x] = buf[x]
    BY <1>7, <2>2, <2>3, <2>4
  <2>6. Step(t) /\ Active' /\ pc'[t] = "idle" /\ loc'[t] = NoLoc /\ loc'[t].m = Nil
    BY <1>5, <1>7, <1>8, <2>5
  <2>7. m = Nil BY <1>1, <1>8 DEF IInv, LocalMap
  <2>8. MapsInv' BY <1>8, <2>6, <2>7, StepQuiet DEF NoFault
  <2> PICK c \in Bufs : c = loc[t].b BY <2>2
  <2>9. "lostinit" \notin hist' => Placed(c)'
    <3>1. \A u \in Threads : InContext(u, c) => InContext(u, c)'
      BY <1>1, <2>6 DEF InContext, Step, OnlyThread
    <3>2. "lostinit" \notin hist' => Placed(c) BY <2>6 DEF IInv, BufOwned, Step
    <3> QED BY <1>6, <2>3, <2>5, <2>6, <3>1, <3>2 DEF Placed, Step
  <2>10. \A x \in Bufs : ~InContext(t, x) BY <1>1 DEF InContext
  <2>11. BufOwned'
    <3> DEFINE S == {c}
    <3>1. S \in SUBSET Bufs OBVIOUS
    <3>2. "lostinit" \notin hist' => \A x \in S : Placed(x)' BY <2>9
    <3>3. \A x \in Bufs \ S : buf'[x] = buf[x] BY <2>5
    <3> HIDE DEF S
    <3> QED BY <1>6, <2>6, <2>10, <3>1, <3>2, <3>3, BufStep
  <2> QED BY <2>6, <2>8, <2>11, Kept
<1>9. ASSUME buf' = buf, hist' \subseteq Faults, hist \subseteq hist', map' \in [Maps -> MapRec]
      PROVE  Step(t) /\ Active' /\ loc'[t].m = Nil /\ BufOwned'
  BY <1>1, <1>5, <1>6, <1>7, <1>9, BufQuiet
<1>10. CASE /\ m # Nil /\ buf' = buf
            /\ map' = IF map[m].used
                      THEN [map EXCEPT ![m].raddr = TRUE, ![m].prot = map[m].kind \in Heaps]
                      ELSE map
            /\ hist' = hist \cup (IF map[m].used THEN {} ELSE {"uaf"})
  <2> DEFINE p == map[m].kind \in Heaps
             s == [map[m] EXCEPT !.raddr = TRUE, !.prot = p]
  <2>1. m \in Maps /\ map[m] \in MapRec BY <1>3, <1>7, <1>10
  <2>2. p \in BOOLEAN OBVIOUS
  <2>3. map[m].used => map' = [map EXCEPT ![m] = s] BY <1>10
  <2> HIDE DEF p
  <2>4. /\ s \in MapRec /\ Same(map[m], s) /\ Flags(s, map[m].listed, TRUE, p)
        /\ Counts(s, map[m].refs, map[m].keep, map[m].hrefs, map[m].urefs)
    BY <2>1, <2>2 DEF MapRec, Same, Flags, Counts
  <2> HIDE DEF s
  <2>5. map[m].used => map' \in [Maps -> MapRec] /\ map'[m] = s /\ Others(map', m)
    BY <1>7, <2>1, <2>3, <2>4, MapAssigned DEF Others
  <2>6. ~map[m].used => map' = map BY <1>10
  <2>7. map' \in [Maps -> MapRec] /\ Others(map', m) BY <1>7, <2>5, <2>6 DEF Others
  <2>8. Step(t) /\ Active' /\ loc'[t].m = Nil /\ BufOwned'
    BY <1>7, <1>9, <1>10, <2>7 DEF Faults
  <2>9. IF map[m].used
        THEN /\ hist' = hist /\ Same(map[m], map'[m])
             /\ Flags(map'[m], map[m].listed, TRUE, map[m].kind \in Heaps)
             /\ Counts(map'[m], map[m].refs, map[m].keep, map[m].hrefs, map[m].urefs)
        ELSE map'[m] = map[m] /\ hist' = hist \cup {"uaf"}
    BY <1>10, <2>4, <2>5, <2>6 DEF p
  <2>10. MapsInv' BY <1>1, <2>1, <2>7, <2>8, <2>9, StepMapped
  <2> QED BY <2>8, <2>10, Kept
<1>11. CASE /\ m # Nil /\ buf' = buf
            /\ map' = [Drop(map, m) EXCEPT ![m].urefs = IF @ = 0 THEN 0 ELSE @ - 1]
            /\ hist' = hist \cup DropFaults(m)
  <2> DEFINE dd == Drop(map, m)
             n == IF dd[m].urefs = 0 THEN 0 ELSE dd[m].urefs - 1
             s == [dd[m] EXCEPT !.urefs = n]
  <2>1. m \in Maps BY <1>3, <1>11
  <2>2. /\ dd \in [Maps -> MapRec] /\ Others(dd, m)
        /\ IF map[m].refs > 1
           THEN /\ Same(map[m], dd[m])
                /\ Flags(dd[m], map[m].listed, map[m].raddr, map[m].prot)
                /\ Counts(dd[m], map[m].refs - 1, map[m].keep, map[m].hrefs, map[m].urefs)
           ELSE dd[m] = NoMap
    BY <1>7, <2>1, Dropped DEF Others
  <2>3. map' = [dd EXCEPT ![m] = s] BY <1>11
  <2> HIDE DEF dd
  <2>4. n \in Nat /\ dd[m] \in MapRec BY <2>1, <2>2 DEF MapRec
  <2> HIDE DEF n
  <2>5. /\ s \in MapRec /\ Same(dd[m], s) /\ Flags(s, dd[m].listed, dd[m].raddr, dd[m].prot)
        /\ Counts(s, dd[m].refs, dd[m].keep, dd[m].hrefs, n)
    BY <2>4, FieldAssigned
  <2>6. dd[m] = NoMap => s = NoMap
    <3>1. \A r \in MapRec : r.urefs = 0 => [r EXCEPT !.urefs = 0] = r BY DEF MapRec
    <3>2. dd[m] = NoMap => n = 0 BY DEF n, NoMap
    <3>3. NoMap.urefs = 0 BY DEF NoMap
    <3> QED BY <3>1, <3>2, <3>3, FreshTyped
  <2> HIDE DEF s
  <2>7. map' \in [Maps -> MapRec] /\ map'[m] = s /\ Others(map', m)
    BY <2>1, <2>2, <2>3, <2>5, MapAssigned DEF Others
  <2>8. hist' \subseteq Faults /\ hist \subseteq hist'
    BY <1>3, <1>7, <1>11, DropTyped DEF Faults
  <2>9. Step(t) /\ Active' /\ loc'[t].m = Nil /\ BufOwned' BY <1>9, <1>11, <2>7, <2>8
  <2>10. IF map[m].refs > 1
         THEN /\ Same(map[m], map'[m])
              /\ Flags(map'[m], map[m].listed, map[m].raddr, map[m].prot)
              /\ Counts(map'[m], map[m].refs - 1, map[m].keep, map[m].hrefs,
                        IF map[m].urefs = 0 THEN 0 ELSE map[m].urefs - 1)
         ELSE map'[m] = NoMap
    BY <2>2, <2>5, <2>6, <2>7 DEF n, Same, Flags, Counts
  <2>11. MapsInv' BY <1>1, <1>11, <2>1, <2>7, <2>9, <2>10, StepMapFails
  <2> QED BY <2>9, <2>11, Kept
<1> QED BY <1>1, <1>8, <1>10, <1>11

\* fastrpc_mmap_remove and the loop after a restart take a mapping off its list, and put
\* it back.
LEMMA ListedAssigned ==
  ASSUME IInv, NEW m \in Maps, NEW v \in BOOLEAN, map' = [map EXCEPT ![m].listed = v]
  PROVE  /\ map' \in [Maps -> MapRec] /\ Others(map', m) /\ Same(map[m], map'[m])
         /\ Flags(map'[m], v, map[m].raddr, map[m].prot)
         /\ Counts(map'[m], map[m].refs, map[m].keep, map[m].hrefs, map[m].urefs)
<1> DEFINE s == [map[m] EXCEPT !.listed = v]
<1>1. map \in [Maps -> MapRec] /\ map[m] \in MapRec BY DEF IInv, TypeOK
<1>2. /\ s \in MapRec /\ Same(map[m], s) /\ Flags(s, v, map[m].raddr, map[m].prot)
      /\ Counts(s, map[m].refs, map[m].keep, map[m].hrefs, map[m].urefs)
  BY <1>1, FieldAssigned
<1>3. map' = [map EXCEPT ![m] = s] OBVIOUS
<1> HIDE DEF s
<1>4. map' \in [Maps -> MapRec] /\ map'[m] = s /\ Others(map', m)
  BY <1>1, <1>2, <1>3, MapAssigned DEF Others
<1> QED BY <1>2, <1>4

\* MUNMAP unhooks a mapping with one reference.
LEMMA KeepsInternalMunmap == ASSUME IInv, NEW t \in Threads, InternalMunmap(t) PROVE IInv'
<1>1. PICK m \in Listed(FileOf[t]) :
        /\ IF Removable(m)
           THEN /\ Lock(t)
                /\ Start(t, "munmap", "mundsp", [NoLoc EXCEPT !.m = m])
                /\ map' = [map EXCEPT ![m].listed = FALSE]
                /\ hist' = hist \cup (IF Owed(m) THEN {} ELSE {"taken"})
           ELSE /\ mapMutex[FileOf[t]] = Nil
                /\ Start(t, "munmap", "idle", NoLoc)
                /\ UNCHANGED <<map, mapMutex, hist>>
        /\ UNCHANGED <<buf, initMem, sysVars, dsph, kept>>
  BY DEF InternalMunmap
<1>2. /\ pc[t] = "idle" /\ loc[t].m = Nil /\ FileOf[t] \in open
      /\ ops' \in [user : Nat, restart : Nat]
  BY <1>1, Started
<1>3. m \in Maps /\ map[m].listed /\ (map[m].kind \in Heaps \/ map[m].fl = FileOf[t])
  BY DEF Listed
<1>4. mapMutex' \in [Files -> Threads \cup {Nil}] BY <1>1, MutexTyped
<1>5. /\ RestTyped' /\ open' = open /\ buf' = buf /\ initMem' = initMem
      /\ hist \subseteq hist' /\ hist' \subseteq hist \cup {"taken"}
  BY <1>1, <1>2, <1>4 DEF IInv, TypeOK, RestTyped, sysVars, Faults
<1>6. CASE Removable(m)
  <2> DEFINE r == [NoLoc EXCEPT !.m = m]
  <2>1. r \in Loc /\ r.m = m /\ r.b = Nil /\ ~r.keep BY <1>3, FreshLocal
  <2>2. Goto(t, "mundsp", r) /\ map' = [map EXCEPT ![m].listed = FALSE] BY <1>1, <1>6, Started
  <2> HIDE DEF r
  <2>3. /\ map' \in [Maps -> MapRec] /\ Others(map', m) /\ Same(map[m], map'[m])
        /\ Flags(map'[m], FALSE, map[m].raddr, map[m].prot)
        /\ Counts(map'[m], map[m].refs, map[m].keep, map[m].hrefs, map[m].urefs)
    BY <1>3, <2>2, ListedAssigned
  <2>4. LocalOK("mundsp", r) /\ "mundsp" \in PCs BY <2>1 DEF LocalOK, PCs, SolePcs
  <2>5. Step(t) /\ Active' /\ pc'[t] = "mundsp" /\ loc'[t] = r
    BY <1>2, <1>5, <2>1, <2>2, <2>3, <2>4, Stepped
  <2>6. loc'[t].m = m /\ map[m].refs = 1 BY <1>6, <2>1, <2>5 DEF Removable
  <2>7. "taken" \in hist' \/ Owed(m) BY <1>1, <1>6
  <2>9. MapsInv' BY <1>2, <1>3, <1>5, <2>3, <2>5, <2>6, <2>7, StepUnhooked
  <2>8. BufOwned' BY <1>2, <1>5, <2>5, BufQuiet
  <2> QED BY <2>5, <2>8, <2>9, Kept
<1>7. CASE ~Removable(m)
  <2>1. Goto(t, "idle", NoLoc) /\ map' = map /\ map' \in [Maps -> MapRec] /\ hist' = hist
    BY <1>1, <1>7, Started DEF IInv, TypeOK
  <2>2. Step(t) /\ Active' /\ pc'[t] = "idle" /\ loc'[t] = NoLoc
    BY <1>2, <1>5, <2>1, FreshLocal, Stepped DEF PCs
  <2>3. MapsInv' BY <1>2, <1>5, <2>1, <2>2, FreshLocal, StepQuiet DEF NoFault
  <2>4. BufOwned' BY <1>2, <1>5, <2>2, BufQuiet
  <2> QED BY <2>2, <2>3, <2>4, Kept
<1> QED BY <1>6, <1>7

\* MUNMAP of pages.
LEMMA KeepsMunmapPages == ASSUME IInv, NEW t \in Threads, MunmapPages(t) PROVE IInv'
<1>1. PICK b \in Bufs :
        /\ Lock(t) /\ Start(t, "munmap", "mundsp", [NoLoc EXCEPT !.b = b])
        /\ UNCHANGED <<mmVars, sysVars, dsph, kept, hist>>
  BY DEF MunmapPages
<1> DEFINE r == [NoLoc EXCEPT !.b = b]
<1>2. r \in Loc /\ r.m = Nil /\ r.b = b /\ ~r.keep BY FreshLocal
<1>3. /\ pc[t] = "idle" /\ loc[t].m = Nil /\ FileOf[t] \in open /\ Goto(t, "mundsp", r)
      /\ ops' \in [user : Nat, restart : Nat]
  BY <1>1, Started
<1> HIDE DEF r
<1>4. mapMutex' \in [Files -> Threads \cup {Nil}] BY <1>1, MutexTyped
<1>5. RestTyped' /\ open' = open /\ buf' = buf /\ initMem' = initMem /\ hist' = hist /\ map' = map
      /\ map' \in [Maps -> MapRec]
  BY <1>1, <1>3, <1>4 DEF IInv, TypeOK, RestTyped, sysVars, mmVars
<1>6. LocalOK("mundsp", r) /\ "mundsp" \in PCs BY <1>2 DEF LocalOK, PCs
<1>7. Step(t) /\ Active' /\ pc'[t] = "mundsp" /\ loc'[t] = r
  BY <1>2, <1>3, <1>5, <1>6, Stepped
<1>8. MapsInv' BY <1>2, <1>3, <1>5, <1>7, StepQuiet DEF NoFault
<1>9. BufOwned' BY <1>3, <1>5, <1>7, BufQuiet
<1> QED BY <1>7, <1>8, <1>9, Kept

\* The types of an unmapping.
LEMMA UnmapTyped ==
  ASSUME IInv, NEW m \in Maps, NEW o \in UnmapOutcomes(m)
  PROVE  /\ UnmapFaults(m, o) \subseteq {"uaf", "heaplost", "shadowed"}
         /\ "uaf" \in UnmapFaults(m, o) => ~map[m].used
         /\ "heaplost" \in UnmapFaults(m, o) => "shadowed" \in UnmapFaults(m, o)
         /\ o.err => UnmapFaults(m, o) \subseteq (IF map[m].used THEN {} ELSE {"uaf"})
<1>1. /\ o.err \in BOOLEAN /\ o.prot \in BOOLEAN
      /\ o.prot /\ ~o.err => map[m].kind = "heap"
  BY Unmapped DEF IInv, TypeOK
<1> QED BY <1>1 DEF UnmapFaults

\* MUNMAP frees what the DSP has unmapped, or puts it back.
LEMMA KeepsMunmapOnDsp == ASSUME IInv, NEW t \in Threads, MunmapOnDsp(t) PROVE IInv'
<1> DEFINE m == loc[t].m
           b == loc[t].b
<1>1. /\ pc[t] = "mundsp" /\ Goto(t, "idle", NoLoc) /\ Unlock(t)
      /\ UNCHANGED <<ops, initMem, sysVars, dsph, kept>>
      /\ \/ /\ b # Nil /\ UNCHANGED <<map, hist>>
            /\ buf' \in {buf, [buf EXCEPT ![b] = NoBuf]}
         \/ /\ m # Nil /\ map' = [map EXCEPT ![m].listed = TRUE] /\ buf' = buf
            /\ hist' = hist \cup (IF map[m].used THEN {} ELSE {"uaf"})
         \/ /\ m # Nil /\ buf' = buf
            /\ \E o \in UnmapOutcomes(m) :
                 /\ map' = IF o.err THEN [map EXCEPT ![m].listed = TRUE] ELSE Drop(map, m)
                 /\ hist' = hist \cup UnmapFaults(m, o)
  BY DEF MunmapOnDsp, At, Done
<1>2. FileOf[t] \in open /\ loc[t] \in Loc BY <1>1, Running
<1>3. m \in Maps \cup {Nil} /\ b \in Bufs \cup {Nil} BY <1>2 DEF Loc
<1>4. mapMutex' \in [Files -> Threads \cup {Nil}] BY <1>1, MutexTyped
<1>5. ASSUME buf' \in [Bufs -> BufRec], hist' \subseteq Faults, hist \subseteq hist', map' \in [Maps -> MapRec]
      PROVE  Step(t) /\ Active' /\ pc'[t] = "idle" /\ loc'[t] = NoLoc /\ loc'[t].m = Nil
  <2>1. RestTyped' /\ open' = open
    BY <1>1, <1>4, <1>5 DEF IInv, TypeOK, RestTyped, sysVars
  <2> QED BY <1>1, <1>2, <1>5, <2>1, FreshLocal, Stepped DEF PCs
<1>6. initMem' = initMem BY <1>1
<1>7. map \in [Maps -> MapRec] /\ buf \in [Bufs -> BufRec] /\ hist \subseteq Faults BY DEF IInv, TypeOK
<1>8. CASE b # Nil /\ UNCHANGED <<map, hist>> /\ buf' \in {buf, [buf EXCEPT ![b] = NoBuf]}
  <2>1. b \in Bufs BY <1>3, <1>8
  <2>2. buf' \in [Bufs -> BufRec] /\ \A x \in Bufs : buf'[x] = buf[x] \/ buf'[x] = NoBuf
    BY <1>7, <1>8, <2>1, FreshTyped
  <2>3. Step(t) /\ Active' /\ pc'[t] = "idle" /\ loc'[t] = NoLoc /\ loc'[t].m = Nil
    BY <1>5, <1>7, <1>8, <2>2
  <2>4. m = Nil BY <1>1, <1>8 DEF IInv, LocalMap
  <2>5. MapsInv' BY <1>8, <2>3, <2>4, StepQuiet DEF NoFault
  <2>6. \A x \in Bufs : ~InContext(t, x) BY <1>1 DEF InContext
  <2>7. BufOwned' BY <1>6, <2>2, <2>3, <2>6, BufStep, {} \in SUBSET Bufs
  <2> QED BY <2>3, <2>5, <2>7, Kept
<1>9. ASSUME buf' = buf, hist' \subseteq Faults, hist \subseteq hist', map' \in [Maps -> MapRec]
      PROVE  Step(t) /\ Active' /\ loc'[t].m = Nil /\ BufOwned'
  BY <1>1, <1>5, <1>6, <1>7, <1>9, BufQuiet
<1>10. ASSUME m # Nil, buf' = buf, map' = [map EXCEPT ![m].listed = TRUE], hist \subseteq hist',
              hist' \subseteq hist \cup (IF map[m].used THEN {} ELSE {"uaf"})
       PROVE  IInv'
  <2>1. m \in Maps BY <1>3, <1>10
  <2>2. /\ map' \in [Maps -> MapRec] /\ Others(map', m) /\ Same(map[m], map'[m])
        /\ Flags(map'[m], TRUE, map[m].raddr, map[m].prot)
        /\ Counts(map'[m], map[m].refs, map[m].keep, map[m].hrefs, map[m].urefs)
    BY <1>10, <2>1, ListedAssigned
  <2>3. Step(t) /\ Active' /\ loc'[t].m = Nil /\ BufOwned'
    BY <1>7, <1>9, <1>10, <2>2 DEF Faults
  <2>4. MapsInv' BY <1>1, <1>10, <2>1, <2>2, <2>3, StepRelisted
  <2> QED BY <2>3, <2>4, Kept
<1>11. CASE /\ m # Nil /\ buf' = buf
            /\ \E o \in UnmapOutcomes(m) :
                 /\ map' = IF o.err THEN [map EXCEPT ![m].listed = TRUE] ELSE Drop(map, m)
                 /\ hist' = hist \cup UnmapFaults(m, o)
  <2>1. PICK o \in UnmapOutcomes(m) :
          /\ map' = IF o.err THEN [map EXCEPT ![m].listed = TRUE] ELSE Drop(map, m)
          /\ hist' = hist \cup UnmapFaults(m, o)
    BY <1>11
  <2>2. m \in Maps BY <1>3, <1>11
  <2>3. /\ UnmapFaults(m, o) \subseteq {"uaf", "heaplost", "shadowed"}
        /\ "uaf" \in UnmapFaults(m, o) => ~map[m].used
        /\ "heaplost" \in UnmapFaults(m, o) => "shadowed" \in UnmapFaults(m, o)
        /\ o.err => UnmapFaults(m, o) \subseteq (IF map[m].used THEN {} ELSE {"uaf"})
    BY <2>2, UnmapTyped
  <2>4. CASE o.err BY <1>10, <1>11, <2>1, <2>3, <2>4
  <2>5. CASE ~o.err
    <3>1. map' = Drop(map, m) /\ map' \in [Maps -> MapRec]
      BY <1>7, <2>1, <2>2, <2>5, Dropped
    <3>2. hist' \subseteq Faults /\ hist \subseteq hist' BY <1>7, <2>1, <2>3 DEF Faults
    <3>3. Step(t) /\ Active' /\ loc'[t].m = Nil /\ BufOwned' BY <1>9, <1>11, <3>1, <3>2
    <3>4. MapsInv' BY <1>1, <2>1, <2>2, <2>3, <3>1, <3>3, StepFreed
    <3> QED BY <3>3, <3>4, Kept
  <2> QED BY <2>4, <2>5
<1>12. CASE /\ m # Nil /\ map' = [map EXCEPT ![m].listed = TRUE] /\ buf' = buf
            /\ hist' = hist \cup (IF map[m].used THEN {} ELSE {"uaf"})
  BY <1>10, <1>12
<1> QED BY <1>1, <1>8, <1>11, <1>12

\* MUNMAP_FD drops a reference, be it its own or not.
LEMMA KeepsMunmapFd == ASSUME IInv, NEW t \in Threads, MunmapFd(t) PROVE IInv'
<1> DEFINE f == FileOf[t]
<1>1. PICK fd \in Fds :
        /\ kept' = kept \ {<<f, fd>>}
        /\ \/ UNCHANGED <<map, hist>>
           \/ \E m \in Find(f, fd, 1, "buf") :
                /\ map' = [Drop(map, m) EXCEPT ![m].keep = FALSE]
                /\ hist' = hist \cup DropFaults(m) \cup (IF map[m].keep THEN {} ELSE {"stolen"})
  BY DEF MunmapFd
<1>2. Start(t, "munmap_fd", "idle", NoLoc) /\ UNCHANGED <<buf, initMem, sysVars, mapMutex, dsph>>
  BY DEF MunmapFd
<1>3. /\ pc[t] = "idle" /\ loc[t].m = Nil /\ f \in open /\ Goto(t, "idle", NoLoc)
      /\ ops' \in [user : Nat, restart : Nat]
  BY <1>2, Started
<1>4. map \in [Maps -> MapRec] /\ hist \subseteq Faults BY DEF IInv, TypeOK
<1>5. ASSUME map' \in [Maps -> MapRec], hist' \subseteq Faults, hist \subseteq hist'
      PROVE  Step(t) /\ Active' /\ loc'[t].m = Nil /\ BufOwned'
  <2>1. RestTyped' /\ open' = open /\ buf' = buf /\ initMem' = initMem
    BY <1>1, <1>2, <1>3, <1>5 DEF IInv, TypeOK, RestTyped, sysVars
  <2>2. Step(t) /\ Active' /\ loc'[t].m = Nil
    BY <1>3, <1>5, <2>1, FreshLocal, Stepped DEF PCs
  <2> QED BY <1>3, <2>1, <2>2, BufQuiet
<1>6. CASE UNCHANGED <<map, hist>>
  <2>1. Step(t) /\ Active' /\ loc'[t].m = Nil /\ BufOwned' BY <1>4, <1>5, <1>6
  <2>2. MapsInv' BY <1>3, <1>6, <2>1, StepQuiet DEF NoFault
  <2> QED BY <2>1, <2>2, Kept
<1>7. ASSUME NEW m \in Find(f, fd, 1, "buf"), map' = [Drop(map, m) EXCEPT ![m].keep = FALSE],
             hist' = hist \cup DropFaults(m) \cup (IF map[m].keep THEN {} ELSE {"stolen"})
      PROVE  IInv'
  <2> DEFINE dd == Drop(map, m)
             s == [dd[m] EXCEPT !.keep = FALSE]
  <2>1. m \in Maps /\ map[m].listed /\ map[m].kind \notin Heaps /\ map[m].fl = f
    BY DEF Find, Heaps
  <2>2. /\ dd \in [Maps -> MapRec] /\ Others(dd, m)
        /\ IF map[m].refs > 1
           THEN /\ Same(map[m], dd[m])
                /\ Flags(dd[m], map[m].listed, map[m].raddr, map[m].prot)
                /\ Counts(dd[m], map[m].refs - 1, map[m].keep, map[m].hrefs, map[m].urefs)
           ELSE dd[m] = NoMap
    BY <1>4, <2>1, Dropped DEF Others
  <2>3. map' = [dd EXCEPT ![m] = s] BY <1>7
  <2> HIDE DEF dd
  <2>4. dd[m] \in MapRec BY <2>1, <2>2
  <2>5. /\ s \in MapRec /\ Same(dd[m], s) /\ Flags(s, dd[m].listed, dd[m].raddr, dd[m].prot)
        /\ Counts(s, dd[m].refs, FALSE, dd[m].hrefs, dd[m].urefs)
    BY <2>4, FieldAssigned
  <2>6. dd[m] = NoMap => s = NoMap
    <3>1. \A r \in MapRec : r.keep = FALSE => [r EXCEPT !.keep = FALSE] = r BY DEF MapRec
    <3>2. NoMap.keep = FALSE BY DEF NoMap
    <3> QED BY <3>1, <3>2, FreshTyped
  <2> HIDE DEF s
  <2>7. map' \in [Maps -> MapRec] /\ map'[m] = s /\ Others(map', m)
    BY <2>1, <2>2, <2>3, <2>5, MapAssigned DEF Others
  <2>8. hist' \subseteq Faults /\ hist \subseteq hist'
    <3>1. DropFaults(m) \subseteq {"uaf", "heaplost"} BY <2>1, DropTyped
    <3> QED BY <1>4, <1>7, <3>1 DEF Faults
  <2>9. Step(t) /\ Active' /\ loc'[t].m = Nil /\ BufOwned' BY <1>5, <2>7, <2>8
  <2>10. IF map[m].refs > 1
         THEN /\ Same(map[m], map'[m])
              /\ Flags(map'[m], map[m].listed, map[m].raddr, map[m].prot)
              /\ Counts(map'[m], map[m].refs - 1, FALSE, map[m].hrefs, map[m].urefs)
         ELSE map'[m] = NoMap
    BY <2>2, <2>5, <2>6, <2>7 DEF Same, Flags, Counts
  <2>11. MapsInv' BY <1>3, <1>7, <2>1, <2>7, <2>9, <2>10, StepFdDropped
  <2> QED BY <2>9, <2>11, Kept
<1> QED BY <1>1, <1>6, <1>7

\* A step that starts an operation and changes neither mappings nor buffers.
LEMMA StepStarts ==
  ASSUME IInv, NEW t \in Threads, NEW op, NEW l \in PCs, NEW r \in Loc, Start(t, op, l, r),
         r.m = Nil, LocalOK(l, r), UNCHANGED <<mmVars, open, mapMutex, dsph, kept, hist>>,
         staticpd' \in BOOLEAN, stale' \subseteq {"ssr", "pdr"}
  PROVE  IInv'
<1>1. /\ pc[t] = "idle" /\ loc[t].m = Nil /\ FileOf[t] \in open /\ Goto(t, l, r)
      /\ ops' \in [user : Nat, restart : Nat]
  BY Started
<1>2. RestTyped' /\ open' = open /\ buf' = buf /\ initMem' = initMem /\ hist' = hist /\ map' = map
      /\ map' \in [Maps -> MapRec]
  BY <1>1 DEF IInv, TypeOK, RestTyped, mmVars
<1>3. Step(t) /\ Active' /\ pc'[t] = l /\ loc'[t] = r
  BY <1>1, <1>2, Stepped
<1>4. MapsInv' BY <1>1, <1>2, <1>3, StepQuiet DEF NoFault
<1>5. BufOwned' BY <1>1, <1>2, <1>3, BufQuiet
<1> QED BY <1>3, <1>4, <1>5, Kept

\* INIT starts.
LEMMA KeepsInitCreate == ASSUME IInv, NEW t \in Threads, InitCreate(t) PROVE IInv'
<1>1. PICK fd \in Fds : /\ Start(t, "create", "file", [NoLoc EXCEPT !.fd = fd])
                        /\ UNCHANGED <<mmVars, sysVars, mapMutex, dsph, kept, hist>>
  BY DEF InitCreate
<1> DEFINE r == [NoLoc EXCEPT !.fd = fd]
<1>2. r \in Loc /\ r.m = Nil /\ ~r.keep
  <2>1. r \in Loc BY FreshTyped, LocalTyped
  <2> QED BY <2>1 DEF NoLoc, Loc
<1>3. Start(t, "create", "file", r) BY <1>1
<1> HIDE DEF r
<1>4. LocalOK("file", r) /\ "file" \in PCs BY <1>2 DEF LocalOK, PCs
<1>5. UNCHANGED <<mmVars, open, mapMutex, dsph, kept, hist>> /\ staticpd' \in BOOLEAN
      /\ stale' \subseteq {"ssr", "pdr"}
  BY <1>1 DEF IInv, TypeOK, sysVars
<1> QED BY <1>2, <1>3, <1>4, <1>5, StepStarts

\* INIT maps the file of the process.
LEMMA KeepsInitFile == ASSUME IInv, NEW t \in Threads, InitFile(t) PROVE IInv'
<1> DEFINE f == FileOf[t]
<1>1. /\ pc[t] = "file" /\ UNCHANGED <<ops, buf, initMem, sysVars, mapMutex, dsph, kept, hist>>
      /\ \/ \E o \in Create(f, loc[t].fd, 1, "buf", FALSE) :
              /\ map' = o.map
              /\ IF o.m = Nil THEN Goto(t, "idle", NoLoc)
                 ELSE Goto(t, "imem", [loc[t] EXCEPT !.m = o.m])
         \/ Goto(t, "imem", loc[t]) /\ map' = map
  BY DEF InitFile, At, Done
<1>2. f \in open /\ f \in Files /\ loc[t] \in Loc BY <1>1, Running
<1>3. loc[t].m = Nil /\ loc[t].fd \in Fds \cup {Nil}
  BY <1>1, <1>2 DEF IInv, LocalMap, HoldPcs, SolePcs, Loc
<1>4. RestTyped' /\ open' = open /\ buf' = buf /\ initMem' = initMem /\ hist' = hist
  BY <1>1 DEF IInv, TypeOK, RestTyped, sysVars
<1>5. map \in [Maps -> MapRec] BY DEF IInv, TypeOK
<1>6. ASSUME NEW l \in {"idle", "imem"}, NEW r \in Loc, Goto(t, l, r), r.m # Nil => l = "imem",
             r.keep => r.fd # Nil, map' \in [Maps -> MapRec]
      PROVE  Step(t) /\ Active' /\ pc'[t] = l /\ loc'[t] = r /\ BufOwned'
  <2>1. LocalOK(l, r) /\ l \in PCs BY <1>6 DEF LocalOK, PCs, HoldPcs
  <2>2. Step(t) /\ Active' /\ pc'[t] = l /\ loc'[t] = r
    BY <1>2, <1>4, <1>6, <2>1, Stepped
  <2> QED BY <1>1, <1>4, <2>2, BufQuiet
<1>7. ASSUME NEW l \in {"idle", "imem"}, NEW r \in Loc, Goto(t, l, r), r.m = Nil,
             r.keep => r.fd # Nil, map' = map
      PROVE  IInv'
  <2>1. Step(t) /\ Active' /\ pc'[t] = l /\ loc'[t] = r /\ BufOwned' BY <1>5, <1>6, <1>7
  <2>2. MapsInv' BY <1>3, <1>4, <1>7, <2>1, StepQuiet DEF NoFault
  <2> QED BY <2>1, <2>2, Kept
<1>8. CASE Goto(t, "imem", loc[t]) /\ map' = map
  BY <1>2, <1>3, <1>7, <1>8 DEF IInv, LocalMap
<1>9. ASSUME NEW o \in Create(f, loc[t].fd, 1, "buf", FALSE), map' = o.map,
             IF o.m = Nil THEN Goto(t, "idle", NoLoc)
             ELSE Goto(t, "imem", [loc[t] EXCEPT !.m = o.m])
      PROVE  IInv'
  <2>1. /\ o.map \in [Maps -> MapRec]
        /\ Found(o, f, loc[t].fd, 1, "buf") \/ Fresh(o, f, loc[t].fd, 1, "buf", FALSE) \/ None(o)
    BY <1>2, <1>3, <1>5, Created DEF Kinds
  <2>2. CASE None(o)
    BY <1>7, <1>9, <2>2, FreshLocal DEF None, LocalOK
  <2>3. CASE Found(o, f, loc[t].fd, 1, "buf") \/ Fresh(o, f, loc[t].fd, 1, "buf", FALSE)
    <3> DEFINE r == [loc[t] EXCEPT !.m = o.m]
    <3>1. o.m \in Maps /\ o.m # Nil
      BY <2>3, MapsAssumption DEF Found, Fresh, Find, MapsAssumption
    <3>2. r \in Loc /\ r.m = o.m /\ r.keep = loc[t].keep /\ r.fd = loc[t].fd
      <4>1. r \in Loc BY <1>2, <3>1, LocalTyped
      <4> QED BY <1>2, <4>1 DEF Loc
    <3>3. Goto(t, "imem", r) BY <1>9, <3>1
    <3> HIDE DEF r
    <3>4. Step(t) /\ Active' /\ pc'[t] = "imem" /\ loc'[t] = r /\ BufOwned'
      BY <1>6, <1>9, <2>1, <3>2, <3>3 DEF IInv, LocalMap
    <3>5. loc'[t].m = o.m /\ pc'[t] \in HoldPcs BY <3>2, <3>4 DEF HoldPcs
    <3>6. CASE Found(o, f, loc[t].fd, 1, "buf")
      <4>1. /\ map[o.m].listed /\ map[o.m].kind \notin Heaps /\ map[o.m].fl = f
            /\ map[o.m].va = 1
        BY <3>6 DEF Found, Find, Heaps
      <4>2. /\ Others(map', o.m) /\ Same(map[o.m], map'[o.m])
            /\ Flags(map'[o.m], map[o.m].listed, map[o.m].raddr, map[o.m].prot)
            /\ Counts(map'[o.m], map[o.m].refs + 1, map[o.m].keep, map[o.m].hrefs, map[o.m].urefs)
        BY <1>9, <3>6 DEF Found
      <4>3. map[o.m].hrefs + 0 = map[o.m].hrefs /\ map[o.m].urefs + 0 = map[o.m].urefs
        BY <1>5, <3>1 DEF MapRec
      <4>4. MapsInv' BY <1>3, <1>4, <3>1, <3>4, <3>5, <4>1, <4>2, <4>3, StepShared DEF NoFault
      <4> QED BY <3>4, <4>4, Kept
    <3>7. CASE Fresh(o, f, loc[t].fd, 1, "buf", FALSE)
      <4>1. /\ ~map[o.m].used /\ Others(map', o.m)
            /\ Filled(map'[o.m], f, 1, "buf") /\ Flags(map'[o.m], TRUE, FALSE, FALSE)
            /\ Counts(map'[o.m], IF FALSE THEN 2 ELSE 1, FALSE, 0, 0)
        BY <1>9, <3>7 DEF Fresh
      <4>2. MapsInv' BY <1>3, <1>4, <3>1, <3>4, <3>5, <4>1, StepMade DEF NoFault, Kinds
      <4> QED BY <3>4, <4>2, Kept
    <3> QED BY <2>3, <3>6, <3>7
  <2> QED BY <2>1, <2>2, <2>3
<1> QED BY <1>1, <1>8, <1>9

\* INIT allocates the memory of the process.
LEMMA KeepsInitMem == ASSUME IInv, NEW t \in Threads, InitMem(t) PROVE IInv'
<1> DEFINE f == FileOf[t]
<1>1. /\ pc[t] = "imem" /\ Goto(t, "initdsp", loc[t]) /\ map' = map /\ open' = open
      /\ UNCHANGED <<ops, sysVars, mapMutex, dsph, kept>>
      /\ \/ UNCHANGED <<buf, initMem, hist>>
         \/ \E o \in BufAlloc(f, 2, "init") :
              /\ buf' = o.buf
              /\ IF o.b = Nil THEN UNCHANGED <<initMem, hist>>
                 ELSE /\ initMem' = [initMem EXCEPT ![f] = o.b]
                      /\ hist' = hist \cup (IF initMem[f] = Nil THEN {} ELSE {"lostinit"})
  BY DEF InitMem, At, sysVars
<1>2. f \in open /\ f \in Files /\ loc[t] \in Loc BY <1>1, Running
<1>3. /\ map \in [Maps -> MapRec] /\ hist \subseteq Faults /\ buf \in [Bufs -> BufRec]
      /\ initMem \in [Files -> Bufs \cup {Nil}]
  BY DEF IInv, TypeOK
<1>4. ASSUME buf' \in [Bufs -> BufRec], initMem' \in [Files -> Bufs \cup {Nil}], hist \subseteq hist',
             hist' \subseteq hist \cup {"lostinit"}
      PROVE  Step(t) /\ Active' /\ MapsInv'
  <2>1. RestTyped' /\ map' \in [Maps -> MapRec]
    BY <1>1, <1>3, <1>4 DEF IInv, TypeOK, RestTyped, sysVars, Faults
  <2>2. LocalOK("initdsp", loc[t]) /\ "initdsp" \in PCs /\ "initdsp" \in HoldPcs /\ pc[t] \in HoldPcs
    BY <1>1 DEF LocalOK, PCs, HoldPcs, IInv, LocalMap
  <2>3. Step(t) /\ Active' /\ pc'[t] = "initdsp" /\ loc'[t] = loc[t]
    BY <1>1, <1>2, <1>4, <2>1, <2>2, Stepped
  <2>4. MapsInv' BY <1>1, <1>4, <2>2, <2>3, StepQuiet DEF NoFault
  <2> QED BY <2>3, <2>4
<1>5. CASE UNCHANGED <<buf, initMem, hist>>
  <2>1. Step(t) /\ Active' /\ MapsInv' BY <1>3, <1>4, <1>5
  <2>2. BufOwned' BY <1>1, <1>5, <2>1, BufQuiet
  <2> QED BY <2>1, <2>2, Kept
<1>6. ASSUME NEW o \in BufAlloc(f, 2, "init"), buf' = o.buf,
             IF o.b = Nil THEN UNCHANGED <<initMem, hist>>
             ELSE /\ initMem' = [initMem EXCEPT ![f] = o.b]
                  /\ hist' = hist \cup (IF initMem[f] = Nil THEN {} ELSE {"lostinit"})
      PROVE  IInv'
  <2>1. o.buf \in [Bufs -> BufRec] /\ Allocated(o, f, "init")
    BY <1>2, <1>3, BufAllocated DEF Places
  <2>2. o.b \in Bufs \cup {Nil} BY <2>1 DEF Allocated
  <2>3. initMem' \in [Files -> Bufs \cup {Nil}] /\ hist \subseteq hist' /\ hist' \subseteq hist \cup {"lostinit"}
    BY <1>3, <1>6, <2>2
  <2>4. Step(t) /\ Active' /\ MapsInv' BY <1>4, <1>6, <2>1, <2>3
  <2>5. o.b # Nil => buf'[o.b].fl = f /\ buf'[o.b].at = "init" /\ initMem'[f] = o.b
    BY <1>2, <1>3, <1>6, <2>1 DEF Allocated
  <2>6. "lostinit" \notin hist' /\ o.b # Nil => Placed(o.b)'
    BY <1>1, <1>2, <2>5 DEF Placed
  <2>7. "lostinit" \notin hist' => \A g \in Files : initMem[g] = Nil \/ initMem'[g] = initMem[g]
    BY <1>2, <1>3, <1>6
  <2>8. BufOwned' BY <1>1, <1>6, <2>1, <2>4, <2>6, <2>7, BufGot
  <2> QED BY <2>4, <2>8, Kept
<1> QED BY <1>1, <1>5, <1>6

\* INIT drops the mapping of the file.
LEMMA KeepsInitDone == ASSUME IInv, NEW t \in Threads, InitDone(t) PROVE IInv'
<1>1. /\ pc[t] = "initdsp" /\ Goto(t, "idle", NoLoc)
      /\ UNCHANGED <<ops, buf, initMem, sysVars, mapMutex, dsph, kept>>
      /\ map' = IF loc[t].m = Nil THEN map ELSE Drop(map, loc[t].m)
      /\ hist' = hist \cup DropFaults(loc[t].m)
  BY DEF InitDone, At, Done
<1>2. FileOf[t] \in open /\ loc[t] \in Loc BY <1>1, Running
<1>3. loc[t].m \in Maps \cup {Nil} /\ pc[t] \in HoldPcs BY <1>1, <1>2 DEF Loc, HoldPcs
<1>4. map' \in [Maps -> MapRec] /\ hist' \subseteq Faults /\ hist \subseteq hist'
  BY <1>1, <1>3, DropTyped DEF IInv, TypeOK, Faults
<1>5. RestTyped' /\ open' = open /\ initMem' = initMem /\ buf' = buf
  BY <1>1, <1>4 DEF IInv, TypeOK, RestTyped, sysVars
<1>6. Step(t) /\ Active' /\ loc'[t].m = Nil
  BY <1>1, <1>2, <1>4, <1>5, FreshLocal, Stepped DEF PCs
<1>7. MapsInv' BY <1>1, <1>3, <1>6, StepGivesUp
<1>8. BufOwned' BY <1>1, <1>5, <1>6, BufQuiet
<1> QED BY <1>6, <1>7, <1>8, Kept

\* The local of a thread that removes the heap.
LEMMA RemoverLocal ==
  ASSUME NEW w \in {"ssr", "pdr"}
  PROVE  LET r == [NoLoc EXCEPT !.why = w] IN r \in Loc /\ r.m = Nil /\ LocalOK("ssr", r)
<1> DEFINE r == [NoLoc EXCEPT !.why = w]
<1>1. r \in Loc BY FreshTyped, LocalTyped
<1>2. r.m = Nil /\ ~r.keep BY DEF NoLoc
<1> HIDE DEF r
<1>3. LocalOK("ssr", r) BY <1>2 DEF LocalOK
<1> QED BY <1>1, <1>2, <1>3 DEF r

\* INIT of the static process starts.
LEMMA KeepsInitStatic == ASSUME IInv, NEW t \in Threads, InitStatic(t) PROVE IInv'
<1>1. /\ UNCHANGED <<mmVars, open, mapMutex, dsph, kept, hist>> /\ staticpd' \in BOOLEAN
      /\ stale' \subseteq {"ssr", "pdr"}
  BY DEF InitStatic, IInv, TypeOK
<1>2. \/ Start(t, "static", "heapmap", NoLoc)
      \/ Start(t, "static", "ssr", [NoLoc EXCEPT !.why = "pdr"])
      \/ Start(t, "static", "idle", NoLoc)
  BY DEF InitStatic
<1>3. CASE Start(t, "static", "heapmap", NoLoc)
  BY <1>1, <1>3, FreshLocal, StepStarts DEF PCs, LocalOK
<1>4. CASE Start(t, "static", "ssr", [NoLoc EXCEPT !.why = "pdr"])
  <2> DEFINE r == [NoLoc EXCEPT !.why = "pdr"]
  <2>1. r \in Loc /\ r.m = Nil /\ LocalOK("ssr", r) BY RemoverLocal
  <2>2. Start(t, "static", "ssr", r) BY <1>4
  <2> HIDE DEF r
  <2> QED BY <1>1, <2>1, <2>2, StepStarts DEF PCs
<1>5. CASE Start(t, "static", "idle", NoLoc)
  BY <1>1, <1>5, FreshLocal, StepStarts DEF PCs
<1> QED BY <1>2, <1>3, <1>4, <1>5

\* The first static process maps a remote heap and hands it to the DSP.
LEMMA KeepsInitHeap == ASSUME IInv, NEW t \in Threads, InitHeap(t) PROVE IInv'
<1> DEFINE f == FileOf[t]
<1>1. /\ pc[t] = "heapmap" /\ UNCHANGED <<ops, buf, initMem, open, stale, mapMutex, dsph, kept, hist>>
      /\ \/ staticpd' = staticpd /\ map' = map /\ Goto(t, "statdsp", NoLoc)
         \/ \E o \in Create(f, Nil, 1, "rheap", FALSE), ok \in BOOLEAN :
              IF o.m # Nil /\ ok
              THEN /\ map' = [o.map EXCEPT ![o.m].prot = TRUE, ![o.m].urefs = 1]
                   /\ staticpd' = TRUE
                   /\ Goto(t, "statdsp", [NoLoc EXCEPT !.m = o.m])
              ELSE map' = map /\ staticpd' = FALSE /\ Goto(t, "idle", NoLoc)
  BY DEF InitHeap, At, Done
<1>2. f \in open /\ f \in Files /\ loc[t] \in Loc BY <1>1, Running
<1>3. loc[t].m = Nil BY <1>1 DEF IInv, LocalMap, HoldPcs, SolePcs
<1>4. staticpd' \in BOOLEAN
  <2>1. staticpd \in BOOLEAN BY DEF IInv, TypeOK
  <2> QED BY <1>1, <2>1
<1>5. RestTyped' /\ open' = open /\ buf' = buf /\ initMem' = initMem /\ hist' = hist
  BY <1>1, <1>4 DEF IInv, TypeOK, RestTyped
<1>6. map \in [Maps -> MapRec] BY DEF IInv, TypeOK
<1>7. ASSUME NEW l \in {"idle", "statdsp"}, map' = map, Goto(t, l, NoLoc) PROVE IInv'
  <2>1. LocalOK(l, NoLoc) /\ l \in PCs BY FreshLocal DEF LocalOK, PCs
  <2>2. Step(t) /\ Active' /\ loc'[t].m = Nil
    BY <1>2, <1>5, <1>6, <1>7, <2>1, FreshLocal, Stepped
  <2>3. MapsInv' BY <1>3, <1>5, <1>7, <2>2, StepQuiet DEF NoFault
  <2>4. BufOwned' BY <1>1, <1>5, <2>2, BufQuiet
  <2> QED BY <2>2, <2>3, <2>4, Kept
<1>8. ASSUME NEW o \in Create(f, Nil, 1, "rheap", FALSE), o.m # Nil,
             map' = [o.map EXCEPT ![o.m].prot = TRUE, ![o.m].urefs = 1],
             Goto(t, "statdsp", [NoLoc EXCEPT !.m = o.m])
      PROVE  IInv'
  <2> DEFINE r == [NoLoc EXCEPT !.m = o.m]
             s == [o.map[o.m] EXCEPT !.prot = TRUE, !.urefs = 1]
  <2>1. Find(f, Nil, 1, "rheap") = {} BY DEF Find, Heaps
  <2>2. o.map \in [Maps -> MapRec] /\ Fresh(o, f, Nil, 1, "rheap", FALSE)
    BY <1>2, <1>6, <1>8, <2>1, Created DEF Kinds, Heaps, Found, None
  <2>3. o.m \in Maps /\ ~map[o.m].used /\ o.map[o.m] \in MapRec BY <2>2 DEF Fresh
  <2>4. /\ s \in MapRec /\ Same(o.map[o.m], s)
        /\ Flags(s, o.map[o.m].listed, o.map[o.m].raddr, TRUE)
        /\ Counts(s, o.map[o.m].refs, o.map[o.m].keep, o.map[o.m].hrefs, 1)
    BY <2>3 DEF MapRec, Same, Flags, Counts
  <2>5. map' = [o.map EXCEPT ![o.m] = s] BY <1>8
  <2> HIDE DEF s
  <2>6. map' \in [Maps -> MapRec] /\ map'[o.m] = s /\ \A x \in Maps \ {o.m} : map'[x] = o.map[x]
    BY <2>2, <2>3, <2>4, <2>5, MapAssigned
  <2>7. r \in Loc /\ r.m = o.m /\ r.b = Nil /\ ~r.keep BY <2>3, FreshLocal
  <2>8. Goto(t, "statdsp", r) BY <1>8
  <2> HIDE DEF r
  <2>9. LocalOK("statdsp", r) /\ "statdsp" \in PCs BY <2>7 DEF LocalOK, PCs, SolePcs
  <2>10. Step(t) /\ Active' /\ pc'[t] = "statdsp" /\ loc'[t] = r
    BY <1>2, <1>5, <2>6, <2>7, <2>8, <2>9, Stepped
  <2>11. Others(map', o.m) /\ Filled(map'[o.m], f, 1, "rheap") /\ Flags(map'[o.m], TRUE, FALSE, TRUE)
    BY <2>2, <2>4, <2>6, Zenon DEF Fresh, Others, Filled, Same, Flags
  <2>12. Counts(map'[o.m], IF FALSE THEN 2 ELSE 1, FALSE, 0, 1)
    BY <2>2, <2>4, <2>6 DEF Fresh, Counts
  <2>13. loc'[t].m = o.m BY <2>7, <2>10
  <2>14. MapsInv'
    BY <1>3, <1>5, <2>3, <2>10, <2>11, <2>12, <2>13, StepMade DEF NoFault, Kinds, Heaps
  <2>15. BufOwned' BY <1>1, <1>5, <2>10, BufQuiet
  <2> QED BY <2>10, <2>14, <2>15, Kept
<1> QED BY <1>1, <1>7, <1>8

\* INIT of the static process ends, and takes the heap back on an error.
LEMMA KeepsInitStaticDone == ASSUME IInv, NEW t \in Threads, InitStaticDone(t) PROVE IInv'
<1> DEFINE m == loc[t].m
<1>1. /\ pc[t] = "statdsp" /\ Goto(t, "idle", NoLoc)
      /\ UNCHANGED <<ops, buf, initMem, open, stale, mapMutex, dsph, kept>>
      /\ staticpd' \in {FALSE, staticpd}
      /\ \/ UNCHANGED <<map, hist>>
         \/ /\ m # Nil /\ map' = Drop(map, m)
            /\ \E back \in BOOLEAN :
                 hist' = hist \cup (IF map[m].used THEN {} ELSE {"uaf"})
                              \cup (IF back THEN {} ELSE {"unverified", "heaplost"})
  BY DEF InitStaticDone, At, Done
<1>2. FileOf[t] \in open /\ loc[t] \in Loc BY <1>1, Running
<1>3. staticpd' \in BOOLEAN
  <2>1. staticpd \in BOOLEAN BY DEF IInv, TypeOK
  <2> QED BY <1>1, <2>1
<1>4. map \in [Maps -> MapRec] /\ hist \subseteq Faults BY DEF IInv, TypeOK
<1>5. ASSUME map' \in [Maps -> MapRec], hist' \subseteq Faults, hist \subseteq hist'
      PROVE  Step(t) /\ Active' /\ loc'[t].m = Nil /\ BufOwned'
  <2>1. RestTyped' /\ open' = open /\ buf' = buf /\ initMem' = initMem
    BY <1>1, <1>3, <1>5 DEF IInv, TypeOK, RestTyped
  <2>2. Step(t) /\ Active' /\ loc'[t].m = Nil
    BY <1>1, <1>2, <1>5, <2>1, FreshLocal, Stepped DEF PCs
  <2> QED BY <1>1, <2>1, <2>2, BufQuiet
<1>6. CASE UNCHANGED <<map, hist>>
  <2>1. Step(t) /\ Active' /\ loc'[t].m = Nil /\ BufOwned' BY <1>4, <1>5, <1>6
  <2>2. MapsInv' BY <1>1, <1>6, <2>1, StepQuiet DEF NoFault
  <2> QED BY <2>1, <2>2, Kept
<1>7. CASE /\ m # Nil /\ map' = Drop(map, m)
           /\ \E back \in BOOLEAN :
                hist' = hist \cup (IF map[m].used THEN {} ELSE {"uaf"})
                             \cup (IF back THEN {} ELSE {"unverified", "heaplost"})
  <2>1. m \in Maps BY <1>2, <1>7 DEF Loc
  <2>2. map' \in [Maps -> MapRec] BY <1>4, <1>7, <2>1, Dropped
  <2>3. /\ hist' \subseteq Faults /\ hist \subseteq hist'
        /\ "uaf" \in hist' => "uaf" \in hist \/ ~map[m].used
        /\ "heaplost" \in hist' => "heaplost" \in hist \/ "unverified" \in hist'
    BY <1>4, <1>7 DEF Faults
  <2>4. Step(t) /\ Active' /\ loc'[t].m = Nil /\ BufOwned' BY <1>5, <2>2, <2>3
  <2>5. MapsInv' BY <1>1, <1>7, <2>1, <2>3, <2>4, StepFreed
  <2> QED BY <2>4, <2>5, Kept
<1> QED BY <1>1, <1>6, <1>7

\* The first open after a restart removes the heap.
LEMMA KeepsChannelOpen == ASSUME IInv, NEW t \in Threads, ChannelOpen(t) PROVE IInv'
<1> DEFINE r == [NoLoc EXCEPT !.why = "ssr"]
<1>1. /\ UNCHANGED <<mmVars, open, mapMutex, dsph, kept, hist>> /\ staticpd' \in BOOLEAN
      /\ stale' \subseteq {"ssr", "pdr"} /\ Start(t, "open", "ssr", r)
  BY DEF ChannelOpen, IInv, TypeOK, sysVars
<1>2. r \in Loc /\ r.m = Nil /\ LocalOK("ssr", r) BY RemoverLocal
<1> HIDE DEF r
<1> QED BY <1>1, <1>2, StepStarts DEF PCs

\* The end of the removal.
LEMMA RemovedStep ==
  ASSUME IInv, NEW t \in Threads, pc[t] \in {"ssr", "ssrdsp"}, Removed(t),
         UNCHANGED <<ops, buf, initMem, open, mapMutex, dsph, kept>>,
         map' \in [Maps -> MapRec], hist' \subseteq Faults, hist \subseteq hist'
  PROVE  Step(t) /\ Active' /\ loc'[t].m = Nil /\ BufOwned'
<1>1. FileOf[t] \in open BY Running
<1>2. PICK l \in {"idle", "heapmap"} : Goto(t, l, NoLoc) BY DEF Removed, Done
<1>3. staticpd' \in BOOLEAN
  <2>1. staticpd \in BOOLEAN BY DEF IInv, TypeOK
  <2> QED BY <2>1 DEF Removed
<1>4. stale' \subseteq {"ssr", "pdr"} BY DEF Removed, IInv, TypeOK
<1>5. RestTyped' /\ open' = open /\ buf' = buf /\ initMem' = initMem
  BY <1>3, <1>4 DEF IInv, TypeOK, RestTyped
<1>6. LocalOK(l, NoLoc) /\ l \in PCs BY FreshLocal DEF LocalOK, PCs
<1>7. Step(t) /\ Active' /\ loc'[t].m = Nil
  BY <1>1, <1>2, <1>5, <1>6, FreshLocal, Stepped
<1> QED BY <1>5, <1>7, BufQuiet

\* fastrpc_mmap_remove_ssr unhooks a heap, or is done.
LEMMA KeepsRemoveSsr == ASSUME IInv, NEW t \in Threads, RemoveSsr(t) PROVE IInv'
<1>1. /\ pc[t] = "ssr" /\ UNCHANGED <<ops, buf, initMem, open, mapMutex, dsph, kept>>
      /\ \/ Removed(t) /\ UNCHANGED <<map, hist>>
         \/ \E m \in Maps :
              /\ map[m].listed /\ map[m].kind \in Heaps
              /\ map' = [map EXCEPT ![m].listed = FALSE]
              /\ hist' = hist \cup (IF Busy(m) THEN {"ssrtook"} ELSE {})
              /\ Goto(t, "ssrdsp", [loc[t] EXCEPT !.m = m])
              /\ UNCHANGED <<stale, staticpd>>
  BY DEF RemoveSsr, At
<1>2. FileOf[t] \in open /\ loc[t] \in Loc BY <1>1, Running
<1>3. loc[t].m = Nil BY <1>1 DEF IInv, LocalMap, HoldPcs, SolePcs
<1>4. map \in [Maps -> MapRec] /\ hist \subseteq Faults BY DEF IInv, TypeOK
<1>5. CASE Removed(t) /\ UNCHANGED <<map, hist>>
  <2>1. Step(t) /\ Active' /\ loc'[t].m = Nil /\ BufOwned' BY <1>1, <1>4, <1>5, RemovedStep
  <2>2. MapsInv' BY <1>3, <1>5, <2>1, StepQuiet DEF NoFault
  <2> QED BY <2>1, <2>2, Kept
<1>6. ASSUME NEW m \in Maps, map[m].listed, map[m].kind \in Heaps,
             map' = [map EXCEPT ![m].listed = FALSE],
             hist' = hist \cup (IF Busy(m) THEN {"ssrtook"} ELSE {}),
             Goto(t, "ssrdsp", [loc[t] EXCEPT !.m = m]), UNCHANGED <<stale, staticpd>>
      PROVE  IInv'
  <2> DEFINE r == [loc[t] EXCEPT !.m = m]
  <2>1. r \in Loc /\ r.m = m /\ r.keep = loc[t].keep /\ r.fd = loc[t].fd
    <3>1. r \in Loc BY <1>2, LocalTyped
    <3> QED BY <1>2, <3>1 DEF Loc
  <2>2. Goto(t, "ssrdsp", r) BY <1>6
  <2> HIDE DEF r
  <2>3. /\ map' \in [Maps -> MapRec] /\ Others(map', m) /\ Same(map[m], map'[m])
        /\ Flags(map'[m], FALSE, map[m].raddr, map[m].prot)
        /\ Counts(map'[m], map[m].refs, map[m].keep, map[m].hrefs, map[m].urefs)
    BY <1>6, ListedAssigned
  <2>4. hist' \subseteq Faults /\ hist \subseteq hist' /\ hist' \subseteq hist \cup {"ssrtook"}
        /\ (Busy(m) => "ssrtook" \in hist')
    BY <1>4, <1>6 DEF Faults
  <2>5. RestTyped' /\ open' = open /\ buf' = buf /\ initMem' = initMem
    BY <1>1, <1>6, <2>4 DEF IInv, TypeOK, RestTyped
  <2>6. LocalOK("ssrdsp", r) /\ "ssrdsp" \in PCs
    BY <2>1, MapsAssumption DEF LocalOK, PCs, SolePcs, MapsAssumption, IInv, LocalMap
  <2>7. Step(t) /\ Active' /\ pc'[t] = "ssrdsp" /\ loc'[t] = r
    BY <1>2, <2>1, <2>2, <2>3, <2>4, <2>5, <2>6, Stepped
  <2>8. loc'[t].m = m BY <2>1, <2>7
  <2>9. "ssrtook" \in hist' \/ ~Busy(m)
    BY <2>4
  <2>10. MapsInv' BY <1>3, <1>6, <2>3, <2>4, <2>7, <2>8, <2>9, StepUnhooked
  <2>11. BufOwned' BY <1>1, <2>5, <2>7, BufQuiet
  <2> QED BY <2>7, <2>10, <2>11, Kept
<1> QED BY <1>1, <1>5, <1>6

\* fastrpc_mmap_remove_ssr frees the heap, or puts it back.
LEMMA KeepsRemoveSsrDone == ASSUME IInv, NEW t \in Threads, RemoveSsrDone(t) PROVE IInv'
<1> DEFINE m == loc[t].m
<1>1. /\ pc[t] = "ssrdsp" /\ UNCHANGED <<ops, buf, initMem, open, mapMutex, dsph, kept>>
  BY DEF RemoveSsrDone, At
<1>2. PICK o \in UnmapOutcomes(m) :
        /\ hist' = hist \cup UnmapFaults(m, o)
        /\ IF o.err
           THEN map' = [map EXCEPT ![m].listed = TRUE] /\ Removed(t)
           ELSE /\ map' = Drop(map, m)
                /\ Goto(t, "ssr", [loc[t] EXCEPT !.m = Nil])
                /\ UNCHANGED <<stale, staticpd>>
  BY DEF RemoveSsrDone
<1>3. FileOf[t] \in open /\ loc[t] \in Loc BY <1>1, Running
<1>4. m \in Maps BY <1>1, <1>3 DEF IInv, LocalMap, Loc
<1>5. map \in [Maps -> MapRec] /\ hist \subseteq Faults BY DEF IInv, TypeOK
<1>6. /\ UnmapFaults(m, o) \subseteq {"uaf", "heaplost", "shadowed"}
      /\ "uaf" \in UnmapFaults(m, o) => ~map[m].used
      /\ "heaplost" \in UnmapFaults(m, o) => "shadowed" \in UnmapFaults(m, o)
      /\ o.err => UnmapFaults(m, o) \subseteq (IF map[m].used THEN {} ELSE {"uaf"})
  BY <1>4, UnmapTyped
<1>7. hist' \subseteq Faults /\ hist \subseteq hist' BY <1>2, <1>5, <1>6 DEF Faults
<1>8. CASE o.err
  <2>1. map' = [map EXCEPT ![m].listed = TRUE] /\ Removed(t) BY <1>2, <1>8
  <2>2. /\ map' \in [Maps -> MapRec] /\ Others(map', m) /\ Same(map[m], map'[m])
        /\ Flags(map'[m], TRUE, map[m].raddr, map[m].prot)
        /\ Counts(map'[m], map[m].refs, map[m].keep, map[m].hrefs, map[m].urefs)
    BY <1>4, <2>1, ListedAssigned
  <2>3. Step(t) /\ Active' /\ loc'[t].m = Nil /\ BufOwned'
    BY <1>1, <1>7, <2>1, <2>2, RemovedStep
  <2>4. hist' \subseteq hist \cup (IF map[m].used THEN {} ELSE {"uaf"}) BY <1>2, <1>6, <1>8
  <2>5. MapsInv' BY <1>1, <1>4, <2>2, <2>3, <2>4, StepRelisted
  <2> QED BY <2>3, <2>5, Kept
<1>9. CASE ~o.err
  <2> DEFINE r == [loc[t] EXCEPT !.m = Nil]
  <2>1. map' = Drop(map, m) /\ Goto(t, "ssr", r) /\ UNCHANGED <<stale, staticpd>> BY <1>2, <1>9
  <2>2. r \in Loc /\ r.m = Nil /\ r.keep = loc[t].keep /\ r.fd = loc[t].fd
    <3>1. r \in Loc BY <1>3, LocalTyped
    <3> QED BY <1>3, <3>1 DEF Loc
  <2> HIDE DEF r
  <2>3. map' \in [Maps -> MapRec] BY <1>4, <1>5, <2>1, Dropped
  <2>4. RestTyped' /\ open' = open /\ buf' = buf /\ initMem' = initMem
    BY <1>1, <1>7, <2>1 DEF IInv, TypeOK, RestTyped
  <2>5. LocalOK("ssr", r) /\ "ssr" \in PCs BY <2>2 DEF LocalOK, PCs, IInv, LocalMap
  <2>6. Step(t) /\ Active' /\ pc'[t] = "ssr" /\ loc'[t] = r
    BY <1>3, <1>7, <2>1, <2>2, <2>3, <2>4, <2>5, Stepped
  <2>7. loc'[t].m = Nil BY <2>2, <2>6
  <2>8. MapsInv' BY <1>1, <1>2, <1>4, <1>6, <2>1, <2>6, <2>7, StepFreed
  <2>9. BufOwned' BY <1>1, <2>4, <2>6, BufQuiet
  <2> QED BY <2>6, <2>8, <2>9, Kept
<1> QED BY <1>8, <1>9

-----------------------------------------------------------------------------
(* Steps of no thread *)

\* fastrpc_file_free frees what is on the lists of the file.
LEMMA KeepsFileFree == ASSUME IInv, NEW f \in Files, FileFree(f) PROVE IInv'
<1>1. /\ \A t \in Threads : FileOf[t] = f => pc[t] = "idle"
      /\ open' = open \ {f}
      /\ UNCHANGED <<pc, loc, staticpd, stale, mapMutex, ops, hist>>
      /\ map' = [m \in Maps |-> IF m \in OnLists(f) THEN NoMap ELSE map[m]]
      /\ buf' = [b \in Bufs |-> IF b \in FileBufs(f) THEN NoBuf ELSE buf[b]]
      /\ initMem' = [initMem EXCEPT ![f] = Nil]
      /\ dsph' = [x \in Files \X Fds |-> IF x[1] = f THEN 0 ELSE dsph[x]]
      /\ kept' = {x \in kept : x[1] # f}
  BY DEF FileFree
<1>2. map' \in [Maps -> MapRec] /\ buf' \in [Bufs -> BufRec]
  BY <1>1, FreshTyped DEF IInv, TypeOK
<1>3. initMem' \in [Files -> Bufs \cup {Nil}] /\ dsph' \in [Files \X Fds -> Nat]
      /\ kept' \subseteq Files \X Fds /\ open' \subseteq Files
  BY <1>1 DEF IInv, TypeOK
<1>4. TypeOK' BY <1>1, <1>2, <1>3 DEF IInv, TypeOK
<1>5. LocalMap' BY <1>1 DEF IInv, LocalMap
<1>6. Active' BY <1>1 DEF IInv, Active
<1>7. BufOwned'
  <2> SUFFICES ASSUME "lostinit" \notin hist, NEW b \in Bufs PROVE Placed(b)'
    BY <1>1 DEF BufOwned
  <2>1. Placed(b) BY DEF IInv, BufOwned
  <2>2. CASE b \in FileBufs(f) BY <1>1, <2>2 DEF Placed, NoBuf
  <2>3. CASE b \notin FileBufs(f)
    <3>1. buf'[b] = buf[b] BY <1>1, <2>3
    <3>2. buf[b].fl = f => ~(buf[b].at \in {"cached", "remote"} \/ b = initMem[f])
      BY <2>3 DEF FileBufs
    <3>3. \A t \in Threads : InContext(t, b) => FileOf[t] # f BY <1>1 DEF InContext
    <3>4. \A t \in Threads : InContext(t, b) => InContext(t, b)' BY <1>1 DEF InContext
    <3>5. f # Nil BY MapsAssumption DEF MapsAssumption
    <3>6. buf[b].fl # Nil => buf[b].fl # f BY <2>1, <3>2, <3>3 DEF Placed
    <3>7. buf[b].fl # Nil => initMem'[buf[b].fl] = initMem[buf[b].fl]
      <4>1. buf[b].fl \in Files \cup {Nil} BY DEF IInv, TypeOK, BufRec
      <4> QED BY <1>1, <3>6, <4>1 DEF IInv, TypeOK
    <3> QED BY <1>1, <2>1, <3>1, <3>4, <3>6, <3>7 DEF Placed
  <2> QED BY <2>2, <2>3
<1>8. MapsInv' BY FileFreeMaps
<1> QED BY <1>4, <1>5, <1>6, <1>7, <1>8 DEF IInv, MapsInv

\* A restart and a stuttering step leave alone what IInv is about.
LEMMA Unmoved ==
  ASSUME IInv, UNCHANGED <<pc, loc, map, buf, initMem, open, hist>>, TypeOK'
  PROVE  IInv'
<1>1. Active' /\ LocalMap' BY DEF IInv, Active, LocalMap
<1>2. Shape' BY DEF IInv, Shape, ShapeOf
<1>3. Referred' BY DEF IInv, Referred, ReferredBy, Clean
<1>4. Exclusive' BY DEF IInv, Exclusive, WorksOn, Clean
<1>5. Owned' BY DEF IInv, Owned, OwnersOf, Clean
<1>6. \A m \in Maps : Holders(m)' = Holders(m) BY DEF Holders
<1>7. \A m \in Maps : (Known(m)' <=> Known(m)) /\ (Exact(m)' <=> Exact(m)) BY <1>6 DEF Known, Exact
<1>8. Counted' BY <1>6, <1>7 DEF IInv, Counted, Clean
<1>9. OnFile' BY DEF IInv, OnFile, FiledUnder
<1>10. BufOwned' BY DEF IInv, BufOwned, Placed, InContext
<1>11. NoUseAfterFree' /\ HeapReturned' BY DEF IInv, NoUseAfterFree, HeapReturned
<1> QED BY <1>1, <1>2, <1>3, <1>4, <1>5, <1>8, <1>9, <1>10, <1>11 DEF IInv

\* A restart only marks the heap as stale.
LEMMA KeepsRestart == ASSUME IInv, Restart PROVE IInv'
<1>1. /\ UNCHANGED <<pc, loc, mmVars, mapMutex, open, dsph, kept, hist>>
      /\ ops' = [ops EXCEPT !.restart = @ + 1] /\ staticpd' = FALSE
      /\ stale' \subseteq {"ssr", "pdr"}
  BY DEF Restart, IInv, TypeOK
<1>2. ops' \in [user : Nat, restart : Nat] BY <1>1 DEF IInv, TypeOK
<1>3. staticpd' \in BOOLEAN BY <1>1
<1>4. TypeOK' BY <1>1, <1>2, <1>3 DEF IInv, TypeOK, mmVars
<1> QED BY <1>1, <1>4, Unmoved DEF mmVars

-----------------------------------------------------------------------------
(* Theorems *)

\* Nothing is mapped or allocated when the module is loaded.
LEMMA InitIInv == Init => IInv
<1> SUFFICES ASSUME Init PROVE IInv OBVIOUS
<1>1. /\ \A t \in Threads : pc[t] = "idle" /\ loc[t] = NoLoc
      /\ \A m \in Maps : map[m] = NoMap
      /\ \A b \in Bufs : buf[b] = NoBuf
      /\ hist = {}
  BY DEF Init
<1>2. TypeOK
  <2>1. staticpd \in BOOLEAN BY DEF Init
  <2>2. ops \in [user : Nat, restart : Nat] /\ dsph \in [Files \X Fds -> Nat]
        /\ initMem \in [Files -> Bufs \cup {Nil}] /\ mapMutex \in [Files -> Threads \cup {Nil}]
    BY DEF Init
  <2>3. pc \in [Threads -> PCs] /\ loc \in [Threads -> Loc] /\ map \in [Maps -> MapRec]
        /\ buf \in [Bufs -> BufRec]
    BY FreshTyped DEF Init, PCs
  <2> QED BY <2>1, <2>2, <2>3 DEF Init, TypeOK
<1>3. /\ NoMap.used = FALSE /\ NoMap.kind = "buf" /\ NoMap.fl = Nil /\ NoMap.prot = FALSE
      /\ NoMap.listed = FALSE /\ NoMap.raddr = FALSE /\ NoBuf.fl = Nil
  BY DEF NoMap, NoBuf
<1>4. NoLoc.m = Nil /\ NoLoc.keep = FALSE BY DEF NoLoc
<1>5. Nil \notin Maps BY MapsAssumption DEF MapsAssumption
<1>6. Active /\ LocalMap BY <1>1, <1>4 DEF Active, LocalMap, HoldPcs, SolePcs
<1>7. Shape BY <1>1, <1>3 DEF Shape, ShapeOf, Heaps
<1>8. Referred BY <1>1, <1>4 DEF Referred
<1>9. Exclusive BY <1>1, <1>4, <1>5 DEF Exclusive, WorksOn
<1>10. Owned BY <1>1, <1>3 DEF Owned, OwnersOf
<1>11. \A m \in Maps : Holders(m) = {} /\ ~Known(m)
  BY <1>1, <1>3, <1>4, <1>5 DEF Holders, Known
<1>12. Counted BY <1>11, FS_EmptySet DEF Counted
<1>13. OnFile /\ BufOwned BY <1>1, <1>3 DEF OnFile, FiledUnder, BufOwned, Placed
<1>14. NoUseAfterFree /\ HeapReturned BY <1>1 DEF NoUseAfterFree, HeapReturned
<1> QED BY <1>2, <1>6, <1>7, <1>8, <1>9, <1>10, <1>12, <1>13, <1>14 DEF IInv

\* Every step keeps the invariant.
LEMMA NextIInv == IInv /\ [Next]_vars => IInv'
<1> SUFFICES ASSUME IInv, [Next]_vars PROVE IInv' OBVIOUS
<1>1. ASSUME NEW t \in Threads, Invoke(t) PROVE IInv' BY <1>1, KeepsInvoke
<1>2. ASSUME NEW t \in Threads, MapBufs(t) PROVE IInv' BY <1>2, KeepsMapBufs
<1>3. ASSUME NEW t \in Threads, MapHandles(t) PROVE IInv' BY <1>3, KeepsMapHandles
<1>4. ASSUME NEW t \in Threads, AllocArgs(t) PROVE IInv' BY <1>4, KeepsAllocArgs
<1>5. ASSUME NEW t \in Threads, CallFails(t) PROVE IInv' BY <1>5, KeepsCallFails
<1>6. ASSUME NEW t \in Threads, DspRuns(t) PROVE IInv' BY <1>6, KeepsDspRuns
<1>7. ASSUME NEW t \in Threads, PutOutBufs(t) PROVE IInv' BY <1>7, KeepsPutOutBufs
<1>8. ASSUME NEW t \in Threads, PutFdlist(t) PROVE IInv' BY <1>8, KeepsPutFdlist
<1>9. ASSUME NEW t \in Threads, ContextFree(t) PROVE IInv' BY <1>9, KeepsContextFree
<1>10. ASSUME NEW t \in Threads, InternalMmap(t) PROVE IInv' BY <1>10, KeepsInternalMmap
<1>11. ASSUME NEW t \in Threads, AddPages(t) PROVE IInv' BY <1>11, KeepsAddPages
<1>12. ASSUME NEW t \in Threads, MmapOnDsp(t) PROVE IInv' BY <1>12, KeepsMmapOnDsp
<1>13. ASSUME NEW t \in Threads, InternalMunmap(t) PROVE IInv' BY <1>13, KeepsInternalMunmap
<1>14. ASSUME NEW t \in Threads, MunmapPages(t) PROVE IInv' BY <1>14, KeepsMunmapPages
<1>15. ASSUME NEW t \in Threads, MunmapOnDsp(t) PROVE IInv' BY <1>15, KeepsMunmapOnDsp
<1>16. ASSUME NEW t \in Threads, MunmapFd(t) PROVE IInv' BY <1>16, KeepsMunmapFd
<1>17. ASSUME NEW t \in Threads, InitCreate(t) PROVE IInv' BY <1>17, KeepsInitCreate
<1>18. ASSUME NEW t \in Threads, InitFile(t) PROVE IInv' BY <1>18, KeepsInitFile
<1>19. ASSUME NEW t \in Threads, InitMem(t) PROVE IInv' BY <1>19, KeepsInitMem
<1>20. ASSUME NEW t \in Threads, InitDone(t) PROVE IInv' BY <1>20, KeepsInitDone
<1>21. ASSUME NEW t \in Threads, InitStatic(t) PROVE IInv' BY <1>21, KeepsInitStatic
<1>22. ASSUME NEW t \in Threads, InitHeap(t) PROVE IInv' BY <1>22, KeepsInitHeap
<1>23. ASSUME NEW t \in Threads, InitStaticDone(t) PROVE IInv' BY <1>23, KeepsInitStaticDone
<1>24. ASSUME NEW t \in Threads, ChannelOpen(t) PROVE IInv' BY <1>24, KeepsChannelOpen
<1>25. ASSUME NEW t \in Threads, RemoveSsr(t) PROVE IInv' BY <1>25, KeepsRemoveSsr
<1>26. ASSUME NEW t \in Threads, RemoveSsrDone(t) PROVE IInv' BY <1>26, KeepsRemoveSsrDone
<1>27. ASSUME NEW f \in Files, FileFree(f) PROVE IInv' BY <1>27, KeepsFileFree
<1>28. CASE Restart BY <1>28, KeepsRestart
<1>29. CASE UNCHANGED vars
  <2>1. TypeOK' BY <1>29 DEF IInv, TypeOK, vars
  <2> QED BY <1>29, <2>1, Unmoved DEF vars
<1> QED
  BY <1>1, <1>2, <1>3, <1>4, <1>5, <1>6, <1>7, <1>8, <1>9, <1>10, <1>11, <1>12, <1>13, <1>14,
     <1>15, <1>16, <1>17, <1>18, <1>19, <1>20, <1>21, <1>22, <1>23, <1>24, <1>25, <1>26, <1>27,
     <1>28, <1>29
  DEF Next

\* The invariant of mappings and buffers holds in every reachable state.
THEOREM Inductive == Spec => []IInv
BY InitIInv, NextIInv, PTL DEF Spec

\* The count of every mapping that somebody can still reach is the number of its owners:
\* calls and INITs under way, handles, the persistent reference and the MMAPs, as long as
\* no MUNMAP_FD, restart or MUNMAP has taken a mapping from its owner.
THEOREM RefsExactHolds == Spec => []RefsExact
<1>1. IInv => RefsExact
  <2> SUFFICES ASSUME IInv, Clean, NEW m \in Maps, map[m].used, map[m].listed \/ Holders(m) # {}
               PROVE  Exact(m)
    BY DEF RefsExact, Clean, Exact
  <2>1. Known(m) BY DEF Known, Holders
  <2> QED BY <2>1 DEF IInv, Counted
<1> QED BY <1>1, Inductive, PTL

\* No step uses a mapping after fastrpc_mmap_free has freed it, but for what a MUNMAP_FD
\* steals and a restart or a MUNMAP takes.
THEOREM NoUseAfterFreeHolds == Spec => []NoUseAfterFree
<1>1. IInv => NoUseAfterFree BY DEF IInv
<1> QED BY <1>1, Inductive, PTL

\* The memory of a remote heap goes back to the system only when the DSP has lost it, with
\* the named exceptions.
THEOREM HeapReturnedHolds == Spec => []HeapReturned
<1>1. IInv => HeapReturned BY DEF IInv
<1> QED BY <1>1, Inductive, PTL

\* fastrpc_file_free leaves no mapping and no buffer of the file behind, with the two
\* named leaks.
THEOREM CloseFreesAllHolds == Spec => []CloseFreesAll
<1>1. IInv => CloseFreesAll
  <2> SUFFICES ASSUME IInv, NEW f \in Files \ open
               PROVE  /\ "lostmap" \notin hist => \A m \in Maps : map[m].fl # f
                      /\ "lostinit" \notin hist => \A b \in Bufs : buf[b].fl # f
    BY DEF CloseFreesAll
  <2>1. f # Nil BY MapsAssumption DEF MapsAssumption
  <2>2. "lostmap" \notin hist => \A m \in Maps : map[m].fl # f
    BY <2>1 DEF IInv, OnFile, FiledUnder
  <2>3. "lostinit" \notin hist => \A b \in Bufs : buf[b].fl # f
    BY <2>1 DEF IInv, BufOwned, Placed
  <2> QED BY <2>2, <2>3
<1> QED BY <1>1, Inductive, PTL

=============================================================================
