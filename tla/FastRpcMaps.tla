----------------------------- MODULE FastRpcMaps -----------------------------
(***************************************************************************)
(* The memory of the FastRPC driver (android/adsprpc.c): reference-counted *)
(* mappings (struct fastrpc_mmap), the buffers of a file                   *)
(* (struct fastrpc_buf), and the operations that take and give them back:  *)
(* the arguments of a call, MMAP, MUNMAP, MUNMAP_FD, INIT, the unmapping   *)
(* of the remote heap after a restart, and the close of a file.            *)
(*                                                                         *)
(* A step is a stretch under fl_map_mutex, me->hlock or fl->hlock, or the  *)
(* return of a call to the DSP with the private code that follows it. A    *)
(* call to the DSP is one step that succeeds or fails (its inside is       *)
(* FastRpcInvoke). Importing, attaching, mapping and assigning a DMA       *)
(* buffer is one step that succeeds or fails; secure sessions are in       *)
(* FastRpcSession. Lists are sets: no property depends on their order.     *)
(***************************************************************************)
EXTENDS Integers, FiniteSets

CONSTANTS
  Threads,   \* user threads
  Files,     \* struct fastrpc_file
  FileOf,    \* the file a thread uses
  Fds,       \* DMA buffers user space passes; each at one virtual address
  Maps,      \* addresses kzalloc can return for a fastrpc_mmap
  Bufs,      \* ... and for a fastrpc_buf
  Ops,       \* the operations users perform
  Nil,       \* the NULL pointer
  MaxOps,    \* bound: operations started
  MaxRestart \* bound: restarts of the DSP or of its audio PD

OpNames == {"invoke", "mmap", "pages", "heap", "rheap", "munmap", "munmap_fd",
            "create", "static", "open", "close"}

ASSUME MapsAssumption ==
  /\ FileOf \in [Threads -> Files]
  /\ Nil \notin Maps \cup Bufs \cup Fds \cup Files
  /\ Ops \subseteq OpNames
  /\ MaxOps \in Nat /\ MaxRestart \in Nat

VARIABLES
  pc,        \* the stretch a thread comes to next
  loc,       \* its locals
  map,       \* the mappings
  buf,       \* the buffers
  initMem,   \* fl->init_mem
  mapMutex,  \* owner of fl->map_mutex
  open,      \* files that are open
  staticpd,  \* me->staticpd_flags
  stale,     \* restarts whose remote heap is still to be removed
  dsph,      \* handles the DSP holds, by file and fd
  kept,      \* persistent mappings user space believes to have
  ops,       \* operations and restarts so far
  hist       \* what went wrong

vars == <<pc, loc, map, buf, initMem, mapMutex, open, staticpd, stale, dsph,
          kept, ops, hist>>

Heaps == {"heap", "rheap"}
Kinds == {"buf"} \cup Heaps

\* struct fastrpc_mmap. va is 0 for a handle and 1 for a buffer; raddr and prot
\* say that the DSP has mapped it and that its memory was handed to the DSP.
\* keep, hrefs and urefs count the references of KEEP_MAP, of handles and of
\* MMAP; the code only has their sum, refs.
MapRec == [used : BOOLEAN, kind : Kinds, fl : Files \cup {Nil}, fd : Fds \cup {Nil},
           va : {0, 1}, refs : Nat, listed : BOOLEAN, raddr : BOOLEAN,
           prot : BOOLEAN, keep : BOOLEAN, hrefs : Nat, urefs : Nat]
NoMap == [used |-> FALSE, kind |-> "buf", fl |-> Nil, fd |-> Nil, va |-> 0,
          refs |-> 0, listed |-> FALSE, raddr |-> FALSE, prot |-> FALSE,
          keep |-> FALSE, hrefs |-> 0, urefs |-> 0]

\* struct fastrpc_buf: the list it is on, or who holds it.
Places == {"none", "cached", "ctx", "init", "remote"}
BufRec == [at : Places, fl : Files \cup {Nil}, size : 0 .. 2, raddr : BOOLEAN]
NoBuf == [at |-> "none", fl |-> Nil, size |-> 0, raddr |-> FALSE]

Loc == [fd : Fds \cup {Nil}, hfd : Fds \cup {Nil}, out : BOOLEAN, keep : BOOLEAN,
        rel : SUBSET Fds, m : Maps \cup {Nil},
        b : Bufs \cup {Nil}, lb : Bufs \cup {Nil}, found : BOOLEAN,
        why : {Nil, "ssr", "pdr"}]
NoLoc == [fd |-> Nil, hfd |-> Nil, out |-> FALSE, keep |-> FALSE,
          rel |-> {}, m |-> Nil, b |-> Nil, lb |-> Nil,
          found |-> FALSE, why |-> Nil]

PCs == {"idle", "bufs", "handles", "lbuf", "cbuf", "dsp", "put", "fdlist",
        "ctxfree", "mmapdsp", "mundsp", "file", "imem", "initdsp",
        "heapmap", "statdsp", "ssr", "ssrdsp"}
Faults == {"uaf", "stolen", "ssrtook", "taken", "lostmap", "lostinit", "shadowed",
           "unverified", "heaplost"}

TypeOK ==
  /\ pc \in [Threads -> PCs]
  /\ loc \in [Threads -> Loc]
  /\ map \in [Maps -> MapRec]
  /\ buf \in [Bufs -> BufRec]
  /\ initMem \in [Files -> Bufs \cup {Nil}]
  /\ mapMutex \in [Files -> Threads \cup {Nil}]
  /\ open \subseteq Files
  /\ staticpd \in BOOLEAN
  /\ stale \subseteq {"ssr", "pdr"}
  /\ dsph \in [Files \X Fds -> Nat]
  /\ kept \subseteq Files \X Fds
  /\ ops \in [user : Nat, restart : Nat]
  /\ hist \subseteq Faults

Init ==
  /\ pc = [t \in Threads |-> "idle"]
  /\ loc = [t \in Threads |-> NoLoc]
  /\ map = [m \in Maps |-> NoMap]
  /\ buf = [b \in Bufs |-> NoBuf]
  /\ initMem = [f \in Files |-> Nil]
  /\ mapMutex = [f \in Files |-> Nil]
  /\ open = Files
  /\ staticpd = FALSE
  /\ stale = {}
  /\ dsph = [x \in Files \X Fds |-> 0]
  /\ kept = {}
  /\ ops = [user |-> 0, restart |-> 0]
  /\ hist = {}

-----------------------------------------------------------------------------
(***************************************************************************)
(* Mappings.                                                               *)
(***************************************************************************)

\* fastrpc_mmap_find. A handle is looked up with va = 0 and len = 0, which no
\* buffer contains; a remote heap has a kernel address, which no user passes.
Find(f, fd, va, kind) ==
  IF kind \in Heaps THEN {}
  ELSE {m \in Maps : /\ map[m].listed /\ map[m].kind \notin Heaps
                     /\ map[m].fl = f /\ map[m].fd = fd /\ map[m].va = va}

\* Mutant of Share: the reference is not taken.
ShareUncounted(m) == map

\* The reference fastrpc_mmap_find takes on a mapping it returns.
Share(m) == [map EXCEPT ![m].refs = @ + 1]

\* Mutant of Drop: the count is not looked at.
DropAlways(mm, m) == [mm EXCEPT ![m] = NoMap]

\* fastrpc_mmap_free on the mappings mm.
Drop(mm, m) ==
  IF mm[m].refs > 1 THEN [mm EXCEPT ![m].refs = @ - 1]
  ELSE [mm EXCEPT ![m] = NoMap]

\* What a fastrpc_mmap_free of m, if there is one, adds to hist: the mapping was
\* freed before, or its memory goes back to the system while the DSP has it.
DropFaults(m) ==
  IF m = Nil THEN {}
  ELSE (IF map[m].used THEN {} ELSE {"uaf"})
       \cup (IF map[m].prot /\ map[m].refs = 1 THEN {"heaplost"} ELSE {})

\* The mapping fastrpc_mmap_create makes; a persistent one has two references.
NewMap(f, fd, va, kind, keep) ==
  [NoMap EXCEPT !.used = TRUE, !.kind = kind, !.fd = fd, !.va = va,
                !.fl = IF kind \in Heaps THEN Nil ELSE f,
                !.refs = IF keep THEN 2 ELSE 1, !.keep = keep, !.listed = TRUE]

\* fastrpc_mmap_create fails at the import, the session, the attachment, the SMMU or
\* the hypervisor: the error path drops one reference. A persistent mapping has two:
\* it stays allocated and nobody knows it.
CreateFails(m, rec) ==
  IF rec.keep
  THEN [m |-> Nil, lost |-> {"lostmap"},
        map |-> [map EXCEPT ![m] = [rec EXCEPT !.refs = 1, !.keep = FALSE, !.listed = FALSE]]]
  ELSE [m |-> Nil, lost |-> {}, map |-> map]

\* fastrpc_mmap_create: the possible results, the mapping and the new mappings.
Create(f, fd, va, kind, keep) ==
  LET found == Find(f, fd, va, kind)
      fresh == {m \in Maps : ~ map[m].used}
      rec   == NewMap(f, fd, va, kind, keep)
  IN IF found # {}
     THEN {[m |-> m, map |-> Share(m), lost |-> {}] : m \in found}
     ELSE (UNION {{[m |-> m, map |-> [map EXCEPT ![m] = rec], lost |-> {}],
                   CreateFails(m, rec)} : m \in fresh})
          \cup {[m |-> Nil, map |-> map, lost |-> {}]}

(***************************************************************************)
(* Buffers.                                                                *)
(***************************************************************************)

Cached(f) == {b \in Bufs : buf[b].at = "cached" /\ buf[b].fl = f}

\* fastrpc_buf_alloc: the smallest cached buffer that fits, or a new one; when
\* memory is short the cache is emptied first, and that may not be enough.
BufAlloc(f, size, at) ==
  LET fits  == {b \in Cached(f) : buf[b].size >= size}
      small == {b \in fits : \A c \in fits : buf[b].size <= buf[c].size}
      new   == [NoBuf EXCEPT !.at = at, !.fl = f, !.size = size]
      flush == [b \in Bufs |-> IF b \in Cached(f) THEN NoBuf ELSE buf[b]]
      Into(bb) == {[b |-> b, buf |-> [bb EXCEPT ![b] = new]] :
                      b \in {x \in Bufs : bb[x].at = "none"}}
  IN IF at # "remote" /\ small # {}
     THEN {[b |-> b, buf |-> [buf EXCEPT ![b].at = at]] : b \in small}
     ELSE Into(buf) \cup Into(flush) \cup {[b |-> Nil, buf |-> flush]}

\* fastrpc_buf_free with cache = 1, of the buffers in bs that exist.
BufCache(bs) == [b \in Bufs |-> IF b \in bs THEN [buf[b] EXCEPT !.at = "cached"] ELSE buf[b]]

-----------------------------------------------------------------------------
mmVars  == <<map, buf, initMem>>
sysVars == <<open, staticpd, stale>>

Goto(t, l, r) ==
  /\ pc' = [pc EXCEPT ![t] = l]
  /\ loc' = [loc EXCEPT ![t] = r]

\* Thread t starts an operation of its file.
Start(t, op, l, r) ==
  /\ pc[t] = "idle" /\ FileOf[t] \in open
  /\ op \in Ops
  /\ ops.user < MaxOps
  /\ ops' = [ops EXCEPT !.user = @ + 1]
  /\ Goto(t, l, r)

At(t, l) == pc[t] = l /\ UNCHANGED ops
Done(t) == Goto(t, "idle", NoLoc)

(***************************************************************************)
(* The arguments of a call: at most one buffer and one handle.             *)
(***************************************************************************)

Invoke(t) ==
  \E fd, hfd \in Fds \cup {Nil}, out, keep \in BOOLEAN :
    /\ fd = Nil => ~ out /\ ~ keep
    /\ Start(t, "invoke", "bufs",
             [NoLoc EXCEPT !.fd = fd, !.hfd = hfd, !.out = out, !.keep = keep])
    /\ UNCHANGED <<mmVars, sysVars, mapMutex, dsph, kept, hist>>

\* The first loop of get_args; the error of fastrpc_mmap_create is ignored, the
\* buffer is then copied.
MapBufs(t) ==
  /\ At(t, "bufs")
  /\ \/ /\ loc[t].fd = Nil
        /\ Goto(t, "handles", loc[t])
        /\ UNCHANGED <<map, hist>>
     \/ /\ loc[t].fd # Nil
        /\ \E o \in Create(FileOf[t], loc[t].fd, 1, "buf", loc[t].keep) :
             /\ map' = o.map
             /\ hist' = hist \cup o.lost
             /\ Goto(t, "handles", [loc[t] EXCEPT !.m = o.m])
  /\ UNCHANGED <<buf, initMem, sysVars, mapMutex, dsph, kept>>

\* The second loop of get_args.
MapHandles(t) ==
  /\ At(t, "handles")
  /\ \/ /\ loc[t].hfd = Nil
        /\ Goto(t, "lbuf", loc[t])
        /\ UNCHANGED map
     \/ /\ loc[t].hfd # Nil
        /\ \E o \in Create(FileOf[t], loc[t].hfd, 0, "buf", FALSE) :
             IF o.m = Nil
             THEN map' = o.map /\ Goto(t, "ctxfree", loc[t])
             ELSE /\ map' = [o.map EXCEPT ![o.m].hrefs = @ + 1]
                  /\ Goto(t, "lbuf", loc[t])
  /\ UNCHANGED <<buf, initMem, sysVars, mapMutex, dsph, kept, hist>>

\* ctx->lbuf and ctx->buf. A call without arguments has neither.
AllocArgs(t) ==
  /\ \/ /\ At(t, "lbuf")
        /\ loc[t].fd # Nil \/ loc[t].hfd # Nil
        /\ \E o \in BufAlloc(FileOf[t], 1, "ctx") :
             /\ buf' = o.buf
             /\ Goto(t, IF o.b = Nil THEN "ctxfree" ELSE "cbuf",
                     [loc[t] EXCEPT !.lb = o.b])
     \/ /\ At(t, "lbuf")
        /\ loc[t].fd = Nil /\ loc[t].hfd = Nil
        /\ Goto(t, "dsp", loc[t])
        /\ UNCHANGED buf
     \/ /\ At(t, "cbuf")
        /\ \E size \in {1, 2} : \E o \in BufAlloc(FileOf[t], size, "ctx") :
             /\ buf' = o.buf
             /\ Goto(t, IF o.b = Nil THEN "ctxfree" ELSE "dsp",
                     [loc[t] EXCEPT !.b = o.b])
  /\ UNCHANGED <<map, initMem, sysVars, mapMutex, dsph, kept, hist>>

\* The call fails before the DSP has seen it.
CallFails(t) ==
  /\ At(t, "dsp")
  /\ Goto(t, "ctxfree", loc[t])
  /\ UNCHANGED <<mmVars, sysVars, mapMutex, dsph, kept, hist>>

\* The DSP receives the call with its handle, and either dies or answers, with a
\* list of handles it needs no longer.
DspRuns(t) ==
  /\ At(t, "dsp")
  /\ LET f == FileOf[t]
         got == IF loc[t].hfd = Nil THEN dsph
                ELSE [dsph EXCEPT ![<<f, loc[t].hfd>>] = @ + 1]
     IN \/ /\ dsph' = got
           /\ Goto(t, "ctxfree", loc[t])
        \/ \E rel \in SUBSET {fd \in Fds : got[<<f, fd>>] > 0} :
             /\ loc[t].fd = Nil /\ loc[t].hfd = Nil => rel = {}
             /\ dsph' = [x \in Files \X Fds |->
                           IF x[1] = f /\ x[2] \in rel THEN got[x] - 1 ELSE got[x]]
             /\ Goto(t, "put", [loc[t] EXCEPT !.rel = rel])
  /\ UNCHANGED <<mmVars, sysVars, mapMutex, kept, hist>>

\* The loop over output buffers in put_args: a mapped one is released, a copied
\* one is copied, which can fail and then skips the list of handles.
PutOutBufs(t) ==
  /\ At(t, "put")
  /\ \/ /\ loc[t].out /\ loc[t].m # Nil
        /\ map' = Drop(map, loc[t].m)
        /\ hist' = hist \cup DropFaults(loc[t].m)
        /\ Goto(t, "fdlist", [loc[t] EXCEPT !.m = Nil, !.found = TRUE])
     \/ /\ ~ (loc[t].out /\ loc[t].m # Nil)
        /\ \/ Goto(t, "fdlist", [loc[t] EXCEPT !.found = loc[t].m # Nil])
           \/ loc[t].out /\ Goto(t, "ctxfree", loc[t])
        /\ UNCHANGED <<map, hist>>
  /\ UNCHANGED <<buf, initMem, sysVars, mapMutex, dsph, kept>>

\* The list of handles in put_args; user space now relies on its persistent
\* mapping.
PutFdlist(t) ==
  /\ At(t, "fdlist")
  /\ LET f == FileOf[t]
         hit == {m \in Maps : \E fd \in loc[t].rel : m \in Find(f, fd, 0, "buf")}
     IN /\ map' = [m \in Maps |->
                     IF m \notin hit THEN map[m]
                     ELSE [Drop(map, m)[m] EXCEPT !.hrefs = IF @ = 0 THEN 0 ELSE @ - 1]]
        /\ hist' = hist \cup (UNION {DropFaults(m) : m \in hit})
        /\ kept' = IF loc[t].keep /\ loc[t].found THEN kept \cup {<<f, loc[t].fd>>} ELSE kept
  /\ Goto(t, "ctxfree", loc[t])
  /\ UNCHANGED <<buf, initMem, sysVars, mapMutex, dsph>>

\* context_free: the mappings of buffers, not those of handles; the buffers of
\* the context go to the cache.
ContextFree(t) ==
  /\ At(t, "ctxfree")
  /\ map' = IF loc[t].m = Nil THEN map ELSE Drop(map, loc[t].m)
  /\ hist' = hist \cup DropFaults(loc[t].m)
  /\ buf' = BufCache({loc[t].b, loc[t].lb} \ {Nil})
  /\ Done(t)
  /\ UNCHANGED <<initMem, sysVars, mapMutex, dsph, kept>>

-----------------------------------------------------------------------------
(***************************************************************************)
(* MMAP and MUNMAP, under map_mutex; and MUNMAP_FD.                        *)
(***************************************************************************)

Lock(t) == mapMutex[FileOf[t]] = Nil /\ mapMutex' = [mapMutex EXCEPT ![FileOf[t]] = t]
Unlock(t) == mapMutex' = [mapMutex EXCEPT ![FileOf[t]] = Nil]

\* fastrpc_internal_mmap up to the call of the DSP. A mapping that exists already
\* gets one more reference, and the ioctl returns at once.
InternalMmap(t) ==
  LET f == FileOf[t]
  IN \E op \in {"mmap", "heap", "rheap"}, fd \in Fds :
       LET kind == IF op = "mmap" THEN "buf" ELSE op
       IN /\ mapMutex[f] = Nil
          /\ \E o \in Create(f, IF kind \in Heaps THEN Nil ELSE fd, 1, kind, FALSE) :
               IF o.m = Nil \/ Find(f, fd, 1, kind) # {}
               THEN /\ Start(t, op, "idle", NoLoc)
                    /\ map' = IF o.m = Nil THEN o.map ELSE [o.map EXCEPT ![o.m].urefs = @ + 1]
                    /\ UNCHANGED mapMutex
               ELSE /\ Start(t, op, "mmapdsp", [NoLoc EXCEPT !.m = o.m])
                    /\ Lock(t)
                    /\ map' = [o.map EXCEPT ![o.m].urefs = 1]
          /\ UNCHANGED <<buf, initMem, sysVars, dsph, kept, hist>>

\* ... with ADSP_MMAP_ADD_PAGES.
AddPages(t) ==
  /\ \E o \in BufAlloc(FileOf[t], 1, "remote") :
       /\ buf' = o.buf
       /\ IF o.b = Nil
          THEN mapMutex[FileOf[t]] = Nil /\ Start(t, "pages", "idle", NoLoc) /\ UNCHANGED mapMutex
          ELSE Lock(t) /\ Start(t, "pages", "mmapdsp", [NoLoc EXCEPT !.b = o.b])
  /\ UNCHANGED <<map, initMem, sysVars, dsph, kept, hist>>

\* The rest of fastrpc_internal_mmap: fastrpc_mmap_on_dsp, which hands the memory
\* of a heap to the DSP last, and the error path. Pages that the DSP refused stay
\* on the list of remote buffers.
MmapOnDsp(t) ==
  /\ At(t, "mmapdsp")
  /\ Unlock(t)
  /\ LET m == loc[t].m  b == loc[t].b
     IN \/ /\ b # Nil
           /\ \E ok \in BOOLEAN : buf' = [buf EXCEPT ![b].raddr = ok]
           /\ UNCHANGED <<map, hist>>
        \/ /\ m # Nil
           /\ map' = IF map[m].used
                     THEN [map EXCEPT ![m].raddr = TRUE, ![m].prot = map[m].kind \in Heaps]
                     ELSE map
           /\ hist' = hist \cup (IF map[m].used THEN {} ELSE {"uaf"})
           /\ UNCHANGED buf
        \/ /\ m # Nil
           /\ map' = [Drop(map, m) EXCEPT ![m].urefs = IF @ = 0 THEN 0 ELSE @ - 1]
           /\ hist' = hist \cup DropFaults(m)
           /\ UNCHANGED buf
  /\ Done(t)
  /\ UNCHANGED <<initMem, sysVars, dsph, kept>>

\* fastrpc_mmap_remove finds a mapping on the global list or on the file's by its
\* address on the DSP and its length, and unhooks it only if it has a single
\* reference. The address comes from user space: 0 is that of every mapping the DSP
\* has not mapped, those of calls, handles, INIT and unfinished MMAPs included.
Listed(f) == {m \in Maps : map[m].listed /\ (map[m].kind \in Heaps \/ map[m].fl = f)}
Removable(m) == map[m].refs = 1

\* An MMAP or an INIT that has yet to return works on mapping m.
Busy(m) == \E u \in Threads : pc[u] \in {"mmapdsp", "statdsp"} /\ loc[u].m = m

\* A MUNMAP for mapping m is due: the reference of a finished MMAP or INIT.
Owed(m) == map[m].urefs > 0 /\ ~ Busy(m)

InternalMunmap(t) ==
  /\ \E m \in Listed(FileOf[t]) :
       /\ IF Removable(m)
          THEN /\ Lock(t)
               /\ Start(t, "munmap", "mundsp", [NoLoc EXCEPT !.m = m])
               /\ map' = [map EXCEPT ![m].listed = FALSE]
               /\ hist' = hist \cup (IF Owed(m) THEN {} ELSE {"taken"})
          ELSE /\ mapMutex[FileOf[t]] = Nil
               /\ Start(t, "munmap", "idle", NoLoc)
               /\ UNCHANGED <<map, mapMutex, hist>>
  /\ UNCHANGED <<buf, initMem, sysVars, dsph, kept>>

\* ... of pages.
MunmapPages(t) ==
  /\ Lock(t)
  /\ \E b \in Bufs :
       /\ buf[b].at = "remote" /\ buf[b].fl = FileOf[t] /\ buf[b].raddr
       /\ Start(t, "munmap", "mundsp", [NoLoc EXCEPT !.b = b])
  /\ UNCHANGED <<mmVars, sysVars, dsph, kept, hist>>

\* Mutant of UnmapOutcomes: the error of hyp_assign_phys is not passed on.
UnmapOutcomesQuiet(m) ==
  {[err |-> FALSE, prot |-> p] : p \in IF map[m].kind \in Heaps THEN {FALSE, map[m].prot} ELSE {FALSE}}

\* fastrpc_munmap_on_dsp_rh: the outcomes for mapping m: whether an error is
\* reported, and whether the DSP still has the memory. The error of taking a
\* HEAP_ADDR heap back is assigned to a variable that hides the one returned.
UnmapOutcomes(m) ==
  CASE map[m].kind = "heap"  -> {[err |-> FALSE, prot |-> p] : p \in {FALSE, map[m].prot}}
    [] map[m].kind = "rheap" -> {[err |-> FALSE, prot |-> FALSE],
                                 [err |-> TRUE, prot |-> map[m].prot]}
    [] OTHER                 -> {[err |-> FALSE, prot |-> FALSE]}

\* What freeing heap m after outcome o adds to hist.
UnmapFaults(m, o) ==
  (IF map[m].used THEN {} ELSE {"uaf"})
  \cup (IF o.prot /\ ~ o.err THEN {"heaplost"} ELSE {})
  \cup (IF o.prot /\ ~ o.err /\ map[m].kind = "heap" THEN {"shadowed"} ELSE {})

\* The rest of fastrpc_internal_munmap: fastrpc_munmap_on_dsp, then the free, or
\* on an error the mapping goes back on its list.
MunmapOnDsp(t) ==
  /\ At(t, "mundsp")
  /\ Unlock(t)
  /\ LET m == loc[t].m  b == loc[t].b
     IN \/ /\ b # Nil
           /\ buf' \in {buf, [buf EXCEPT ![b] = NoBuf]}
           /\ UNCHANGED <<map, hist>>
        \/ /\ m # Nil
           /\ map' = [map EXCEPT ![m].listed = TRUE]
           /\ hist' = hist \cup (IF map[m].used THEN {} ELSE {"uaf"})
           /\ UNCHANGED buf
        \/ /\ m # Nil
           /\ \E o \in UnmapOutcomes(m) :
                /\ map' = IF o.err THEN [map EXCEPT ![m].listed = TRUE] ELSE Drop(map, m)
                /\ hist' = hist \cup UnmapFaults(m, o)
           /\ UNCHANGED buf
  /\ Done(t)
  /\ UNCHANGED <<initMem, sysVars, dsph, kept>>

\* fastrpc_internal_munmap_fd, which user space calls to give up a persistent
\* mapping. It drops a reference whoever it belongs to: when the mapping existed
\* before the call with KEEP_MAP, there is none for it.
MunmapFd(t) ==
  /\ \E fd \in Fds :
       /\ <<FileOf[t], fd>> \in kept
       /\ kept' = kept \ {<<FileOf[t], fd>>}
       /\ \/ /\ Find(FileOf[t], fd, 1, "buf") = {}
             /\ UNCHANGED <<map, hist>>
          \/ \E m \in Find(FileOf[t], fd, 1, "buf") :
               /\ map' = [Drop(map, m) EXCEPT ![m].keep = FALSE]
               /\ hist' = hist \cup DropFaults(m)
                               \cup (IF map[m].keep THEN {} ELSE {"stolen"})
  /\ Start(t, "munmap_fd", "idle", NoLoc)
  /\ UNCHANGED <<buf, initMem, sysVars, mapMutex, dsph>>

-----------------------------------------------------------------------------
(***************************************************************************)
(* INIT: processes on the DSP.                                             *)
(***************************************************************************)

\* FASTRPC_INIT_CREATE maps the file of the process, allocates its memory, and
\* calls the DSP; that call maps the file too and gives its reference back when it
\* ends. A second INIT of the file forgets the first memory.
InitCreate(t) ==
  /\ \E fd \in Fds : Start(t, "create", "file", [NoLoc EXCEPT !.fd = fd])
  /\ UNCHANGED <<mmVars, sysVars, mapMutex, dsph, kept, hist>>

\* An init without a file (filelen = 0) has nothing to map.
InitFile(t) ==
  /\ At(t, "file")
  /\ \/ \E o \in Create(FileOf[t], loc[t].fd, 1, "buf", FALSE) :
          /\ map' = o.map
          /\ IF o.m = Nil THEN Done(t) ELSE Goto(t, "imem", [loc[t] EXCEPT !.m = o.m])
     \/ /\ Goto(t, "imem", loc[t])
        /\ UNCHANGED map
  /\ UNCHANGED <<buf, initMem, sysVars, mapMutex, dsph, kept, hist>>

\* Memory donated by user space is refused.
InitMem(t) ==
  /\ At(t, "imem")
  /\ \/ \E o \in BufAlloc(FileOf[t], 2, "init") :
          /\ buf' = o.buf
          /\ IF o.b = Nil THEN UNCHANGED <<initMem, hist>>
             ELSE /\ initMem' = [initMem EXCEPT ![FileOf[t]] = o.b]
                  /\ hist' = hist \cup (IF initMem[FileOf[t]] = Nil THEN {} ELSE {"lostinit"})
     \/ UNCHANGED <<buf, initMem, hist>>
  /\ Goto(t, "initdsp", loc[t])
  /\ UNCHANGED <<map, sysVars, mapMutex, dsph, kept>>

\* Whatever the DSP says, the mapping of the file is released at bail.
InitDone(t) ==
  /\ At(t, "initdsp")
  /\ map' = IF loc[t].m = Nil THEN map ELSE Drop(map, loc[t].m)
  /\ hist' = hist \cup DropFaults(loc[t].m)
  /\ Done(t)
  /\ UNCHANGED <<buf, initMem, sysVars, mapMutex, dsph, kept>>

\* FASTRPC_INIT_CREATE_STATIC. For the audio PD the heap of a PD that went down
\* is removed first (fastrpc_mmap_remove_pdr). Any error, be it in the name of the
\* process, clears staticpd_flags.
InitStatic(t) ==
  /\ \/ /\ \/ Start(t, "static", "heapmap", NoLoc)
           \/ /\ "pdr" \in stale
              /\ Start(t, "static", "ssr", [NoLoc EXCEPT !.why = "pdr"])
        /\ UNCHANGED staticpd
     \/ /\ Start(t, "static", "idle", NoLoc)
        /\ staticpd' = FALSE
  /\ UNCHANGED <<mmVars, open, stale, mapMutex, dsph, kept, hist>>

\* The first process maps a remote heap and hands it to the DSP.
InitHeap(t) ==
  /\ At(t, "heapmap")
  /\ \/ /\ staticpd
        /\ Goto(t, "statdsp", NoLoc)
        /\ UNCHANGED <<map, staticpd, hist>>
     \/ /\ ~ staticpd
        /\ \E o \in Create(FileOf[t], Nil, 1, "rheap", FALSE), ok \in BOOLEAN :
             IF o.m # Nil /\ ok
             THEN /\ map' = [o.map EXCEPT ![o.m].prot = TRUE, ![o.m].urefs = 1]
                  /\ staticpd' = TRUE
                  /\ Goto(t, "statdsp", [NoLoc EXCEPT !.m = o.m])
             ELSE map' = map /\ staticpd' = FALSE /\ Done(t)
        /\ UNCHANGED hist
  /\ UNCHANGED <<buf, initMem, open, stale, mapMutex, dsph, kept>>

\* The call, and bail: on an error the heap is taken back, which is not verified,
\* and freed.
InitStaticDone(t) ==
  /\ At(t, "statdsp")
  /\ \/ UNCHANGED <<map, staticpd, hist>>
     \/ /\ staticpd' = FALSE
        /\ LET m == loc[t].m
           IN IF m = Nil THEN UNCHANGED <<map, hist>>
              ELSE /\ map' = Drop(map, m)
                   /\ \E back \in BOOLEAN :
                        hist' = hist \cup (IF map[m].used THEN {} ELSE {"uaf"})
                                     \cup (IF back THEN {} ELSE {"unverified", "heaplost"})
  /\ Done(t)
  /\ UNCHANGED <<buf, initMem, open, stale, mapMutex, dsph, kept>>

-----------------------------------------------------------------------------
(***************************************************************************)
(* Restarts, and the removal of the remote heap.                           *)
(***************************************************************************)

\* The restart notifiers of the DSP and of the audio PD.
Restart ==
  /\ ops.restart < MaxRestart
  /\ ops' = [ops EXCEPT !.restart = @ + 1]
  /\ \E w \in {"ssr", "pdr"} : stale' = stale \cup {w}
  /\ staticpd' = FALSE
  /\ UNCHANGED <<pc, loc, mmVars, mapMutex, open, dsph, kept, hist>>

\* fastrpc_channel_open of a file after a restart of the DSP; smd_mutex lets one
\* thread at a time in.
ChannelOpen(t) ==
  /\ "ssr" \in stale
  /\ \A u \in Threads : loc[u].why # "ssr"
  /\ Start(t, "open", "ssr", [NoLoc EXCEPT !.why = "ssr"])
  /\ UNCHANGED <<mmVars, sysVars, mapMutex, dsph, kept, hist>>

\* After fastrpc_mmap_remove_ssr, whose error its callers only log. An INIT goes on,
\* or fails because the audio PD is not up.
Removed(t) ==
  /\ stale' = stale \ {loc[t].why}
  /\ \/ /\ IF loc[t].why = "ssr" THEN Done(t) ELSE Goto(t, "heapmap", NoLoc)
        /\ UNCHANGED staticpd
     \/ /\ loc[t].why = "pdr"
        /\ Done(t)
        /\ staticpd' = FALSE

\* The loop of fastrpc_mmap_remove_ssr unhooks any heap there is, also one that
\* an MMAP or an INIT is still working on.
RemoveSsr(t) ==
  /\ At(t, "ssr")
  /\ LET heaps == {m \in Maps : map[m].listed /\ map[m].kind \in Heaps}
     IN \/ /\ heaps = {}
           /\ Removed(t)
           /\ UNCHANGED <<map, hist>>
        \/ \E m \in heaps :
             /\ map' = [map EXCEPT ![m].listed = FALSE]
             /\ hist' = hist \cup (IF Busy(m) THEN {"ssrtook"} ELSE {})
             /\ Goto(t, "ssrdsp", [loc[t] EXCEPT !.m = m])
             /\ UNCHANGED <<stale, staticpd>>
  /\ UNCHANGED <<buf, initMem, open, mapMutex, dsph, kept>>

RemoveSsrDone(t) ==
  /\ At(t, "ssrdsp")
  /\ LET m == loc[t].m
     IN \E o \in UnmapOutcomes(m) :
          /\ hist' = hist \cup UnmapFaults(m, o)
          /\ IF o.err
             THEN map' = [map EXCEPT ![m].listed = TRUE] /\ Removed(t)
             ELSE /\ map' = Drop(map, m)
                  /\ Goto(t, "ssr", [loc[t] EXCEPT !.m = Nil])
                  /\ UNCHANGED <<stale, staticpd>>
  /\ UNCHANGED <<buf, initMem, open, mapMutex, dsph, kept>>

\* Mutant of OnLists: a mapping that is still referenced is left alone.
OnListsUnshared(f) == {m \in Maps : map[m].listed /\ map[m].fl = f /\ map[m].refs = 1}

\* The mappings fastrpc_file_free takes off fl->maps and frees with flags = 1.
OnLists(f) == {m \in Maps : map[m].listed /\ map[m].fl = f}

\* The buffers it frees: fastrpc_cached_buf_list_free, fastrpc_remote_buf_list_free and
\* fl->init_mem.
FileBufs(f) == {b \in Bufs : /\ buf[b].fl = f
                             /\ buf[b].at \in {"cached", "remote"} \/ b = initMem[f]}

\* fastrpc_file_free: what is on the lists of the file, whatever its count.
FileFree(f) ==
  /\ f \in open /\ "close" \in Ops
  /\ \A t \in Threads : FileOf[t] = f => pc[t] = "idle"
  /\ open' = open \ {f}
  /\ map' = [m \in Maps |-> IF m \in OnLists(f) THEN NoMap ELSE map[m]]
  /\ buf' = [b \in Bufs |-> IF b \in FileBufs(f) THEN NoBuf ELSE buf[b]]
  /\ initMem' = [initMem EXCEPT ![f] = Nil]
  /\ dsph' = [x \in Files \X Fds |-> IF x[1] = f THEN 0 ELSE dsph[x]]
  /\ kept' = {x \in kept : x[1] # f}
  /\ UNCHANGED <<pc, loc, staticpd, stale, mapMutex, ops, hist>>

Next ==
  \/ \E t \in Threads :
       \/ Invoke(t) \/ MapBufs(t) \/ MapHandles(t) \/ AllocArgs(t) \/ CallFails(t)
       \/ DspRuns(t) \/ PutOutBufs(t) \/ PutFdlist(t) \/ ContextFree(t)
       \/ InternalMmap(t) \/ AddPages(t) \/ MmapOnDsp(t)
       \/ InternalMunmap(t) \/ MunmapPages(t) \/ MunmapOnDsp(t) \/ MunmapFd(t)
       \/ InitCreate(t) \/ InitFile(t) \/ InitMem(t) \/ InitDone(t)
       \/ InitStatic(t) \/ InitHeap(t) \/ InitStaticDone(t)
       \/ ChannelOpen(t) \/ RemoveSsr(t) \/ RemoveSsrDone(t)
  \/ \E f \in Files : FileFree(f)
  \/ Restart

Spec == Init /\ [][Next]_vars

-----------------------------------------------------------------------------
(***************************************************************************)
(* Properties.                                                             *)
(***************************************************************************)

\* Threads that hold a reference of mapping m in a local or in their context.
Holders(m) == {t \in Threads : loc[t].m = m /\ pc[t] \in
                 {"handles", "lbuf", "cbuf", "dsp", "put", "ctxfree", "fdlist", "imem", "initdsp"}}

\* The count of a mapping is the number of its owners: calls and INITs under way,
\* handles, the persistent reference and the MMAPs of user space. Three things
\* break this: a MUNMAP_FD for a KEEP_MAP that came after the mapping, a restart
\* that takes a heap from under an MMAP, and a MUNMAP that takes a mapping nobody
\* owes one, be it of a call or of an unfinished MMAP: fastrpc_mmap_remove does not
\* ask whether the DSP has mapped what it unhooks.
RefsExact ==
  hist \cap {"stolen", "ssrtook", "taken"} = {} =>
    \A m \in Maps : map[m].used /\ (map[m].listed \/ Holders(m) # {}) =>
      map[m].refs = Cardinality(Holders(m)) + map[m].hrefs + map[m].urefs
                    + (IF map[m].keep THEN 1 ELSE 0)

\* No step uses a mapping after it was freed, with the same three exceptions.
NoUseAfterFree == "uaf" \in hist => hist \cap {"stolen", "ssrtook", "taken"} # {}

\* The memory of a remote heap is given back to the system only after the DSP has
\* lost access to it, unless the error was hidden by the inner variable of
\* fastrpc_munmap_on_dsp_rh or is not verified at the end of an INIT, or a
\* restart or a MUNMAP took the heap from under an MMAP or INIT, or a call whose
\* mapping was freed early by a MUNMAP or a MUNMAP_FD drops the heap that has its
\* address now.
HeapReturned ==
  "heaplost" \in hist =>
    hist \cap {"shadowed", "unverified", "ssrtook", "stolen", "taken"} # {}

\* After its close a file owns no mapping and no buffer, except a mapping whose
\* creation failed after KEEP_MAP had doubled its count, and the memory of a
\* process that a second INIT replaced.
CloseFreesAll ==
  \A f \in Files \ open :
    /\ "lostmap" \notin hist => \A m \in Maps : map[m].fl # f
    /\ "lostinit" \notin hist => \A b \in Bufs : buf[b].fl # f
=============================================================================
