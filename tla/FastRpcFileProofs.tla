-------------------------- MODULE FastRpcFileProofs --------------------------
(***************************************************************************)
(* What FastRpcFile promises, proved for every number of threads, files,   *)
(* channels and ioctls.                                                    *)
(***************************************************************************)
EXTENDS FastRpcFile, TLAPS

\* Where fastrpc_device_release is.
Closing == {"remove", "release", "free"}

\* A thread inside the driver uses an open file, and whoever closes it is alone in it.
InOpenFile ==
  \A t \in Threads : pc[t] # "idle" =>
    /\ arg[t].fl \in Files
    /\ file[arg[t].fl].state = "open"
    /\ pc[t] \in Closing =>
         \A u \in Threads \ {t} : pc[u] # "idle" => arg[u].fl # arg[t].fl

\* A request in the PM QoS list is noted in its file, or about to be; it is gone once
\* the file is being closed.
QosNoted ==
  \A f \in Files :
    /\ qos[f] # 0 => \/ file[f].qosreq
                     \/ \E t \in Threads : pc[t] = "qosset" /\ arg[t].fl = f
    /\ file[f].state # "open" => qos[f] = 0
    /\ \A t \in Threads : pc[t] \in Closing /\ arg[t].fl = f => qos[f] = 0

\* The entry in debugfs shows the open file that notes it, until release removes it, and
\* whoever is inside a read keeps it there.
EntryExact ==
  /\ \A f \in Files :
       entries = f <=> /\ file[f].state = "open" /\ file[f].debugfs
                       /\ \A t \in Threads : pc[t] \in {"release", "free"} => arg[t].fl # f
  /\ Reading => reader.fl \in Files /\ reader.fl = entries

\* What a thread carries in its local variable. One GETINFO at a time is between its check
\* of fl->cid and its session, unless they raced; the channel it found is the file's.
OneBinder ==
  /\ \A t \in Threads : /\ pc[t] \in {"cid", "session"} => arg[t].val \in Channels
                        /\ pc[t] = "initdsp" => arg[t].val \in {0, 1}
  /\ \A f \in Files \ hist.raced :
       /\ ~Bound(f) => file[f].sctx = Nil
       /\ \A t \in Threads : pc[t] = "cid" /\ arg[t].fl = f => ~Bound(f)
       /\ \A t \in Threads : pc[t] = "session" /\ arg[t].fl = f =>
            /\ file[f].cid = arg[t].val
            /\ \A u \in Threads \ {t} : pc[u] \in {"cid", "session"} => arg[u].fl # f

\* A process on the DSP belongs to a file with a channel; unless the file was excused, its
\* channel and its tgid name the process, which ends before the file is freed.
ProcessNamed ==
  \A f \in Files, ch \in Channels, id \in {0, 1} : <<f, ch, id>> \in procs =>
    /\ Bound(f) /\ file[f].state # "none"
    /\ f \notin hist.excused \cup hist.raced =>
         /\ file[f].cid = ch /\ file[f].tgid = id /\ file[f].state = "open"
         /\ \A t \in Threads : pc[t] = "free" => arg[t].fl # f

IInv ==
  /\ TypeOK /\ InOpenFile /\ QosNoted /\ EntryExact /\ OneBinder /\ SessionOfChannel
  /\ ProcessNamed

-----------------------------------------------------------------------------
(* Lemmas *)

Args == [fl : Files \cup {Nil}, cmd : Cmds, val : Int]
Labels == {"idle", "enter", "cid", "session", "qosadd", "qosset", "done",
           "initdsp", "remove", "release", "free"} \cup Cmds
FileRec == [state : {"none", "open", "freed"}, node : Nodes,
            cid : Channels \cup {Unset}, sctx : Channels \cup {Nil},
            tgid : {0, 1}, qosreq : BOOLEAN, debugfs : BOOLEAN]

\* Where a thread has neither a claim on the file's channel nor on its QoS request.
Steady == {"enter", "qosadd", "done"} \cup Cmds

\* The conjuncts of the invariant that relate threads to files.
Relations == InOpenFile /\ QosNoted /\ EntryExact /\ OneBinder /\ SessionOfChannel /\ ProcessNamed

\* What an assignment to one thread's program counter and variables leaves alone.
LEMMA ThreadAssigned ==
  ASSUME TypeOK, NEW t \in Threads, NEW l, NEW a,
         pc' = [pc EXCEPT ![t] = l], arg' = [arg EXCEPT ![t] = a]
  PROVE  /\ pc'[t] = l /\ arg'[t] = a
         /\ \A u \in Threads \ {t} : pc'[u] = pc[u] /\ arg'[u] = arg[u]
         /\ l \in Labels => pc' \in [Threads -> Labels]
         /\ a \in Args => arg' \in [Threads -> Args]
BY DEF TypeOK, Args, Labels

\* The processes on the DSP stay named while no file is renamed, closed or unbound.
LEMMA ProcessFrame ==
  ASSUME ProcessNamed, procs' = procs, hist'.excused = hist.excused,
         hist.raced \subseteq hist'.raced,
         \A g \in Files : /\ Bound(g) => file'[g].cid # Unset
                          /\ Bound(g) /\ g \notin hist'.raced => file'[g].cid = file[g].cid
                          /\ file'[g].state = file[g].state /\ file'[g].tgid = file[g].tgid,
         \A u \in Threads : pc'[u] = "free" => pc[u] = "free" /\ arg'[u].fl = arg[u].fl
  PROVE  ProcessNamed'
<1> SUFFICES ASSUME NEW f \in Files, NEW ch \in Channels, NEW id \in {0, 1},
                    <<f, ch, id>> \in procs
             PROVE  /\ file'[f].cid # Unset /\ file'[f].state # "none"
                    /\ f \notin hist'.excused \cup hist'.raced =>
                         /\ file'[f].cid = ch /\ file'[f].tgid = id /\ file'[f].state = "open"
                         /\ \A t \in Threads : pc'[t] = "free" => arg'[t].fl # f
  BY ZenonT(30) DEF ProcessNamed, Bound
<1>1. /\ Bound(f) /\ file[f].state # "none"
      /\ f \notin hist.excused \cup hist.raced =>
           /\ file[f].cid = ch /\ file[f].tgid = id /\ file[f].state = "open"
           /\ \A t \in Threads : pc[t] = "free" => arg[t].fl # f
  BY Zenon DEF ProcessNamed
<1>2. f \notin hist'.excused \cup hist'.raced => f \notin hist.excused \cup hist.raced
  OBVIOUS
<1>3. f \notin hist'.excused \cup hist'.raced => f \notin hist'.raced
  OBVIOUS
<1> QED BY <1>1, <1>2, <1>3, Zenon

\* A thread goes on to another step, or leaves the driver, and only it changes.
LEMMA ThreadMoves ==
  ASSUME IInv, NEW t \in Threads, NEW l \in Steady \cup {"idle"}, NEW a \in Args,
         pc[t] \notin Closing \cup {"idle", "qosset"},
         l = "idle" \/ a.fl = arg[t].fl,
         pc' = [pc EXCEPT ![t] = l], arg' = [arg EXCEPT ![t] = a],
         UNCHANGED <<file, qos, entries, reader, procs, hist>>
  PROVE  Relations'
<1>1. /\ pc'[t] = l /\ arg'[t] = a
      /\ \A u \in Threads \ {t} : pc'[u] = pc[u] /\ arg'[u] = arg[u]
  BY ThreadAssigned DEF IInv
<1>2. l \notin Closing \cup {"cid", "session", "qosset", "initdsp", "free", "release"}
  BY DEF Steady, Cmds, Closing
<1>3. InOpenFile'
  BY <1>1, <1>2 DEF IInv, InOpenFile
<1>4. QosNoted'
  BY <1>1, <1>2 DEF IInv, QosNoted
<1>5. EntryExact'
  BY <1>1, <1>2 DEF IInv, EntryExact, Closing, Reading
<1>6. OneBinder'
  BY <1>1, <1>2 DEF IInv, OneBinder, Bound
<1>7. SessionOfChannel'
  BY DEF IInv, SessionOfChannel
<1>8. ProcessNamed'
  <2>1. procs' = procs /\ file' = file /\ hist' = hist
    OBVIOUS
  <2>2. \A u \in Threads : pc'[u] = "free" => pc[u] = "free" /\ arg'[u] = arg[u]
    BY <1>1, <1>2
  <2>3. ProcessNamed
    BY DEF IInv
  <2> QED BY <2>1, <2>2, <2>3, ProcessFrame DEF Bound
<1> QED BY <1>3, <1>4, <1>5, <1>6, <1>7, <1>8 DEF Relations

\* ... in particular when an ioctl fails or comes to its end.
LEMMA EndMoves ==
  ASSUME IInv, NEW t \in Threads, Fail(t) \/ Succeed(t),
         pc[t] \notin Closing \cup {"idle", "qosset"},
         UNCHANGED <<file, qos, entries, reader, procs, hist>>
  PROVE  Relations' /\ pc' \in [Threads -> Labels] /\ arg' \in [Threads -> Args]
<1>1. TypeOK /\ arg[t] \in Args /\ arg = [arg EXCEPT ![t] = arg[t]]
  BY DEF IInv, TypeOK, Args
<1>2. CASE Fail(t)
  <2>1. NoArg \in Args /\ "idle" \in Labels
    BY DEF NoArg, Args, Cmds, Labels
  <2>2. Relations'
    BY <1>2, <2>1, ThreadMoves DEF Fail, Goto
  <2> QED BY <1>1, <1>2, <2>1, <2>2, ThreadAssigned DEF Fail, Goto
<1>3. CASE Succeed(t)
  <2>1. arg' = [arg EXCEPT ![t] = arg[t]] /\ pc' = [pc EXCEPT ![t] = "done"]
    BY <1>1, <1>3 DEF Succeed, Goto
  <2>2. "done" \in Steady /\ "done" \in Labels
    BY DEF Steady, Labels
  <2>3. Relations'
    BY <1>1, <2>1, <2>2, ThreadMoves
  <2> QED BY <1>1, <2>1, <2>2, <2>3, ThreadAssigned
<1> QED BY <1>2, <1>3

\* The types of what a thread changes.
LEMMA TypeFrame ==
  ASSUME TypeOK, pc' \in [Threads -> Labels], arg' \in [Threads -> Args],
         file' \in [Files -> FileRec], qos' \in [Files -> Int],
         perf' \in [Files -> SUBSET Threads], entries' \in Files \cup {Nil},
         UNCHANGED <<reader, logging, secure, latency>>,
         procs' \subseteq Files \X Channels \X {0, 1}, ops' \in 0 .. MaxOps,
         hist' \in [raced : SUBSET Files, excused : SUBSET Files, probed : BOOLEAN]
  PROVE  TypeOK'
BY DEF TypeOK, Labels, Args, FileRec

\* ... when it only moves on.
LEMMA TypeMoves ==
  ASSUME TypeOK, pc' \in [Threads -> Labels], arg' \in [Threads -> Args],
         perf' \in [Files -> SUBSET Threads],
         UNCHANGED <<file, qos, entries, reader, logging, secure, latency, procs, ops, hist>>
  PROVE  TypeOK'
BY DEF TypeOK, Labels, Args

-----------------------------------------------------------------------------
(* The invariant is inductive *)

\* Before the first open there is nothing.
LEMMA InitIInv ==
  ASSUME FileAssumption, Init
  PROVE  IInv
<1> USE DEF Init, NewFile, FileAssumption, Unset
<1>1. TypeOK
  <2>1. pc \in [Threads -> Labels] /\ arg \in [Threads -> Args]
    BY DEF Labels, Args, NoArg, Cmds
  <2>2. file \in [Files -> FileRec]
    BY DEF FileRec, Nodes
  <2>3. reader \in [at : {"closed", "open", "in", "lists", "dead"}, fl : Files \cup {Nil}]
    BY DEF Closed
  <2>4. hist \in [raced : SUBSET Files, excused : SUBSET Files, probed : BOOLEAN]
    OBVIOUS
  <2>5. qos \in [Files -> Int] /\ perf \in [Files -> SUBSET Threads]
    OBVIOUS
  <2>6. /\ entries \in Files \cup {Nil} /\ logging \in BOOLEAN /\ secure \subseteq Channels
        /\ latency \in Nat /\ procs \subseteq Files \X Channels \X {0, 1} /\ ops \in 0 .. MaxOps
    OBVIOUS
  <2> QED BY ONLY <2>1, <2>2, <2>3, <2>4, <2>5, <2>6 DEF TypeOK, Labels, Args, FileRec
<1>2. \A f \in Files : file[f].state = "none" /\ ~file[f].debugfs /\ ~Bound(f) /\ file[f].sctx = Nil
  BY DEF Bound
<1>3. InOpenFile BY DEF InOpenFile
<1>4. QosNoted BY DEF QosNoted, Closing
<1>5. EntryExact BY <1>2 DEF EntryExact, Reading, Closed
<1>6. OneBinder BY <1>2 DEF OneBinder
<1>7. SessionOfChannel BY <1>2 DEF SessionOfChannel
<1>8. ProcessNamed BY DEF ProcessNamed
<1> QED BY <1>1, <1>3, <1>4, <1>5, <1>6, <1>7, <1>8 DEF IInv

\* fastrpc_device_ioctl enters an open file.
LEMMA StepIoctl ==
  ASSUME FileAssumption, IInv, NEW t \in Threads, NEW f \in Files, NEW cmd \in Cmds,
         Ioctl(t, f, cmd)
  PROVE  IInv'
<1> DEFINE a == [fl |-> f, cmd |-> cmd, val |-> 0]
<1>1. /\ pc' = [pc EXCEPT ![t] = "enter"] /\ arg' = [arg EXCEPT ![t] = a]
      /\ a \in Args /\ a.fl = f /\ "enter" \in Labels /\ TypeOK /\ pc[t] = "idle"
      /\ file[f].state = "open" /\ \A u \in Threads : pc[u] \in Closing => arg[u].fl # f
      /\ UNCHANGED <<file, qos, perf, entries, reader, logging, secure, latency, procs, hist>>
  BY DEF Ioctl, Goto, Args, Labels, IInv, Closing, shared
<1> HIDE DEF a
<1>2. /\ pc'[t] = "enter" /\ arg'[t] = a
      /\ \A u \in Threads \ {t} : pc'[u] = pc[u] /\ arg'[u] = arg[u]
      /\ pc' \in [Threads -> Labels] /\ arg' \in [Threads -> Args]
  BY <1>1, ThreadAssigned
<1>3. TypeOK'
  <2>1. ops' \in 0 .. MaxOps
    BY <1>1 DEF Ioctl, TypeOK, FileAssumption
  <2> QED BY <1>1, <1>2, <2>1, TypeFrame DEF TypeOK, FileRec
<1>4. InOpenFile'
  BY <1>1, <1>2 DEF InOpenFile, IInv, Closing
<1>5. QosNoted'
  BY <1>1, <1>2 DEF QosNoted, IInv, Closing
<1>6. EntryExact'
  BY <1>1, <1>2 DEF EntryExact, IInv, Reading
<1>7. OneBinder'
  BY <1>1, <1>2 DEF OneBinder, IInv, Bound
<1>8. SessionOfChannel'
  BY <1>1 DEF SessionOfChannel, IInv
<1>9. ProcessNamed'
  <2>1. procs' = procs /\ file' = file /\ hist' = hist
    BY <1>1
  <2>2. \A u \in Threads : pc'[u] = "free" => pc[u] = "free" /\ arg'[u] = arg[u]
    BY <1>2
  <2>3. ProcessNamed
    BY DEF IInv
  <2> QED BY <2>1, <2>2, <2>3, ProcessFrame DEF Bound
<1> QED BY <1>3, <1>4, <1>5, <1>6, <1>7, <1>8, <1>9 DEF IInv

\* The ioctl comes to its command, or ends.
LEMMA StepDispatch ==
  ASSUME IInv, NEW t \in Threads, Dispatch(t)
  PROVE  IInv'
<1>1. /\ pc[t] = "enter" /\ pc[t] \notin Closing \cup {"idle", "qosset"}
      /\ UNCHANGED <<file, qos, perf, entries, reader, logging, secure, latency, procs, ops, hist>>
      /\ perf \in [Files -> SUBSET Threads] /\ TypeOK /\ arg[t] \in Args
  BY DEF Dispatch, Closing, shared, IInv, TypeOK, Args
<1>2. CASE Fail(t)
  BY <1>1, <1>2, EndMoves, TypeMoves DEF IInv, Relations
<1>3. CASE ~Fail(t)
  <2>1. /\ pc' = [pc EXCEPT ![t] = arg[t].cmd] /\ arg' = [arg EXCEPT ![t] = arg[t]]
        /\ arg[t].cmd \in Steady /\ arg[t].cmd \in Labels
    BY <1>1, <1>3 DEF Dispatch, Goto, TypeOK, Args, Steady, Labels
  <2>2. Relations'
    BY <1>1, <2>1, ThreadMoves
  <2>3. pc' \in [Threads -> Labels] /\ arg' \in [Threads -> Args]
    BY <1>1, <2>1, ThreadAssigned
  <2> QED BY <1>1, <2>2, <2>3, TypeMoves DEF IInv, Relations
<1> QED BY <1>2, <1>3

\* The end of a successful ioctl, the other requests of CONTROL, and GETPERF.
LEMMA StepEnds ==
  ASSUME IInv, NEW t \in Threads, IoctlDone(t) \/ ControlOther(t) \/ GetPerf(t)
  PROVE  IInv'
<1>1. /\ pc[t] \notin Closing \cup {"idle", "qosset"} /\ (Fail(t) \/ Succeed(t))
      /\ UNCHANGED <<file, qos, perf, entries, reader, logging, secure, latency, procs, ops, hist>>
      /\ perf \in [Files -> SUBSET Threads] /\ TypeOK
  BY DEF IoctlDone, ControlOther, GetPerf, Closing, shared, IInv, TypeOK
<1>2. Relations' /\ pc' \in [Threads -> Labels] /\ arg' \in [Threads -> Args]
  BY <1>1, EndMoves
<1>3. TypeOK'
  BY <1>1, <1>2, TypeMoves
<1> QED BY <1>2, <1>3 DEF IInv, Relations

\* INVOKE and MMAP leave no more than the caller's performance record.
LEMMA StepCalls ==
  ASSUME IInv, NEW t \in Threads, InternalInvoke(t) \/ InternalMmap(t)
  PROVE  IInv'
<1>1. /\ pc[t] \notin Closing \cup {"idle", "qosset"} /\ (Fail(t) \/ Succeed(t))
      /\ UNCHANGED <<file, qos, entries, reader, logging, secure, latency, procs, ops, hist>>
      /\ TypeOK
  BY DEF InternalInvoke, InternalMmap, Closing, IInv
<1>2. perf' \in [Files -> SUBSET Threads]
  BY DEF InternalInvoke, InternalMmap, GetPerfCounter, IInv, TypeOK
<1>3. Relations' /\ pc' \in [Threads -> Labels] /\ arg' \in [Threads -> Args]
  BY <1>1, EndMoves
<1>4. TypeOK'
  BY <1>1, <1>2, <1>3, TypeMoves
<1> QED BY <1>3, <1>4 DEF IInv, Relations

\* fastrpc_get_info reads fl->cid.
LEMMA StepGetInfo ==
  ASSUME FileAssumption, IInv, NEW t \in Threads, GetInfo(t)
  PROVE  IInv'
<1>1. /\ pc[t] = "getinfo" /\ TypeOK /\ arg[t] \in Args
      /\ UNCHANGED <<file, qos, perf, entries, reader, logging, secure, latency, procs, ops, hist>>
      /\ perf \in [Files -> SUBSET Threads]
  BY DEF GetInfo, shared, IInv, TypeOK, Args
<1>2. CASE Fail(t) \/ Succeed(t)
  <2>1. Relations' /\ pc' \in [Threads -> Labels] /\ arg' \in [Threads -> Args]
    BY <1>1, <1>2, EndMoves DEF Closing
  <2>2. TypeOK'
    BY <1>1, <2>1, TypeMoves
  <2> QED BY <2>1, <2>2 DEF IInv, Relations
<1>3. CASE ~(Fail(t) \/ Succeed(t))
  <2>1. PICK c \in Channels : /\ ~Bound(arg[t].fl)
                              /\ arg' = [arg EXCEPT ![t].val = c]
                              /\ pc' = [pc EXCEPT ![t] = "cid"]
    BY <1>3, Zenon DEF GetInfo, Goto
  <2> DEFINE a == [arg[t] EXCEPT !.val = c]
  <2>2. a \in Args /\ a.val = c /\ a.fl = arg[t].fl /\ "cid" \in Labels
    BY <1>1 DEF Args, Labels, FileAssumption
  <2>3. arg' = [arg EXCEPT ![t] = a]
    BY <2>1
  <2> HIDE DEF a
  <2>4. /\ pc'[t] = "cid" /\ arg'[t] = a
        /\ \A u \in Threads \ {t} : pc'[u] = pc[u] /\ arg'[u] = arg[u]
        /\ pc' \in [Threads -> Labels] /\ arg' \in [Threads -> Args]
    <3>1. TypeOK /\ pc' = [pc EXCEPT ![t] = "cid"] /\ a \in Args /\ "cid" \in Labels
      BY <1>1, <2>1, <2>2
    <3> QED BY ONLY <2>3, <3>1, t \in Threads, ThreadAssigned, Zenon
  <2>5. TypeOK'
    BY <1>1, <2>4, TypeMoves
  <2>6. InOpenFile'
    BY <1>1, <2>2, <2>4 DEF IInv, InOpenFile, Closing
  <2>7. QosNoted'
    BY <1>1, <2>2, <2>4 DEF IInv, QosNoted, Closing
  <2>8. EntryExact'
    BY <1>1, <2>2, <2>4 DEF IInv, EntryExact, Reading
  <2>9. OneBinder'
    <3>1. ASSUME NEW g \in Files \ hist.raced, NEW u \in Threads,
                 pc[u] = "session", arg[u].fl = g
          PROVE  arg[t].fl # g
      <4>1. Bound(g)
        BY <3>1 DEF IInv, OneBinder, Bound, FileAssumption, Unset
      <4> QED BY <4>1, <2>1
    <3> QED BY <1>1, <2>1, <2>2, <2>4, <3>1 DEF IInv, OneBinder, Bound
  <2>10. SessionOfChannel'
    BY <1>1 DEF IInv, SessionOfChannel
  <2>11. ProcessNamed'
    BY <1>1, <2>4, ProcessFrame DEF IInv, Bound
  <2> QED BY <2>5, <2>6, <2>7, <2>8, <2>9, <2>10, <2>11 DEF IInv
<1> QED BY <1>2, <1>3

\* fastrpc_get_info sets fl->cid.
LEMMA StepGetInfoCid ==
  ASSUME FileAssumption, IInv, NEW t \in Threads, GetInfoCid(t)
  PROVE  IInv'
<1> DEFINE f == arg[t].fl
           c == arg[t].val
<1>1. /\ pc[t] = "cid" /\ TypeOK /\ f \in Files /\ c \in Channels /\ c # Unset
      /\ UNCHANGED <<arg, qos, perf, entries, reader, logging, secure, latency, procs, ops>>
      /\ pc' = [pc EXCEPT ![t] = "session"] /\ arg' = [arg EXCEPT ![t] = arg[t]]
  BY DEF GetInfoCid, Goto, shared, IInv, TypeOK, InOpenFile, OneBinder, FileAssumption, Unset
<1>2. /\ pc'[t] = "session" /\ arg'[t] = arg[t]
      /\ \A u \in Threads \ {t} : pc'[u] = pc[u] /\ arg'[u] = arg[u]
      /\ pc' \in [Threads -> Labels] /\ arg' \in [Threads -> Args]
  BY <1>1, ThreadAssigned DEF Labels, TypeOK, Args
<1>3. /\ file' \in [Files -> FileRec]
      /\ \A g \in Files \ {f} : file'[g] = file[g]
      /\ file'[f].cid = c /\ file'[f].state = file[f].state /\ file'[f].sctx = file[f].sctx
      /\ file'[f].tgid = file[f].tgid /\ file'[f].qosreq = file[f].qosreq
      /\ file'[f].debugfs = file[f].debugfs
  <2>1. file \in [Files -> FileRec] /\ file' = [file EXCEPT ![f] = [@ EXCEPT !.cid = c]]
    BY DEF GetInfoCid, TypeOK, FileRec, IInv
  <2>2. [file[f] EXCEPT !.cid = c] \in FileRec
    BY <2>1, <1>1 DEF FileRec
  <2> QED BY ONLY <2>1, <2>2, <1>1 DEF FileRec
<1>4. /\ hist' \in [raced : SUBSET Files, excused : SUBSET Files, probed : BOOLEAN]
      /\ hist'.excused = hist.excused /\ hist.raced \subseteq hist'.raced
      /\ (\E u \in Threads \ {t} : pc[u] \in {"cid", "session"} /\ arg[u].fl = f)
           => f \in hist'.raced
  BY <1>1 DEF GetInfoCid, TypeOK
<1> HIDE DEF f, c
<1>5. TypeOK'
  BY <1>1, <1>2, <1>3, <1>4, TypeFrame DEF TypeOK
<1>6. InOpenFile'
  BY <1>1, <1>2, <1>3 DEF IInv, InOpenFile, Closing
<1>7. QosNoted'
  BY <1>1, <1>2, <1>3 DEF IInv, QosNoted, Closing
<1>8. EntryExact'
  BY <1>1, <1>2, <1>3 DEF IInv, EntryExact, Reading
<1>9. OneBinder'
  <2>1. \A u \in Threads : /\ pc'[u] \in {"cid", "session"} => arg'[u].val \in Channels
                           /\ pc'[u] = "initdsp" => arg'[u].val \in {0, 1}
    BY <1>1, <1>2 DEF IInv, OneBinder, c
  <2>2. ASSUME NEW g \in Files \ hist'.raced, g # f
        PROVE  /\ ~(file'[g].cid # Unset) => file'[g].sctx = Nil
               /\ \A u \in Threads : pc'[u] = "cid" /\ arg'[u].fl = g => ~(file'[g].cid # Unset)
               /\ \A u \in Threads : pc'[u] = "session" /\ arg'[u].fl = g =>
                    /\ file'[g].cid = arg'[u].val
                    /\ \A v \in Threads \ {u} : pc'[v] \in {"cid", "session"} => arg'[v].fl # g
    BY <2>2, <1>1, <1>2, <1>3, <1>4 DEF IInv, OneBinder, Bound, f
  <2>3. ASSUME f \notin hist'.raced
        PROVE  /\ file'[f].cid # Unset
               /\ \A u \in Threads \ {t} : pc'[u] \in {"cid", "session"} => arg'[u].fl # f
               /\ file'[f].cid = arg'[t].val
    BY <2>3, <1>1, <1>2, <1>3, <1>4 DEF c
  <2> QED BY <1>2, <2>1, <2>2, <2>3 DEF OneBinder, Bound
<1>10. SessionOfChannel'
  <2>1. f \notin hist'.raced => file[f].sctx = Nil
    BY <1>1, <1>4 DEF IInv, OneBinder, f
  <2> QED BY <2>1, <1>3, <1>4 DEF IInv, SessionOfChannel
<1>11. ProcessNamed'
  <2>1. f \notin hist'.raced => ~Bound(f)
    BY <1>1, <1>4 DEF IInv, OneBinder, f
  <2> QED BY <2>1, <1>1, <1>2, <1>3, <1>4, ProcessFrame DEF IInv, Bound
<1> QED BY <1>5, <1>6, <1>7, <1>8, <1>9, <1>10, <1>11 DEF IInv

\* fastrpc_get_info takes a session.
LEMMA StepGetInfoSession ==
  ASSUME FileAssumption, IInv, NEW t \in Threads, GetInfoSession(t)
  PROVE  IInv'
<1> DEFINE f == arg[t].fl
           c == arg[t].val
<1>1. /\ pc[t] = "session" /\ TypeOK /\ f \in Files /\ c \in Channels
      /\ UNCHANGED <<qos, perf, entries, reader, logging, secure, latency, procs, ops, hist>>
      /\ perf \in [Files -> SUBSET Threads]
  BY DEF GetInfoSession, shared, IInv, TypeOK, InOpenFile, OneBinder
<1>2. CASE Fail(t) /\ UNCHANGED file
  <2>1. Relations' /\ pc' \in [Threads -> Labels] /\ arg' \in [Threads -> Args]
    BY <1>1, <1>2, EndMoves DEF Closing
  <2>2. TypeOK'
    BY <1>1, <1>2, <2>1, TypeMoves
  <2> QED BY <2>1, <2>2 DEF IInv, Relations
<1>3. CASE file' = [file EXCEPT ![f].sctx = c] /\ Succeed(t)
  <2>1. /\ pc'[t] = "done" /\ arg' = arg
        /\ \A u \in Threads \ {t} : pc'[u] = pc[u]
        /\ pc' \in [Threads -> Labels] /\ arg' \in [Threads -> Args]
    BY <1>1, <1>3 DEF Succeed, Goto, Labels, TypeOK, Args
  <2>2. /\ file' \in [Files -> FileRec]
        /\ \A g \in Files \ {f} : file'[g] = file[g]
        /\ file'[f].sctx = c /\ file'[f].state = file[f].state /\ file'[f].cid = file[f].cid
        /\ file'[f].tgid = file[f].tgid /\ file'[f].qosreq = file[f].qosreq
        /\ file'[f].debugfs = file[f].debugfs
    <3>1. file \in [Files -> FileRec] /\ file' = [file EXCEPT ![f] = [@ EXCEPT !.sctx = c]]
      BY <1>1, <1>3 DEF TypeOK, FileRec
    <3>2. [file[f] EXCEPT !.sctx = c] \in FileRec
      BY <3>1, <1>1 DEF FileRec
    <3> QED BY ONLY <3>1, <3>2, <1>1 DEF FileRec
  <2> HIDE DEF f, c
  <2>3. TypeOK'
    BY <1>1, <2>1, <2>2, TypeFrame DEF TypeOK
  <2>4. InOpenFile'
    BY <1>1, <2>1, <2>2 DEF IInv, InOpenFile, Closing
  <2>5. QosNoted'
    BY <1>1, <2>1, <2>2 DEF IInv, QosNoted, Closing
  <2>6. EntryExact'
    BY <1>1, <2>1, <2>2 DEF IInv, EntryExact, Reading
  <2>7. f \notin hist.raced => file[f].cid = c /\ c # Unset
    BY <1>1 DEF IInv, OneBinder, FileAssumption, Unset, f, c
  <2>8. OneBinder'
    BY <1>1, <2>1, <2>2, <2>7 DEF IInv, OneBinder, Bound, f, c
  <2>9. SessionOfChannel'
    BY <1>1, <2>2, <2>7 DEF IInv, SessionOfChannel
  <2>10. ProcessNamed'
    BY <1>1, <2>1, <2>2, ProcessFrame DEF IInv, Bound
  <2> QED BY <2>3, <2>4, <2>5, <2>6, <2>8, <2>9, <2>10 DEF IInv
<1> QED BY <1>2, <1>3 DEF GetInfoSession

\* CONTROL reads fl->qos_request; a request that is noted is updated.
LEMMA StepControlLatency ==
  ASSUME IInv, NEW t \in Threads, ControlLatency(t)
  PROVE  IInv'
<1> DEFINE f == arg[t].fl
<1>1. /\ pc[t] = "latency" /\ TypeOK /\ f \in Files /\ arg[t] \in Args
      /\ UNCHANGED <<file, perf, entries, reader, logging, secure, latency, procs, ops, hist>>
      /\ perf \in [Files -> SUBSET Threads]
  BY DEF ControlLatency, IInv, TypeOK, InOpenFile, Args
<1>2. PICK lat \in {latency, Default} :
        \/ Fail(t) /\ UNCHANGED qos
        \/ file[f].qosreq /\ qos' = [qos EXCEPT ![f] = lat] /\ Succeed(t)
        \/ arg' = [arg EXCEPT ![t].val = lat] /\ Goto(t, "qosadd") /\ UNCHANGED qos
  BY Zenon DEF ControlLatency
<1>3. lat \in Int
  BY <1>1 DEF TypeOK, Default
<1>4. CASE Fail(t) /\ UNCHANGED qos
  <2>1. Relations' /\ pc' \in [Threads -> Labels] /\ arg' \in [Threads -> Args]
    BY <1>1, <1>4, EndMoves DEF Closing
  <2>2. TypeOK'
    BY <1>1, <1>4, <2>1, TypeMoves
  <2> QED BY <2>1, <2>2 DEF IInv, Relations
<1>5. CASE arg' = [arg EXCEPT ![t].val = lat] /\ Goto(t, "qosadd") /\ UNCHANGED qos
  <2> DEFINE a == [arg[t] EXCEPT !.val = lat]
  <2>1. /\ a \in Args /\ a.fl = arg[t].fl /\ arg' = [arg EXCEPT ![t] = a]
        /\ pc' = [pc EXCEPT ![t] = "qosadd"] /\ "qosadd" \in Labels /\ "qosadd" \in Steady
    BY <1>1, <1>3, <1>5 DEF Args, Goto, Labels, Steady
  <2> HIDE DEF a
  <2>2. Relations'
    BY <1>1, <1>5, <2>1, ThreadMoves DEF Closing
  <2>3. pc' \in [Threads -> Labels] /\ arg' \in [Threads -> Args]
    BY <1>1, <2>1, ThreadAssigned
  <2>4. TypeOK'
    BY <1>1, <1>5, <2>3, TypeMoves
  <2> QED BY <2>2, <2>4 DEF IInv, Relations
<1>6. CASE file[f].qosreq /\ qos' = [qos EXCEPT ![f] = lat] /\ Succeed(t)
  <2>1. /\ pc'[t] = "done" /\ arg' = arg
        /\ \A u \in Threads \ {t} : pc'[u] = pc[u]
        /\ pc' \in [Threads -> Labels] /\ arg' \in [Threads -> Args]
    BY <1>1, <1>6 DEF Succeed, Goto, Labels, TypeOK, Args
  <2>2. qos' \in [Files -> Int] /\ \A g \in Files \ {f} : qos'[g] = qos[g]
    BY <1>1, <1>3, <1>6 DEF TypeOK
  <2>3. TypeOK'
    BY <1>1, <2>1, <2>2, TypeFrame DEF TypeOK, FileRec
  <2>4. InOpenFile'
    BY <1>1, <2>1 DEF IInv, InOpenFile, Closing
  <2>5. QosNoted'
    <3>1. file[f].state = "open" /\ \A u \in Threads : pc[u] \in Closing => arg[u].fl # f
      BY <1>1 DEF IInv, InOpenFile, Closing
    <3> QED BY <1>1, <1>6, <2>1, <2>2, <3>1 DEF IInv, QosNoted, Closing
  <2>6. EntryExact'
    BY <1>1, <2>1 DEF IInv, EntryExact, Reading
  <2>7. OneBinder' /\ SessionOfChannel'
    BY <1>1, <2>1 DEF IInv, OneBinder, Bound, SessionOfChannel
  <2>8. ProcessNamed'
    BY <1>1, <2>1, ProcessFrame DEF IInv, Bound
  <2> QED BY <2>3, <2>4, <2>5, <2>6, <2>7, <2>8 DEF IInv
<1> QED BY <1>2, <1>4, <1>5, <1>6

\* pm_qos_add_request.
LEMMA StepQosAdd ==
  ASSUME IInv, NEW t \in Threads, QosAdd(t)
  PROVE  IInv'
<1> DEFINE f == arg[t].fl
<1>1. /\ pc[t] = "qosadd" /\ TypeOK /\ f \in Files /\ arg[t].val \in Int
      /\ UNCHANGED <<arg, file, perf, entries, reader, logging, secure, latency, procs, ops, hist>>
      /\ qos' = [qos EXCEPT ![f] = IF @ = 0 THEN arg[t].val ELSE @]
      /\ pc' = [pc EXCEPT ![t] = "qosset"]
  BY DEF QosAdd, Goto, IInv, TypeOK, InOpenFile
<1>2. /\ pc'[t] = "qosset" /\ \A u \in Threads \ {t} : pc'[u] = pc[u]
      /\ pc' \in [Threads -> Labels] /\ arg' \in [Threads -> Args]
  BY <1>1 DEF TypeOK, Labels, Args
<1>3. qos' \in [Files -> Int] /\ \A g \in Files \ {f} : qos'[g] = qos[g]
  BY <1>1 DEF TypeOK
<1>4. TypeOK'
  BY <1>1, <1>2, <1>3, TypeFrame DEF TypeOK, FileRec
<1>5. InOpenFile'
  BY <1>1, <1>2 DEF IInv, InOpenFile, Closing
<1>6. QosNoted'
  <2>1. file[f].state = "open" /\ \A u \in Threads : pc[u] \in Closing => arg[u].fl # f
    BY <1>1 DEF IInv, InOpenFile, Closing
  <2> QED BY <1>1, <1>2, <1>3, <2>1 DEF IInv, QosNoted, Closing
<1>7. EntryExact'
  BY <1>1, <1>2 DEF IInv, EntryExact, Reading
<1>8. OneBinder' /\ SessionOfChannel'
  BY <1>1, <1>2 DEF IInv, OneBinder, Bound, SessionOfChannel
<1>9. ProcessNamed'
  BY <1>1, <1>2, ProcessFrame DEF IInv, Bound
<1> QED BY <1>4, <1>5, <1>6, <1>7, <1>8, <1>9 DEF IInv

\* fl->qos_request is set.
LEMMA StepQosSet ==
  ASSUME IInv, NEW t \in Threads, QosSet(t)
  PROVE  IInv'
<1> DEFINE f == arg[t].fl
<1>1. /\ pc[t] = "qosset" /\ TypeOK /\ f \in Files
      /\ UNCHANGED <<arg, qos, perf, entries, reader, logging, secure, latency, procs, ops, hist>>
      /\ pc' = [pc EXCEPT ![t] = "done"]
  BY DEF QosSet, Succeed, Goto, shared, IInv, TypeOK, InOpenFile
<1>2. /\ pc'[t] = "done" /\ \A u \in Threads \ {t} : pc'[u] = pc[u]
      /\ pc' \in [Threads -> Labels] /\ arg' \in [Threads -> Args]
  BY <1>1 DEF TypeOK, Labels, Args
<1>3. /\ file' \in [Files -> FileRec]
      /\ \A g \in Files \ {f} : file'[g] = file[g]
      /\ file'[f].qosreq /\ file'[f].state = file[f].state /\ file'[f].cid = file[f].cid
      /\ file'[f].sctx = file[f].sctx /\ file'[f].tgid = file[f].tgid
      /\ file'[f].debugfs = file[f].debugfs
  <2>1. file \in [Files -> FileRec] /\ file' = [file EXCEPT ![f] = [@ EXCEPT !.qosreq = TRUE]]
    BY <1>1 DEF QosSet, TypeOK, FileRec
  <2>2. [file[f] EXCEPT !.qosreq = TRUE] \in FileRec
    <3>1. file[f] \in FileRec
      BY ONLY <2>1, <1>1
    <3> QED BY ONLY <3>1 DEF FileRec
  <2> QED BY ONLY <2>1, <2>2, <1>1 DEF FileRec
<1> HIDE DEF f
<1>4. TypeOK'
  BY <1>1, <1>2, <1>3, TypeFrame DEF TypeOK
<1>5. InOpenFile'
  BY <1>1, <1>2, <1>3 DEF IInv, InOpenFile, Closing
<1>6. QosNoted'
  BY <1>1, <1>2, <1>3 DEF IInv, QosNoted, Closing, f
<1>7. EntryExact'
  BY <1>1, <1>2, <1>3 DEF IInv, EntryExact, Reading
<1>8. OneBinder' /\ SessionOfChannel'
  BY <1>1, <1>2, <1>3 DEF IInv, OneBinder, Bound, SessionOfChannel
<1>9. ProcessNamed'
  BY <1>1, <1>2, <1>3, ProcessFrame DEF IInv, Bound
<1> QED BY <1>4, <1>5, <1>6, <1>7, <1>8, <1>9 DEF IInv

\* SETMODE; renaming a file excuses a process that carries its old name.
LEMMA StepSetMode ==
  ASSUME IInv, NEW t \in Threads, SetMode(t)
  PROVE  IInv'
<1> DEFINE f == arg[t].fl
           Made == \E c \in Channels : <<f, c, 0>> \in procs
<1>1. /\ pc[t] = "setmode" /\ TypeOK /\ f \in Files
      /\ UNCHANGED <<arg, qos, perf, entries, reader, logging, secure, latency, procs, ops>>
      /\ pc' = [pc EXCEPT ![t] = "done"] /\ Succeed(t) /\ perf \in [Files -> SUBSET Threads]
  BY DEF SetMode, Succeed, Goto, shared, IInv, TypeOK, InOpenFile
<1>2. CASE UNCHANGED <<file, hist>>
  <2>1. Relations' /\ pc' \in [Threads -> Labels] /\ arg' \in [Threads -> Args]
    BY <1>1, <1>2, EndMoves DEF Closing
  <2>2. TypeOK'
    BY <1>1, <1>2, <2>1, TypeMoves
  <2> QED BY <2>1, <2>2 DEF IInv, Relations
<1>3. CASE /\ file' = [file EXCEPT ![f].tgid = 1]
           /\ hist' = [hist EXCEPT !.excused = IF Made THEN @ \cup {f} ELSE @]
  <2>1. /\ pc'[t] = "done" /\ \A u \in Threads \ {t} : pc'[u] = pc[u]
        /\ pc' \in [Threads -> Labels] /\ arg' \in [Threads -> Args]
    BY <1>1 DEF TypeOK, Labels, Args
  <2>2. /\ file' \in [Files -> FileRec]
        /\ \A g \in Files \ {f} : file'[g] = file[g]
        /\ file'[f].tgid = 1 /\ file'[f].state = file[f].state /\ file'[f].cid = file[f].cid
        /\ file'[f].sctx = file[f].sctx /\ file'[f].qosreq = file[f].qosreq
        /\ file'[f].debugfs = file[f].debugfs
    <3>1. file \in [Files -> FileRec] /\ file' = [file EXCEPT ![f] = [@ EXCEPT !.tgid = 1]]
      BY <1>1, <1>3 DEF TypeOK, FileRec
    <3>2. [file[f] EXCEPT !.tgid = 1] \in FileRec
      <4>1. file[f] \in FileRec
        BY ONLY <3>1, <1>1
      <4> QED BY ONLY <4>1 DEF FileRec
    <3> QED BY ONLY <3>1, <3>2, <1>1 DEF FileRec
  <2>3. /\ hist' \in [raced : SUBSET Files, excused : SUBSET Files, probed : BOOLEAN]
        /\ hist'.raced = hist.raced /\ hist.excused \subseteq hist'.excused
        /\ hist'.excused \subseteq hist.excused \cup {f}
        /\ Made => f \in hist'.excused
    <3> DEFINE S == IF Made THEN {f} ELSE {}
    <3>1. hist \in [raced : SUBSET Files, excused : SUBSET Files, probed : BOOLEAN]
      BY <1>1 DEF TypeOK
    <3>2. hist' = [hist EXCEPT !.excused = @ \cup S]
      <4>1. CASE Made
        BY <1>3, <4>1
      <4>2. CASE ~Made
        <5>1. hist = [hist EXCEPT !.excused = @ \cup {}]
          BY <3>1
        <5>2. hist' = hist
          BY <3>1, <1>3, <4>2
        <5> QED BY <5>1, <5>2, <4>2
      <4> QED BY <4>1, <4>2
    <3>3. S \subseteq {f} /\ (Made => f \in S)
      OBVIOUS
    <3> HIDE DEF S
    <3> QED BY ONLY <3>1, <3>2, <3>3, <1>1
  <2> HIDE DEF f
  <2>4. TypeOK'
    BY <1>1, <2>1, <2>2, <2>3, TypeFrame DEF TypeOK
  <2>5. InOpenFile'
    BY <1>1, <2>1, <2>2 DEF IInv, InOpenFile, Closing
  <2>6. QosNoted'
    BY <1>1, <2>1, <2>2 DEF IInv, QosNoted, Closing
  <2>7. EntryExact'
    BY <1>1, <2>1, <2>2 DEF IInv, EntryExact, Reading
  <2>8. OneBinder' /\ SessionOfChannel'
    BY <1>1, <2>1, <2>2, <2>3 DEF IInv, OneBinder, Bound, SessionOfChannel
  <2>9. ProcessNamed'
    <3> SUFFICES ASSUME NEW g \in Files, NEW ch \in Channels, NEW id \in {0, 1},
                    <<g, ch, id>> \in procs
                 PROVE  /\ file'[g].cid # Unset /\ file'[g].state # "none"
                        /\ g \notin hist'.excused \cup hist'.raced =>
                             /\ file'[g].cid = ch /\ file'[g].tgid = id /\ file'[g].state = "open"
                             /\ \A u \in Threads : pc'[u] = "free" => arg'[u].fl # g
      BY <1>1, Zenon DEF ProcessNamed, Bound
    <3>1. /\ file[g].cid # Unset /\ file[g].state # "none"
          /\ g \notin hist.excused \cup hist.raced =>
               /\ file[g].cid = ch /\ file[g].tgid = id /\ file[g].state = "open"
               /\ \A u \in Threads : pc[u] = "free" => arg[u].fl # g
      BY Zenon DEF IInv, ProcessNamed, Bound
    <3>2. g = f /\ g \notin hist'.excused \cup hist'.raced => id = 1
      <4>1. g = f /\ id = 0 => Made
        OBVIOUS
      <4> QED BY <2>3, <4>1
    <3>3. \A u \in Threads : pc'[u] = "free" => pc[u] = "free" /\ arg'[u] = arg[u]
      BY <1>1, <2>1
    <3> QED BY ONLY <3>1, <3>2, <3>3, <2>2, <2>3, g \in Files
  <2> QED BY <2>4, <2>5, <2>6, <2>7, <2>8, <2>9 DEF IInv
<1> QED BY <1>2, <1>3 DEF SetMode

\* INIT names the process to be created.
LEMMA StepInitProcess ==
  ASSUME FileAssumption, IInv, NEW t \in Threads, InitProcess(t)
  PROVE  IInv'
<1>1. /\ pc[t] = "init" /\ TypeOK /\ arg[t] \in Args /\ arg[t].fl \in Files
      /\ UNCHANGED <<file, qos, perf, entries, reader, logging, secure, latency, procs, ops, hist>>
      /\ perf \in [Files -> SUBSET Threads]
  BY DEF InitProcess, shared, IInv, InOpenFile, TypeOK, Args
<1>2. CASE Fail(t) \/ Succeed(t)
  <2>1. Relations' /\ pc' \in [Threads -> Labels] /\ arg' \in [Threads -> Args]
    BY <1>1, <1>2, EndMoves DEF Closing
  <2>2. TypeOK'
    BY <1>1, <2>1, TypeMoves
  <2> QED BY <2>1, <2>2 DEF IInv, Relations
<1>3. CASE ~(Fail(t) \/ Succeed(t))
  <2>1. PICK n \in {file[arg[t].fl].tgid, 0} : /\ arg' = [arg EXCEPT ![t].val = n]
                                               /\ pc' = [pc EXCEPT ![t] = "initdsp"]
    BY <1>3, Zenon DEF InitProcess, Goto
  <2> DEFINE a == [arg[t] EXCEPT !.val = n]
  <2>2. n \in {0, 1}
    BY <1>1 DEF TypeOK
  <2>3. a \in Args /\ a.val = n /\ a.fl = arg[t].fl /\ "initdsp" \in Labels
    BY <1>1, <2>2 DEF Args, Labels
  <2>4. arg' = [arg EXCEPT ![t] = a]
    BY <2>1
  <2> HIDE DEF a
  <2>5. /\ pc'[t] = "initdsp" /\ arg'[t] = a
        /\ \A u \in Threads \ {t} : pc'[u] = pc[u] /\ arg'[u] = arg[u]
        /\ pc' \in [Threads -> Labels] /\ arg' \in [Threads -> Args]
    <3>1. TypeOK /\ pc' = [pc EXCEPT ![t] = "initdsp"] /\ a \in Args /\ "initdsp" \in Labels
      BY <1>1, <2>1, <2>3
    <3> QED BY ONLY <2>4, <3>1, t \in Threads, ThreadAssigned, Zenon
  <2>6. TypeOK'
    BY <1>1, <2>5, TypeMoves
  <2>7. InOpenFile'
    BY <1>1, <2>3, <2>5 DEF IInv, InOpenFile, Closing
  <2>8. QosNoted'
    BY <1>1, <2>3, <2>5 DEF IInv, QosNoted, Closing
  <2>9. EntryExact'
    BY <1>1, <2>3, <2>5 DEF IInv, EntryExact, Reading
  <2>10. OneBinder'
    BY <1>1, <2>2, <2>3, <2>5 DEF IInv, OneBinder, Bound
  <2>11. SessionOfChannel'
    BY <1>1 DEF IInv, SessionOfChannel
  <2>12. ProcessNamed'
    BY <1>1, <2>5, ProcessFrame DEF IInv, Bound
  <2> QED BY <2>6, <2>7, <2>8, <2>9, <2>10, <2>11, <2>12 DEF IInv
<1> QED BY <1>2, <1>3

\* The call of INIT creates the process with the name it carries.
LEMMA StepInitOnDsp ==
  ASSUME FileAssumption, IInv, NEW t \in Threads, InitOnDsp(t)
  PROVE  IInv'
<1> DEFINE f == arg[t].fl
           v == arg[t].val
           p == <<f, file[f].cid, v>>
<1>1. /\ pc[t] = "initdsp" /\ TypeOK /\ f \in Files /\ file[f].state = "open"
      /\ v \in {0, 1} /\ \A u \in Threads : pc[u] \in Closing => arg[u].fl # f
      /\ UNCHANGED <<file, qos, entries, reader, logging, secure, latency, ops>>
  BY DEF InitOnDsp, IInv, InOpenFile, OneBinder, Closing
<1>2. perf' \in [Files -> SUBSET Threads]
  <2>1. perf' = [perf EXCEPT ![f] = @ \cup {t}]
    BY DEF InitOnDsp, GetPerfCounter
  <2> QED BY <2>1, <1>1 DEF TypeOK
<1>3. CASE Fail(t) /\ UNCHANGED <<procs, hist>>
  <2>1. Relations' /\ pc' \in [Threads -> Labels] /\ arg' \in [Threads -> Args]
    BY <1>1, <1>3, EndMoves DEF Closing
  <2>2. TypeOK'
    BY <1>1, <1>2, <1>3, <2>1, TypeMoves
  <2> QED BY <2>1, <2>2 DEF IInv, Relations
<1>4. CASE /\ Bound(f) /\ Succeed(t) /\ procs' = procs \cup {p}
           /\ hist' = [hist EXCEPT !.excused = IF v # file[f].tgid THEN @ \cup {f} ELSE @]
  <2>1. /\ pc'[t] = "done" /\ arg' = arg /\ \A u \in Threads \ {t} : pc'[u] = pc[u]
        /\ pc' \in [Threads -> Labels] /\ arg' \in [Threads -> Args]
    BY <1>1, <1>4 DEF Succeed, Goto, TypeOK, Labels, Args
  <2>2. procs' \subseteq Files \X Channels \X {0, 1}
    <3>1. file[f].cid \in Channels
      BY <1>1, <1>4 DEF TypeOK, Bound
    <3>2. p \in Files \X Channels \X {0, 1}
      BY <3>1, <1>1
    <3> QED BY <3>2, <1>1, <1>4 DEF TypeOK
  <2>3. /\ hist' \in [raced : SUBSET Files, excused : SUBSET Files, probed : BOOLEAN]
        /\ hist'.raced = hist.raced /\ hist.excused \subseteq hist'.excused
        /\ v # file[f].tgid => f \in hist'.excused
    <3>1. hist \in [raced : SUBSET Files, excused : SUBSET Files, probed : BOOLEAN]
      BY <1>1 DEF TypeOK
    <3>2. CASE v = file[f].tgid
      BY <1>4, <3>1, <3>2
    <3>3. CASE v # file[f].tgid
      <4>1. hist' = [hist EXCEPT !.excused = @ \cup {f}]
        BY <1>4, <3>3
      <4> QED BY ONLY <3>1, <4>1, <1>1
    <3> QED BY <3>2, <3>3
  <2>4. TypeOK'
    BY <1>1, <1>2, <2>1, <2>2, <2>3, TypeFrame DEF TypeOK, FileRec
  <2>5. InOpenFile'
    BY <1>1, <2>1 DEF IInv, InOpenFile, Closing
  <2>6. QosNoted'
    BY <1>1, <2>1 DEF IInv, QosNoted, Closing
  <2>7. EntryExact'
    BY <1>1, <2>1 DEF IInv, EntryExact, Reading
  <2>8. OneBinder' /\ SessionOfChannel'
    BY <1>1, <2>1, <2>3 DEF IInv, OneBinder, Bound, SessionOfChannel
  <2>9. ProcessNamed'
    <3>0. file' = file
      BY <1>1
    <3> SUFFICES ASSUME NEW g \in Files, NEW ch \in Channels, NEW id \in {0, 1},
                        <<g, ch, id>> \in procs'
                 PROVE  /\ file[g].cid # Unset /\ file[g].state # "none"
                        /\ g \notin hist'.excused \cup hist'.raced =>
                             /\ file[g].cid = ch /\ file[g].tgid = id /\ file[g].state = "open"
                             /\ \A u \in Threads : pc'[u] = "free" => arg'[u].fl # g
      BY <3>0, Zenon DEF ProcessNamed, Bound
    <3>1. \A u \in Threads : pc'[u] = "free" => pc[u] = "free" /\ arg'[u] = arg[u]
      BY <1>1, <2>1
    <3>2. CASE <<g, ch, id>> \in procs
      <4>1. /\ file[g].cid # Unset /\ file[g].state # "none"
            /\ g \notin hist.excused \cup hist.raced =>
                 /\ file[g].cid = ch /\ file[g].tgid = id /\ file[g].state = "open"
                 /\ \A u \in Threads : pc[u] = "free" => arg[u].fl # g
        BY <3>2, Zenon DEF IInv, ProcessNamed, Bound
      <4> QED BY ONLY <4>1, <3>1, <2>3
    <3>3. CASE <<g, ch, id>> = p
      <4>1. g = f /\ ch = file[f].cid /\ id = v
        BY ONLY <3>3
      <4> QED BY <4>1, <1>1, <1>4, <2>3, <3>1 DEF Bound, Closing
    <3> QED BY <1>4, <3>2, <3>3
  <2> QED BY <2>4, <2>5, <2>6, <2>7, <2>8, <2>9 DEF IInv
<1>5. \/ Fail(t) /\ UNCHANGED <<procs, hist>>
      \/ /\ Bound(f) /\ Succeed(t) /\ procs' = procs \cup {p}
         /\ hist' = [hist EXCEPT !.excused = IF v # file[f].tgid THEN @ \cup {f} ELSE @]
  BY Zenon DEF InitOnDsp
<1> QED BY <1>3, <1>4, <1>5

\* fastrpc_device_release begins in a file that nobody uses.
LEMMA StepDeviceRelease ==
  ASSUME IInv, NEW t \in Threads, NEW f \in Files, DeviceRelease(t, f)
  PROVE  IInv'
<1> DEFINE a == [arg[t] EXCEPT !.fl = f]
<1>1. /\ pc[t] = "idle" /\ file[f].state = "open" /\ TypeOK
      /\ \A u \in Threads : pc[u] # "idle" => arg[u].fl # f
      /\ UNCHANGED <<file, perf, entries, reader, logging, secure, latency, procs, ops, hist>>
      /\ pc' = [pc EXCEPT ![t] = "remove"] /\ arg' = [arg EXCEPT ![t] = a]
      /\ qos' = [qos EXCEPT ![f] = IF file[f].qosreq THEN 0 ELSE @]
  BY DEF DeviceRelease, Busy, Goto, IInv
<1>2. a \in Args /\ a.fl = f /\ "remove" \in Labels
  BY <1>1, SMTT(30) DEF TypeOK, Args, Labels
<1> HIDE DEF a
<1>3. /\ pc'[t] = "remove" /\ arg'[t].fl = f
      /\ \A u \in Threads \ {t} : pc'[u] = pc[u] /\ arg'[u] = arg[u]
      /\ pc' \in [Threads -> Labels] /\ arg' \in [Threads -> Args]
  BY <1>1, <1>2, ThreadAssigned
<1>4. qos' \in [Files -> Int] /\ qos'[f] = 0 /\ \A g \in Files \ {f} : qos'[g] = qos[g]
  <2>1. ~file[f].qosreq => qos[f] = 0
    BY <1>1 DEF IInv, QosNoted
  <2> QED BY <1>1, <2>1 DEF TypeOK
<1>5. TypeOK'
  BY <1>1, <1>3, <1>4, TypeFrame DEF TypeOK, FileRec
<1>6. InOpenFile'
  BY <1>1, <1>3 DEF IInv, InOpenFile
<1>7. QosNoted'
  BY <1>1, <1>3, <1>4 DEF IInv, QosNoted, Closing
<1>8. EntryExact'
  BY <1>1, <1>3 DEF IInv, EntryExact, Reading
<1>9. OneBinder' /\ SessionOfChannel'
  BY <1>1, <1>3 DEF IInv, OneBinder, Bound, SessionOfChannel
<1>10. ProcessNamed'
  BY <1>1, <1>3, ProcessFrame DEF IInv, Bound
<1> QED BY <1>5, <1>6, <1>7, <1>8, <1>9, <1>10 DEF IInv

\* debugfs_remove.
LEMMA StepDebugfsRemove ==
  ASSUME FileAssumption, IInv, NEW t \in Threads, DebugfsRemove(t)
  PROVE  IInv'
<1> DEFINE f == arg[t].fl
<1>1. /\ pc[t] = "remove" /\ TypeOK /\ f \in Files /\ file[f].state = "open"
      /\ \A u \in Threads \ {t} : pc[u] # "idle" => arg[u].fl # f
      /\ UNCHANGED <<arg, file, qos, perf, reader, logging, secure, latency, procs, ops, hist>>
      /\ pc' = [pc EXCEPT ![t] = "release"]
      /\ \/ file[f].debugfs /\ ~(Reading /\ reader.fl = f) /\ entries' = Nil
         \/ ~file[f].debugfs /\ entries' = entries
  BY DEF DebugfsRemove, Goto, IInv, InOpenFile, Closing
<1>2. /\ pc'[t] = "release" /\ \A u \in Threads \ {t} : pc'[u] = pc[u]
      /\ pc' \in [Threads -> Labels] /\ arg' \in [Threads -> Args]
  BY <1>1 DEF TypeOK, Labels, Args
<1> HIDE DEF f
<1>3. TypeOK'
  BY <1>1, <1>2, TypeFrame DEF TypeOK, FileRec
<1>4. InOpenFile'
  BY <1>1, <1>2 DEF IInv, InOpenFile, Closing, f
<1>5. QosNoted'
  BY <1>1, <1>2 DEF IInv, QosNoted, Closing
<1>6. EntryExact'
  <2>1. entries = f <=> file[f].debugfs
    BY <1>1 DEF IInv, EntryExact, f
  <2>2. CASE file[f].debugfs
    <3>1. entries = f /\ entries' = Nil /\ ~Reading
      BY <2>1, <2>2, <1>1 DEF IInv, EntryExact
    <3>2. ~Reading'
      BY <3>1, <1>1 DEF Reading
    <3> QED BY <3>1, <3>2, <1>1, <1>2 DEF IInv, EntryExact, FileAssumption, f
  <2>3. CASE ~file[f].debugfs
    <3>1. entries # f /\ entries' = entries /\ (Reading' <=> Reading)
      BY <2>1, <2>3, <1>1 DEF Reading
    <3> QED BY <3>1, <1>1, <1>2 DEF IInv, EntryExact, f
  <2> QED BY <2>2, <2>3
<1>7. OneBinder' /\ SessionOfChannel'
  BY <1>1, <1>2 DEF IInv, OneBinder, Bound, SessionOfChannel
<1>8. ProcessNamed'
  BY <1>1, <1>2, ProcessFrame DEF IInv, Bound
<1> QED BY <1>3, <1>4, <1>5, <1>6, <1>7, <1>8 DEF IInv

\* fastrpc_release_current_dsp_process.
LEMMA StepReleaseProcess ==
  ASSUME IInv, NEW t \in Threads, ReleaseProcess(t)
  PROVE  IInv'
<1> DEFINE f == arg[t].fl
           p == <<f, file[f].cid, file[f].tgid>>
           NoneThere == ~ \E g \in Files, id \in {0, 1} : <<g, file[f].cid, id>> \in procs
<1>1. /\ pc[t] = "release" /\ TypeOK /\ f \in Files /\ file[f].state = "open"
      /\ UNCHANGED <<arg, file, qos, entries, reader, logging, secure, latency, ops>>
      /\ pc' = [pc EXCEPT ![t] = "free"]
  BY DEF ReleaseProcess, Goto, IInv, InOpenFile
<1>2. /\ pc'[t] = "free" /\ \A u \in Threads \ {t} : pc'[u] = pc[u]
      /\ pc' \in [Threads -> Labels] /\ arg' \in [Threads -> Args]
  BY <1>1 DEF TypeOK, Labels, Args
<1>3. /\ \/ NoneThere /\ procs' = procs /\ hist' = hist
         \/ procs' = procs \ {p} /\ hist' = hist
         \/ procs' = procs /\ hist' = [hist EXCEPT !.excused = @ \cup {f}]
      /\ perf' = perf \/ perf' = [perf EXCEPT ![f] = @ \cup {t}]
  BY Zenon DEF ReleaseProcess, GetPerfCounter, Bound
<1>4. /\ hist' \in [raced : SUBSET Files, excused : SUBSET Files, probed : BOOLEAN]
      /\ hist'.raced = hist.raced /\ hist.excused \subseteq hist'.excused
      /\ \/ f \in hist'.excused
         \/ hist' = hist /\ procs' = procs /\ NoneThere
         \/ hist' = hist /\ procs' = procs \ {p}
  <2> HIDE DEF p
  <2>1. hist \in [raced : SUBSET Files, excused : SUBSET Files, probed : BOOLEAN]
    BY <1>1 DEF TypeOK
  <2>2. hist' = hist \/ hist' = [hist EXCEPT !.excused = @ \cup {f}]
    BY <1>3
  <2>3. hist' = [hist EXCEPT !.excused = @ \cup {f}] => f \in hist'.excused
    BY ONLY <2>1
  <2>4. hist'.raced = hist.raced /\ hist.excused \subseteq hist'.excused
    BY ONLY <2>1, <2>2
  <2>5. hist' \in [raced : SUBSET Files, excused : SUBSET Files, probed : BOOLEAN]
    BY ONLY <1>1, <2>1, <2>2
  <2> QED BY ONLY <1>3, <2>3, <2>4, <2>5
<1>5. TypeOK'
  <2>1. perf' \in [Files -> SUBSET Threads]
    BY <1>1, <1>3 DEF TypeOK
  <2>2. procs' \subseteq procs
    BY <1>3
  <2>3. procs' \subseteq Files \X Channels \X {0, 1}
    BY <2>2, <1>1 DEF TypeOK
  <2> QED BY <1>1, <1>2, <1>4, <2>1, <2>3, TypeFrame DEF TypeOK, FileRec
<1>6. InOpenFile'
  BY <1>1, <1>2 DEF IInv, InOpenFile, Closing
<1>7. QosNoted'
  BY <1>1, <1>2 DEF IInv, QosNoted, Closing
<1>8. EntryExact'
  BY <1>1, <1>2 DEF IInv, EntryExact, Reading
<1>9. OneBinder' /\ SessionOfChannel'
  BY <1>1, <1>2, <1>4 DEF IInv, OneBinder, Bound, SessionOfChannel
<1>10. ProcessNamed'
  <2>0. file' = file /\ arg' = arg
    BY <1>1
  <2> SUFFICES ASSUME NEW g \in Files, NEW ch \in Channels, NEW id \in {0, 1},
                    <<g, ch, id>> \in procs'
               PROVE  /\ file[g].cid # Unset /\ file[g].state # "none"
                      /\ g \notin hist'.excused \cup hist'.raced =>
                           /\ file[g].cid = ch /\ file[g].tgid = id /\ file[g].state = "open"
                           /\ \A u \in Threads : pc'[u] = "free" => arg[u].fl # g
    BY <2>0, Zenon DEF ProcessNamed, Bound
  <2>1. <<g, ch, id>> \in procs
    BY <1>3
  <2>2. /\ file[g].cid # Unset /\ file[g].state # "none"
        /\ g \notin hist.excused \cup hist.raced =>
             /\ file[g].cid = ch /\ file[g].tgid = id /\ file[g].state = "open"
             /\ \A u \in Threads : pc[u] = "free" => arg[u].fl # g
    BY <2>1, Zenon DEF IInv, ProcessNamed, Bound
  <2>3. ASSUME g = f, g \notin hist'.excused \cup hist'.raced
        PROVE  FALSE
    <3>1. hist' = hist /\ g \notin hist.excused \cup hist.raced
      BY <2>3, <1>4
    <3>2. file[g].cid = ch /\ file[g].tgid = id
      BY <2>2, <3>1
    <3>3. <<g, ch, id>> = p
      BY <3>2, <2>3
    <3>4. procs' = procs \ {p}
      <4>1. ~NoneThere
        BY <2>1, <2>3, <3>2
      <4> QED BY <1>4, <2>3, <4>1
    <3> QED BY <3>3, <3>4
  <2>4. \A u \in Threads : pc'[u] = "free" => u = t \/ pc[u] = "free"
    BY <1>2
  <2> QED BY ONLY <2>2, <2>3, <2>4, <1>4
<1> QED BY <1>5, <1>6, <1>7, <1>8, <1>9, <1>10 DEF IInv

\* fastrpc_file_free.
LEMMA StepFileFree ==
  ASSUME IInv, NEW t \in Threads, FileFree(t)
  PROVE  IInv'
<1> DEFINE f == arg[t].fl
<1>1. /\ pc[t] = "free" /\ TypeOK /\ f \in Files /\ file[f].state = "open"
      /\ \A u \in Threads \ {t} : pc[u] # "idle" => arg[u].fl # f
      /\ UNCHANGED <<qos, entries, reader, logging, secure, latency, procs, ops, hist>>
      /\ pc' = [pc EXCEPT ![t] = "idle"] /\ arg' = [arg EXCEPT ![t] = NoArg]
  BY DEF FileFree, Fail, Goto, IInv, InOpenFile, Closing
<1>2. /\ pc'[t] = "idle"
      /\ \A u \in Threads \ {t} : pc'[u] = pc[u] /\ arg'[u] = arg[u]
      /\ pc' \in [Threads -> Labels] /\ arg' \in [Threads -> Args]
  <2>1. NoArg \in Args /\ "idle" \in Labels
    BY DEF NoArg, Args, Cmds, Labels
  <2> QED BY <2>1, <1>1, ThreadAssigned
<1>3. /\ file' \in [Files -> FileRec]
      /\ \A g \in Files \ {f} : file'[g] = file[g]
      /\ file'[f].state = "freed" /\ file'[f].cid = file[f].cid
      /\ file'[f].sctx = file[f].sctx
  <2>1. file \in [Files -> FileRec] /\ file' = [file EXCEPT ![f] = [@ EXCEPT !.state = "freed"]]
    BY <1>1 DEF FileFree, TypeOK, FileRec
  <2>2. [file[f] EXCEPT !.state = "freed"] \in FileRec
    <3>1. file[f] \in FileRec
      BY ONLY <2>1, <1>1
    <3> QED BY ONLY <3>1 DEF FileRec
  <2> QED BY ONLY <2>1, <2>2, <1>1 DEF FileRec
<1>4. perf' \in [Files -> SUBSET Threads]
  BY <1>1 DEF FileFree, TypeOK
<1> HIDE DEF f
<1>5. TypeOK'
  BY <1>1, <1>2, <1>3, <1>4, TypeFrame DEF TypeOK
<1>6. InOpenFile'
  BY <1>1, <1>2, <1>3 DEF IInv, InOpenFile, f
<1>7. QosNoted'
  BY <1>1, <1>2, <1>3 DEF IInv, QosNoted, Closing, f
<1>8. EntryExact'
  <2>1. entries # f
    BY <1>1 DEF IInv, EntryExact, f
  <2> QED BY <2>1, <1>1, <1>2, <1>3 DEF IInv, EntryExact, Reading, f
<1>9. OneBinder' /\ SessionOfChannel'
  BY <1>1, <1>2, <1>3 DEF IInv, OneBinder, Bound, SessionOfChannel
<1>10. ProcessNamed'
  <2> SUFFICES ASSUME NEW g \in Files, NEW ch \in Channels, NEW id \in {0, 1},
                    <<g, ch, id>> \in procs
               PROVE  /\ file'[g].cid # Unset /\ file'[g].state # "none"
                      /\ g \notin hist.excused \cup hist.raced =>
                           /\ file'[g].cid = ch /\ file'[g].tgid = id /\ file'[g].state = "open"
                           /\ \A u \in Threads : pc'[u] = "free" => arg'[u].fl # g
    BY <1>1, Zenon DEF ProcessNamed, Bound
  <2>1. /\ file[g].cid # Unset /\ file[g].state # "none"
        /\ g \notin hist.excused \cup hist.raced =>
             /\ file[g].cid = ch /\ file[g].tgid = id /\ file[g].state = "open"
             /\ \A u \in Threads : pc[u] = "free" => arg[u].fl # g
    BY Zenon DEF IInv, ProcessNamed, Bound
  <2>2. \A u \in Threads : pc'[u] = "free" => pc[u] = "free" /\ arg'[u] = arg[u]
    BY <1>1, <1>2
  <2>3. g = f => g \in hist.excused \cup hist.raced
    BY <2>1, <1>1, Zenon DEF f
  <2> QED BY ONLY <2>1, <2>2, <2>3, <1>3, g \in Files
<1> QED BY <1>5, <1>6, <1>7, <1>8, <1>9, <1>10 DEF IInv

\* fastrpc_device_open.
LEMMA StepDeviceOpen ==
  ASSUME FileAssumption, IInv, NEW f \in Files, NEW node \in Nodes, DeviceOpen(f, node)
  PROVE  IInv'
<1>1. /\ file[f].state = "none" /\ TypeOK
      /\ UNCHANGED <<pc, arg, qos, perf, reader, logging, secure, latency, procs, ops, hist>>
      /\ entries' = IF entries = Nil THEN f ELSE entries
      /\ \A u \in Threads : pc[u] # "idle" => arg[u].fl # f
  BY DEF DeviceOpen, IInv, InOpenFile
<1>2. /\ file' \in [Files -> FileRec]
      /\ \A g \in Files \ {f} : file'[g] = file[g]
      /\ file'[f].state = "open" /\ file'[f].cid = Unset /\ file'[f].sctx = Nil
      /\ file'[f].debugfs <=> entries = Nil
  <2> DEFINE n == [NewFile(node) EXCEPT !.debugfs = entries = Nil]
  <2>1. /\ n.state = "open" /\ n.cid = Unset /\ n.sctx = Nil
        /\ n.debugfs <=> entries = Nil
    BY DEF NewFile
  <2>2. n \in FileRec
    <3>1. \A b \in BOOLEAN : [NewFile(node) EXCEPT !.debugfs = b] \in FileRec
      BY DEF FileRec, NewFile
    <3> QED BY <3>1
  <2>3. file' = [file EXCEPT ![f] = n]
    BY DEF DeviceOpen
  <2>4. file \in [Files -> FileRec]
    BY <1>1 DEF TypeOK, FileRec
  <2> HIDE DEF n
  <2> QED BY ONLY <2>1, <2>2, <2>3, <2>4, f \in Files
<1>3. TypeOK'
  BY <1>1, <1>2, TypeFrame DEF TypeOK, Labels, Args
<1>4. InOpenFile'
  BY <1>1, <1>2 DEF IInv, InOpenFile
<1>5. QosNoted'
  BY <1>1, <1>2 DEF IInv, QosNoted, Closing
<1>6. EntryExact'
  BY <1>1, <1>2 DEF IInv, EntryExact, Reading, FileAssumption, TypeOK
<1>7. OneBinder' /\ SessionOfChannel'
  <2>1. Bound(f)' = FALSE
    BY <1>2 DEF Bound
  <2> QED BY <2>1, <1>1, <1>2 DEF IInv, OneBinder, Bound, SessionOfChannel
<1>8. ProcessNamed'
  <2> SUFFICES ASSUME NEW g \in Files, NEW ch \in Channels, NEW id \in {0, 1},
                    <<g, ch, id>> \in procs
               PROVE  /\ file'[g].cid # Unset /\ file'[g].state # "none"
                      /\ g \notin hist.excused \cup hist.raced =>
                           /\ file'[g].cid = ch /\ file'[g].tgid = id /\ file'[g].state = "open"
                           /\ \A u \in Threads : pc[u] = "free" => arg[u].fl # g
    BY <1>1, Zenon DEF ProcessNamed, Bound
  <2>1. /\ file[g].cid # Unset /\ file[g].state # "none"
        /\ g \notin hist.excused \cup hist.raced =>
             /\ file[g].cid = ch /\ file[g].tgid = id /\ file[g].state = "open"
             /\ \A u \in Threads : pc[u] = "free" => arg[u].fl # g
    BY Zenon DEF IInv, ProcessNamed, Bound
  <2>2. g # f /\ file'[g] = file[g]
    BY <2>1, <1>1, <1>2
  <2> QED BY ONLY <2>1, <2>2
<1> QED BY <1>3, <1>4, <1>5, <1>6, <1>7, <1>8 DEF IInv

\* A step of the debugfs reader, the logging switch or a probe leaves the files alone.
LEMMA OutsideFrame ==
  ASSUME IInv, UNCHANGED <<pc, arg, file, qos, perf, entries, procs, ops>>,
         reader' \in [at : {"closed", "open", "in", "lists", "dead"}, fl : Files \cup {Nil}],
         Reading' => reader'.fl \in Files /\ reader'.fl = entries,
         logging' \in BOOLEAN, secure' \subseteq Channels, latency' \in Nat,
         hist' \in [raced : SUBSET Files, excused : SUBSET Files, probed : BOOLEAN],
         hist'.raced = hist.raced, hist'.excused = hist.excused
  PROVE  IInv'
<1>1. TypeOK'
  BY DEF IInv, TypeOK
<1>2. InOpenFile' /\ QosNoted'
  BY DEF IInv, InOpenFile, QosNoted
<1>3. EntryExact'
  BY DEF IInv, EntryExact
<1>4. OneBinder' /\ SessionOfChannel'
  BY DEF IInv, OneBinder, Bound, SessionOfChannel
<1>5. ProcessNamed'
  BY ProcessFrame DEF IInv, Bound
<1> QED BY <1>1, <1>2, <1>3, <1>4, <1>5 DEF IInv

\* The reader of debugfs, the logging switch and a probe.
LEMMA StepOutside ==
  ASSUME FileAssumption, IInv,
         \/ DebugfsOpen \/ DebugfsClose \/ DebugfsRead \/ DebugfsReadFile \/ DebugfsReadLists
         \/ DebugfsWrite \/ Probe \/ UNCHANGED vars
  PROVE  IInv'
<1>0. /\ TypeOK /\ (Reading => reader.fl \in Files /\ reader.fl = entries)
      /\ reader \in [at : {"closed", "open", "in", "lists", "dead"}, fl : Files \cup {Nil}]
      /\ logging \in BOOLEAN /\ secure \subseteq Channels /\ latency \in Nat
      /\ hist \in [raced : SUBSET Files, excused : SUBSET Files, probed : BOOLEAN]
      /\ entries \in Files \cup {Nil}
  BY DEF IInv, EntryExact, TypeOK
<1>1. CASE DebugfsOpen
  BY <1>0, <1>1, OutsideFrame DEF DebugfsOpen, allButReader, Reading
<1>2. CASE DebugfsClose
  BY <1>0, <1>2, OutsideFrame DEF DebugfsClose, Closed, allButReader, Reading
<1>3. CASE DebugfsRead
  BY <1>0, <1>3, OutsideFrame DEF DebugfsRead, allButReader, Reading
<1>4. CASE DebugfsReadFile
  BY <1>0, <1>4, OutsideFrame DEF DebugfsReadFile, allButReader, Reading
<1>5. CASE DebugfsReadLists
  BY <1>0, <1>5, OutsideFrame DEF DebugfsReadLists, allButReader, Reading
<1>6. CASE DebugfsWrite
  <2>1. logging' \in BOOLEAN
    BY <1>0, <1>6, Zenon DEF DebugfsWrite, Switched
  <2> QED BY <1>0, <1>6, <2>1, OutsideFrame DEF DebugfsWrite, Reading
<1>7. CASE Probe
  <2>1. hist' = [hist EXCEPT !.probed = TRUE] /\ secure' \subseteq Channels /\ latency' \in Nat
    BY <1>7 DEF Probe
  <2>2. /\ hist' \in [raced : SUBSET Files, excused : SUBSET Files, probed : BOOLEAN]
        /\ hist'.raced = hist.raced /\ hist'.excused = hist.excused
    BY ONLY <1>0, <2>1
  <2> QED BY <1>0, <1>7, <2>1, <2>2, OutsideFrame DEF Probe, Reading
<1>8. CASE UNCHANGED vars
  BY <1>0, <1>8, OutsideFrame DEF vars, Reading
<1> QED BY <1>1, <1>2, <1>3, <1>4, <1>5, <1>6, <1>7, <1>8

\* Every step preserves the invariant.
LEMMA NextIInv ==
  ASSUME FileAssumption, IInv, [Next]_vars
  PROVE  IInv'
<1>1. ASSUME NEW t \in Threads, NEW f \in Files, NEW cmd \in Cmds, Ioctl(t, f, cmd) PROVE IInv'
  BY <1>1, StepIoctl
<1>2. ASSUME NEW t \in Threads, NEW f \in Files, DeviceRelease(t, f) PROVE IInv'
  BY <1>2, StepDeviceRelease
<1>3. ASSUME NEW t \in Threads,
             \/ Dispatch(t) \/ IoctlDone(t) \/ ControlOther(t) \/ GetPerf(t)
             \/ InternalInvoke(t) \/ InternalMmap(t)
      PROVE  IInv'
  BY <1>3, StepDispatch, StepEnds, StepCalls
<1>4. ASSUME NEW t \in Threads, GetInfo(t) \/ GetInfoCid(t) \/ GetInfoSession(t) PROVE IInv'
  BY <1>4, StepGetInfo, StepGetInfoCid, StepGetInfoSession
<1>5. ASSUME NEW t \in Threads, ControlLatency(t) \/ QosAdd(t) \/ QosSet(t) PROVE IInv'
  BY <1>5, StepControlLatency, StepQosAdd, StepQosSet
<1>6. ASSUME NEW t \in Threads, SetMode(t) \/ InitProcess(t) \/ InitOnDsp(t) PROVE IInv'
  BY <1>6, StepSetMode, StepInitProcess, StepInitOnDsp
<1>7. ASSUME NEW t \in Threads, DebugfsRemove(t) \/ ReleaseProcess(t) \/ FileFree(t) PROVE IInv'
  BY <1>7, StepDebugfsRemove, StepReleaseProcess, StepFileFree
<1>8. ASSUME NEW f \in Files, NEW node \in Nodes, DeviceOpen(f, node) PROVE IInv'
  BY <1>8, StepDeviceOpen
<1> QED BY <1>1, <1>2, <1>3, <1>4, <1>5, <1>6, <1>7, <1>8, StepOutside DEF Next

-----------------------------------------------------------------------------
(* Theorems *)

\* The invariant holds in every reachable state of the device files.
THEOREM Inductive == Spec => []IInv
<1>1. Init => IInv BY FileAssumption, InitIInv
<1>2. IInv /\ [Next]_vars => IInv' BY FileAssumption, NextIInv
<1> QED BY <1>1, <1>2, PTL DEF Spec

\* No request of a freed file stays in the PM QoS list, however many CONTROLs of the
\* process add and note it at the same time.
THEOREM QosReleasedHolds == Spec => []QosReleased
<1>1. IInv => QosReleased BY DEF IInv, QosNoted, QosReleased, Freed
<1> QED BY <1>1, Inductive, PTL

\* Whoever is inside a read of a file's debugfs entry reads a file that has not been
\* freed.
THEOREM ReaderLiveHolds == Spec => []ReaderLive
<1>1. IInv => ReaderLive BY DEF IInv, EntryExact, ReaderLive, Freed
<1> QED BY <1>1, Inductive, PTL

\* A file's session belongs to the file's channel, unless two GETINFOs raced for it.
THEOREM SessionOfChannelHolds == Spec => []SessionOfChannel
<1>1. IInv => SessionOfChannel BY DEF IInv
<1> QED BY <1>1, Inductive, PTL

\* A process that a file created on a DSP ends with the file, whatever ioctls ran beside
\* its INIT, unless the release failed, SETMODE made the file's name another one than the
\* process has, or two GETINFOs raced for the file's channel.
THEOREM ProcessEndsHolds == Spec => []ProcessEnds
<1>1. IInv => ProcessEnds BY DEF IInv, ProcessNamed, ProcessEnds, Freed
<1> QED BY <1>1, Inductive, PTL
=============================================================================
