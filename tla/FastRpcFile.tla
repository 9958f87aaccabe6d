----------------------------- MODULE FastRpcFile -----------------------------
(***************************************************************************)
(* A file of the FastRPC device (android/adsprpc.c) as its users see it:   *)
(* open, the dispatch of ioctls, GETINFO, CONTROL, SETMODE and GETPERF,    *)
(* the performance records, the debugfs entries with their reader and the  *)
(* logging switch, and release. INVOKE, MMAP and INIT appear with their    *)
(* entry checks and with what they leave behind in the file or on the DSP. *)
(*                                                                         *)
(* A step is one access to state that several threads of a process share;  *)
(* the driver takes no lock around them. A struct fastrpc_file is never    *)
(* reused: a file that is opened again is another member of Files.         *)
(***************************************************************************)
EXTENDS Integers, FiniteSets

CONSTANTS
  Threads,    \* threads of the user's process
  Files,      \* struct fastrpc_file
  Channels,   \* channel ids
  Cdsp,       \* CDSP_DOMAIN_ID
  Nil,        \* the NULL pointer
  MaxOps      \* bound: ioctls started

ASSUME FileAssumption ==
  /\ Channels \subseteq Nat /\ Cdsp \in Channels
  /\ Nil \notin Files \cup Channels
  /\ MaxOps \in Nat

VARIABLES
  pc,         \* what a thread comes to next
  arg,        \* the file it uses and its local variable
  file,       \* struct fastrpc_file
  qos,        \* latency a file's request holds in the PM QoS list; 0: not listed
  perf,       \* threads with a record in fl->perf
  entries,    \* the debugfs entry of the process: the file it shows
  reader,     \* a process that reads debugfs: where it is, and filp->private_data
  logging,    \* logging_enabled
  secure,     \* channels with secure = SECURE_CHANNEL
  latency,    \* me->latency
  procs,      \* processes on a DSP, by file, channel and the tgid that names them
  ops,        \* ioctls so far
  hist        \* what happened, for the properties

vars == <<pc, arg, file, qos, perf, entries, reader, logging, secure, latency, procs,
          ops, hist>>

allButReader == <<pc, arg, file, qos, perf, entries, logging, secure, latency, procs,
                  ops, hist>>
shared == <<qos, perf, entries, reader, logging, secure, latency, procs>>

Nodes == {"plain", "secure"}     \* MINOR_NUM_DEV and MINOR_NUM_SECURE_DEV
Unset == -1
Default == -1                    \* PM_QOS_DEFAULT_VALUE
Cmds == {"getinfo", "latency", "setmode", "getperf", "invoke", "mmap", "pages",
         "init", "bad"}

\* The state of a file that kzalloc and fastrpc_device_open leave. A session is named
\* by the channel it belongs to; tgid is 0, or 1 with the bit SESSION_ID_INDEX.
NewFile(node) ==
  [state |-> "open", node |-> node, cid |-> Unset, sctx |-> Nil, tgid |-> 0,
   qosreq |-> FALSE, debugfs |-> FALSE]

Closed == [at |-> "closed", fl |-> Nil]

NoArg == [fl |-> Nil, cmd |-> "bad", val |-> 0]

TypeOK ==
  /\ pc \in [Threads -> {"idle", "enter", "cid", "session", "qosadd", "qosset", "done",
                         "initdsp", "remove", "release", "free"} \cup Cmds]
  /\ arg \in [Threads -> [fl : Files \cup {Nil}, cmd : Cmds, val : Int]]
  /\ file \in [Files -> [state : {"none", "open", "freed"}, node : Nodes,
                         cid : Channels \cup {Unset}, sctx : Channels \cup {Nil},
                         tgid : {0, 1}, qosreq : BOOLEAN, debugfs : BOOLEAN]]
  /\ qos \in [Files -> Int]
  /\ perf \in [Files -> SUBSET Threads]
  /\ entries \in Files \cup {Nil}
  /\ reader \in [at : {"closed", "open", "in", "lists", "dead"}, fl : Files \cup {Nil}]
  /\ logging \in BOOLEAN
  /\ secure \subseteq Channels
  /\ latency \in Nat
  /\ procs \subseteq Files \X Channels \X {0, 1}
  /\ ops \in 0 .. MaxOps
  /\ hist \in [raced : SUBSET Files, excused : SUBSET Files, probed : BOOLEAN]

Init ==
  /\ pc = [t \in Threads |-> "idle"]
  /\ arg = [t \in Threads |-> NoArg]
  /\ file = [f \in Files |-> [NewFile("plain") EXCEPT !.state = "none"]]
  /\ qos = [f \in Files |-> 0]
  /\ perf = [f \in Files |-> {}]
  /\ entries = Nil
  /\ reader = Closed
  /\ logging = TRUE
  /\ secure = Channels \ {Cdsp}
  /\ latency = 0
  /\ procs = {}
  /\ ops = 0
  /\ hist = [raced |-> {}, excused |-> {}, probed |-> FALSE]

-----------------------------------------------------------------------------
Goto(t, label) == pc' = [pc EXCEPT ![t] = label]
Bound(f) == file[f].cid # Unset
Reading == reader.at \in {"in", "lists", "dead"}
Busy(f) == \E t \in Threads : pc[t] # "idle" /\ arg[t].fl = f

\* An error path leaves the ioctl at once; success goes on to its last log line.
Fail(t) == /\ Goto(t, "idle")
           /\ arg' = [arg EXCEPT ![t] = NoArg]
Succeed(t) == /\ Goto(t, "done")
              /\ UNCHANGED arg

\* Mutant of DeviceOpen: the entry is not noted in the file.
DeviceOpenUnnoted(f, node) ==
  /\ file[f].state = "none"
  /\ file' = [file EXCEPT ![f] = NewFile(node)]
  /\ entries' = IF entries = Nil THEN f ELSE entries
  /\ UNCHANGED <<pc, arg, qos, perf, reader, logging, secure, latency, procs, ops, hist>>

\* fastrpc_device_open. A process that has an entry in debugfs gets no second one: the
\* name is made of the command and the pid.
DeviceOpen(f, node) ==
  /\ file[f].state = "none"
  /\ file' = [file EXCEPT ![f] = [NewFile(node) EXCEPT !.debugfs = entries = Nil]]
  /\ entries' = IF entries = Nil THEN f ELSE entries
  /\ UNCHANGED <<pc, arg, qos, perf, reader, logging, secure, latency, procs, ops, hist>>

\* fastrpc_device_ioctl enters a file that is not being closed ...
Ioctl(t, f, cmd) ==
  /\ pc[t] = "idle" /\ file[f].state = "open" /\ ops < MaxOps
  /\ \A u \in Threads : ~(pc[u] \in {"remove", "release", "free"} /\ arg[u].fl = f)
  /\ ops' = ops + 1
  /\ arg' = [arg EXCEPT ![t] = [fl |-> f, cmd |-> cmd, val |-> 0]]
  /\ Goto(t, "enter")
  /\ UNCHANGED <<file, shared, hist>>

\* A failing copy from user space or a length out of range ends a command that has a
\* structure for its parameter.
Rejected(cmd) == cmd # "setmode"

\* ... logs the name of the file's channel if logging is on, and comes to the command.
\* An unknown command ends it, too.
Dispatch(t) ==
  /\ pc[t] = "enter"
  /\ \/ arg[t].cmd # "bad" /\ Goto(t, arg[t].cmd) /\ UNCHANGED arg
     \/ Rejected(arg[t].cmd) /\ Fail(t)
  /\ UNCHANGED <<file, shared, ops, hist>>

\* The end of a successful ioctl, with a log line; copying a result back may fail.
IoctlDone(t) ==
  /\ pc[t] = "done"
  /\ Fail(t)
  /\ UNCHANGED <<file, shared, ops, hist>>

-----------------------------------------------------------------------------
(* GETINFO *)

\* A channel restricted to the secure node is refused to the other one.
Refused(f, c) == file[f].node = "plain" /\ c \in secure

\* Mutant of GetInfo: a file that has a channel is bound again.
GetInfoAgain(t) ==
  LET f == arg[t].fl IN
  /\ pc[t] = "getinfo"
  /\ \E c \in Channels : /\ ~Refused(f, c)
                         /\ arg' = [arg EXCEPT ![t].val = c]
                         /\ Goto(t, "cid")
  /\ UNCHANGED <<file, shared, ops, hist>>

\* fastrpc_get_info reads fl->cid and checks the channel asked for ...
GetInfo(t) ==
  LET f == arg[t].fl IN
  /\ pc[t] = "getinfo"
  /\ \/ /\ Bound(f) /\ file[f].sctx # Nil
        /\ Succeed(t)
     \/ /\ Bound(f) /\ file[f].sctx = Nil
        /\ Fail(t)
     \/ \E c \in Channels :
          /\ ~Bound(f) /\ Refused(f, c)
          /\ Fail(t)
     \/ \E c \in Channels :
          /\ ~Bound(f) /\ ~Refused(f, c)
          /\ arg' = [arg EXCEPT ![t].val = c]
          /\ Goto(t, "cid")
  /\ UNCHANGED <<file, shared, ops, hist>>

\* ... sets it, which a second GETINFO may have done in the meantime ...
GetInfoCid(t) ==
  LET f == arg[t].fl IN
  /\ pc[t] = "cid"
  /\ file' = [file EXCEPT ![f].cid = arg[t].val]
  /\ hist' = [hist EXCEPT !.raced =
                IF \E u \in Threads \ {t} : pc[u] \in {"cid", "session"} /\ arg[u].fl = f
                THEN @ \cup {f} ELSE @]
  /\ Goto(t, "session")
  /\ UNCHANGED <<arg, shared, ops>>

\* ... and asks the channel for a session (FastRpcSession), which may have none.
GetInfoSession(t) ==
  LET f == arg[t].fl IN
  /\ pc[t] = "session"
  /\ \/ /\ file' = [file EXCEPT ![f].sctx = arg[t].val]
        /\ Succeed(t)
     \/ /\ Fail(t)
        /\ UNCHANGED file
  /\ UNCHANGED <<shared, ops, hist>>

-----------------------------------------------------------------------------
(* CONTROL, SETMODE, GETPERF *)

\* fastrpc_internal_control, FASTRPC_CONTROL_LATENCY: fl->qos_request is read; no
\* latency configured is an error.
ControlLatency(t) ==
  LET f == arg[t].fl IN
  /\ pc[t] = "latency"
  /\ \E lat \in {latency, Default} :
       \/ /\ lat = 0
          /\ Fail(t)
          /\ UNCHANGED qos
       \/ /\ lat # 0 /\ file[f].qosreq
          /\ qos' = [qos EXCEPT ![f] = lat]
          /\ Succeed(t)
       \/ /\ lat # 0 /\ ~file[f].qosreq
          /\ arg' = [arg EXCEPT ![t].val = lat]
          /\ Goto(t, "qosadd")
          /\ UNCHANGED qos
  /\ UNCHANGED <<file, perf, entries, reader, logging, secure, latency, procs, ops, hist>>

\* pm_qos_add_request: a request that is listed already stays as it is.
QosAdd(t) ==
  LET f == arg[t].fl IN
  /\ pc[t] = "qosadd"
  /\ qos' = [qos EXCEPT ![f] = IF @ = 0 THEN arg[t].val ELSE @]
  /\ Goto(t, "qosset")
  /\ UNCHANGED <<arg, file, perf, entries, reader, logging, secure, latency, procs, ops, hist>>

\* Mutant of QosSet: the request is not noted in the file.
QosSetForgotten(t) ==
  /\ pc[t] = "qosset"
  /\ Succeed(t)
  /\ UNCHANGED <<file, shared, ops, hist>>

\* fl->qos_request = 1.
QosSet(t) ==
  /\ pc[t] = "qosset"
  /\ file' = [file EXCEPT ![arg[t].fl].qosreq = TRUE]
  /\ Succeed(t)
  /\ UNCHANGED <<shared, ops, hist>>

\* FASTRPC_CONTROL_KALLOC, FASTRPC_CONTROL_SMMU (FastRpcSession) or an unknown request.
ControlOther(t) ==
  /\ pc[t] = "latency"
  /\ Succeed(t) \/ Fail(t)
  /\ UNCHANGED <<file, shared, ops, hist>>

\* SETMODE; the bit SESSION_ID_INDEX of fl->tgid is set and never cleared. A process
\* that INIT has already created on the DSP keeps the name it has. fl->mode and fl->profile are
\* parameters of later calls that nothing here depends on.
SetMode(t) ==
  LET f == arg[t].fl IN
  /\ pc[t] = "setmode"
  /\ \/ /\ Succeed(t)
        /\ UNCHANGED <<file, hist>>
     \/ /\ file' = [file EXCEPT ![f].tgid = 1]
        /\ hist' = [hist EXCEPT !.excused =
                      IF \E c \in Channels : <<f, c, 0>> \in procs THEN @ \cup {f} ELSE @]
        /\ Succeed(t)
  /\ UNCHANGED <<shared, ops>>

\* GETPERF looks for the caller's record under perf_mutex.
GetPerf(t) ==
  /\ pc[t] = "getperf"
  /\ Succeed(t)
  /\ UNCHANGED <<file, shared, ops, hist>>

-----------------------------------------------------------------------------
(* The entry of INVOKE, MMAP and INIT *)

\* getperfcounter: the caller's record in fl->perf, made on its first call.
GetPerfCounter(t, f) == perf' = [perf EXCEPT ![f] = @ \cup {t}]

\* fastrpc_internal_invoke: the record comes before the checks, and the path a failed
\* check takes still compares the restart count of the file's channel.
InternalInvoke(t) ==
  LET f == arg[t].fl IN
  /\ pc[t] = "invoke"
  /\ GetPerfCounter(t, f)
  /\ \/ Fail(t)
     \/ Bound(f) /\ file[f].sctx # Nil /\ Succeed(t)
  /\ UNCHANGED <<file, qos, entries, reader, logging, secure, latency, procs, ops, hist>>

\* fastrpc_internal_mmap: fastrpc_mmap_create takes the channel of the file, and
\* fastrpc_buf_alloc its session, unchecked; the call to the DSP then fails.
InternalMmap(t) ==
  LET f == arg[t].fl IN
  /\ pc[t] \in {"mmap", "pages"}
  /\ \/ /\ Fail(t)
        /\ UNCHANGED perf
     \/ /\ GetPerfCounter(t, f)
        /\ \/ Fail(t)
           \/ Bound(f) /\ file[f].sctx # Nil /\ Succeed(t)
  /\ UNCHANGED <<file, qos, entries, reader, logging, secure, latency, procs, ops, hist>>

\* fastrpc_init_process: fastrpc_channel_open checks the session, and the message for the
\* DSP names the process. FASTRPC_INIT_ATTACH and FASTRPC_INIT_CREATE read fl->tgid for
\* it; FASTRPC_INIT_CREATE_STATIC takes current->tgid, which is the opener's and has no
\* session bit, and does nothing at all when no name is given.
InitProcess(t) ==
  LET f == arg[t].fl IN
  /\ pc[t] = "init"
  /\ \/ Fail(t)
     \/ /\ Bound(f) /\ file[f].sctx # Nil
        /\ \/ Succeed(t)
           \/ \E name \in {file[f].tgid, 0} :
                /\ arg' = [arg EXCEPT ![t].val = name]
                /\ Goto(t, "initdsp")
  /\ UNCHANGED <<file, shared, ops, hist>>

\* The call that creates the process comes after the mappings of INIT. In the meantime
\* SETMODE may have renamed the file; release will then ask for another process.
InitOnDsp(t) ==
  LET f == arg[t].fl IN
  /\ pc[t] = "initdsp"
  /\ GetPerfCounter(t, f)
  /\ \/ /\ Fail(t)
        /\ UNCHANGED <<procs, hist>>
     \/ /\ Bound(f)
        /\ procs' = procs \cup {<<f, file[f].cid, arg[t].val>>}
        /\ hist' = [hist EXCEPT !.excused =
                      IF arg[t].val # file[f].tgid THEN @ \cup {f} ELSE @]
        /\ Succeed(t)
  /\ UNCHANGED <<file, qos, entries, reader, logging, secure, latency, ops>>

-----------------------------------------------------------------------------
(* Release *)

\* fastrpc_device_release, once the last descriptor is closed and no ioctl is running:
\* the QoS request is removed ...
DeviceRelease(t, f) ==
  /\ pc[t] = "idle" /\ file[f].state = "open" /\ ~Busy(f)
  /\ arg' = [arg EXCEPT ![t].fl = f]
  /\ qos' = [qos EXCEPT ![f] = IF file[f].qosreq THEN 0 ELSE @]
  /\ Goto(t, "remove")
  /\ UNCHANGED <<file, perf, entries, reader, logging, secure, latency, procs, ops, hist>>

\* ... then the entry in debugfs; debugfs_remove waits for whoever is reading it.
DebugfsRemove(t) ==
  /\ pc[t] = "remove"
  /\ \/ /\ file[arg[t].fl].debugfs /\ ~(Reading /\ reader.fl = arg[t].fl)
        /\ entries' = Nil
     \/ /\ ~file[arg[t].fl].debugfs
        /\ UNCHANGED entries
  /\ Goto(t, "release")
  /\ UNCHANGED <<arg, file, qos, perf, reader, logging, secure, latency, procs, ops, hist>>

\* Mutant of ReleaseProcess: the call names the process without the session bit.
ReleaseProcessBare(t) ==
  LET f == arg[t].fl IN
  /\ pc[t] = "release"
  /\ procs' = procs \ {<<f, file[f].cid, 0>>}
  /\ Goto(t, "free")
  /\ UNCHANGED <<arg, file, qos, perf, entries, reader, logging, secure, latency, ops, hist>>

\* fastrpc_release_current_dsp_process, a call like any other: the process that
\* fl->tgid names on the file's channel ends. The call needs an open channel, which a
\* process there implies, and may fail.
ReleaseProcess(t) ==
  LET f == arg[t].fl IN
  /\ pc[t] = "release"
  /\ \/ /\ ~ \E g \in Files, id \in {0, 1} : <<g, file[f].cid, id>> \in procs
        /\ UNCHANGED <<perf, procs, hist>>
     \/ /\ Bound(f)
        /\ GetPerfCounter(t, f)
        /\ \/ procs' = procs \ {<<f, file[f].cid, file[f].tgid>>} /\ UNCHANGED hist
           \/ hist' = [hist EXCEPT !.excused = @ \cup {f}] /\ UNCHANGED procs
  /\ Goto(t, "free")
  /\ UNCHANGED <<arg, file, qos, entries, reader, logging, secure, latency, ops>>

\* fastrpc_file_free; a file without a session is freed at once.
FileFree(t) ==
  LET f == arg[t].fl IN
  /\ pc[t] = "free"
  /\ file' = [file EXCEPT ![f].state = "freed"]
  /\ \/ /\ file[f].sctx = Nil
        /\ UNCHANGED perf
     \/ /\ file[f].sctx # Nil
        /\ perf' = [perf EXCEPT ![f] = {}]
  /\ Fail(t)
  /\ UNCHANGED <<qos, entries, reader, logging, secure, latency, procs, ops, hist>>

-----------------------------------------------------------------------------
(* debugfs and the platform devices *)

\* fastrpc_debugfs_open: filp->private_data is the file that the entry shows, or NULL in
\* the entry "global".
DebugfsOpen ==
  /\ reader.at = "closed"
  /\ \E f \in {entries, Nil} : reader' = [at |-> "open", fl |-> f]
  /\ UNCHANGED allButReader

\* The reader closes its descriptor.
DebugfsClose ==
  /\ reader.at = "open"
  /\ reader' = Closed
  /\ UNCHANGED allButReader

\* fastrpc_debugfs_read. debugfs lets it in as long as the entry is there. The table of
\* channels that "global" shows has no part in this module.
DebugfsRead ==
  /\ reader.at = "open" /\ reader.fl \in {entries, Nil}
  /\ reader' = [reader EXCEPT !.at = IF reader.fl = Nil THEN "open" ELSE "in"]
  /\ UNCHANGED allButReader

\* It dereferences fl->sctx unchecked: before GETINFO the reader dies in the kernel, and
\* what it holds there is never given back.
DebugfsReadFile ==
  /\ reader.at = "in"
  /\ reader' = [reader EXCEPT !.at = IF file[reader.fl].sctx = Nil THEN "dead" ELSE "lists"]
  /\ UNCHANGED allButReader

\* The lists of the file, under hlock, and the logging status.
DebugfsReadLists ==
  /\ reader.at = "lists"
  /\ reader' = [reader EXCEPT !.at = "open"]
  /\ UNCHANGED allButReader

\* disable_logging, enable_logging and get_logging_status.
Switched(option) == CASE option = 0 -> FALSE
                      [] option = 1 -> TRUE
                      [] OTHER -> logging

\* fastrpc_debugfs_write. What it returns for an option other than 0 and 1 is whatever
\* its variable ret holds.
DebugfsWrite ==
  /\ \E option \in 0 .. 2 : logging' = Switched(option)
  /\ UNCHANGED <<pc, arg, file, qos, perf, entries, reader, secure, latency, procs, ops, hist>>

\* fastrpc_probe of the compute device: the latency and the channels that are secure.
\* It may run when files are open already.
Probe ==
  /\ ~hist.probed
  /\ secure' \in SUBSET Channels
  /\ latency' \in {0, 1}
  /\ hist' = [hist EXCEPT !.probed = TRUE]
  /\ UNCHANGED <<pc, arg, file, qos, perf, entries, reader, logging, procs, ops>>

Next ==
  \/ \E t \in Threads :
       \/ \E f \in Files : \/ \E cmd \in Cmds : Ioctl(t, f, cmd)
                           \/ DeviceRelease(t, f)
       \/ Dispatch(t) \/ IoctlDone(t)
       \/ GetInfo(t) \/ GetInfoCid(t) \/ GetInfoSession(t)
       \/ ControlLatency(t) \/ QosAdd(t) \/ QosSet(t) \/ ControlOther(t)
       \/ SetMode(t) \/ GetPerf(t)
       \/ InternalInvoke(t) \/ InternalMmap(t) \/ InitProcess(t) \/ InitOnDsp(t)
       \/ DebugfsRemove(t) \/ ReleaseProcess(t) \/ FileFree(t)
  \/ \E f \in Files, node \in Nodes : DeviceOpen(f, node)
  \/ DebugfsOpen \/ DebugfsClose \/ DebugfsRead \/ DebugfsReadFile \/ DebugfsReadLists
  \/ DebugfsWrite \/ Probe

Spec == Init /\ [][Next]_vars

-----------------------------------------------------------------------------
(* Correctness *)

Freed(f) == file[f].state = "freed"

\* fastrpc_device_release leaves no request of a freed file in the PM QoS list, although
\* CONTROL adds the request and notes it in the file in two steps that a second
\* CONTROL of the same process can split.
QosReleased == \A f \in Files : Freed(f) => qos[f] = 0

\* Whoever reads a file's entry in debugfs reads a file that is still there, although
\* fastrpc_device_release frees the file without a look at debugfs readers: the entry is
\* gone before, and with it the last reader.
ReaderLive == Reading => ~Freed(reader.fl)

\* The session a file works in belongs to the file's channel: fastrpc_file_free gives it
\* back to that channel. Two GETINFOs that find fl->cid unset at the same time can break
\* this for good; nothing else can.
SessionOfChannel ==
  \A f \in Files \ hist.raced : file[f].sctx \in {Nil, file[f].cid}

\* A process that a file created on a DSP ends with the file, although the ioctls of the
\* file run beside each other. The exceptions are all of the code's making: the call for
\* it failed; SETMODE renamed the file after the creation, during it, or before a static
\* INIT, so that release names a process that does not exist; or two GETINFOs raced, so
\* that release may ask another channel.
ProcessEnds ==
  \A f \in Files \ (hist.excused \cup hist.raced) :
    Freed(f) => ~ \E c \in Channels, id \in {0, 1} : <<f, c, id>> \in procs
=============================================================================
