---------------------------- MODULE FastRpcChannel ----------------------------
(***************************************************************************)
(* The channel between the FastRPC driver (android/adsprpc.c) and one DSP: *)
(* fastrpc_channel_open with its link and port handshake, the reference    *)
(* count that files share, fastrpc_channel_close, the subsystem restart    *)
(* notifier, and the mutex smd_mutex that orders them.                     *)
(*                                                                         *)
(* Remote calls made while a channel is opened appear as a wait for the    *)
(* DSP; contexts and messages are the subject of FastRpcInvoke. glink is   *)
(* not part of the repository: its actions follow from how the driver uses *)
(* it.                                                                     *)
(***************************************************************************)
EXTENDS Integers, FiniteSets

CONSTANTS
  Files,       \* struct fastrpc_file with a session on this channel
  IsAdsp,      \* cid == 0: the channel that owns the remote heap
  Nil,         \* nobody
  MaxSsr,      \* bound: restarts of the DSP
  MaxOps,      \* bound: INIT and MMAP ioctls started
  MaxHeap      \* bound: mappings in me->maps

ASSUME ConstantsOK ==
  /\ IsAdsp \in BOOLEAN
  /\ Nil \notin Files
  /\ MaxSsr \in Nat /\ MaxOps \in Nat /\ MaxHeap \in Nat

VARIABLES
  pc,        \* what each file's thread is doing
  refcount,  \* fl->refcount
  flssr,     \* fl->ssrcount
  mutex,     \* the owner of smd_mutex
  kref,      \* channel.kref
  chan,      \* channel.chan # NULL
  link,      \* link_notify_handle, link_state and completion work
  port,      \* port_state and completion workport
  gl,        \* glink's own state of the port (external)
  ssrcount,  \* channel.ssrcount
  prev,      \* channel.prevssrcount
  up,        \* channel.issubsystemup
  alive,     \* the DSP is running (external)
  boot,      \* which of its incarnations that is (external)
  heap,      \* number of ADSP_MMAP_HEAP_ADDR mappings in me->maps
  joined,    \* history: files whose last INIT succeeded in this incarnation
  misput,    \* history: a file may drop a reference it does not hold
  timedout,  \* history: an open gave up waiting for the port
  ops        \* INIT and MMAP ioctls started

fileVars == <<pc, refcount, flssr>>
portVars == <<link, port, gl>>
dspVars  == <<ssrcount, prev, up, alive, boot>>
history  == <<joined, misput, timedout>>
vars     == <<fileVars, mutex, kref, chan, portVars, dspVars, heap, history, ops>>

PortStates == {"disconnected", "connecting", "connected", "disconnecting"}

TypeOK ==
  /\ pc \in [Files -> {"none", "open", "lock", "link", "glink", "port", "heap",
                       "reply", "put", "close"}]
  /\ refcount \in [Files -> {0, 1}]
  /\ flssr \in [Files -> Nat]
  /\ mutex \in Files \cup {Nil}
  /\ kref \in Int
  /\ chan \in BOOLEAN
  /\ link \in [registered : BOOLEAN, up : BOOLEAN, work : Nat]
  /\ port \in [state : PortStates, work : Nat]
  /\ gl \in {"closed", "opening", "open", "closing"}
  /\ ssrcount \in Nat /\ prev \in Nat
  /\ up \in BOOLEAN /\ alive \in BOOLEAN /\ boot \in Nat
  /\ heap \in 0 .. MaxHeap
  /\ joined \subseteq Files
  /\ misput \in BOOLEAN /\ timedout \in BOOLEAN
  /\ ops \in Nat

Init ==
  /\ pc = [f \in Files |-> "none"]
  /\ refcount = [f \in Files |-> 0]
  /\ flssr = [f \in Files |-> 0]
  /\ mutex = Nil
  /\ kref = 0
  /\ chan = FALSE
  /\ link = [registered |-> FALSE, up |-> FALSE, work |-> 0]
  /\ port = [state |-> "disconnected", work |-> 0]
  /\ gl = "closed"
  /\ ssrcount = 0 /\ prev = 0
  /\ up = TRUE /\ alive = TRUE /\ boot = 0
  /\ heap = 0
  /\ joined = {}
  /\ misput = FALSE /\ timedout = FALSE
  /\ ops = 0

-----------------------------------------------------------------------------
(* A file's thread *)

Goto(f, label) == pc' = [pc EXCEPT ![f] = label]

\* open() and GETINFO, which gives the file its session.
DeviceOpen(f) ==
  /\ pc[f] = "none"
  /\ Goto(f, "open")
  /\ refcount' = [refcount EXCEPT ![f] = 0]
  /\ flssr' = [flssr EXCEPT ![f] = ssrcount]
  /\ UNCHANGED <<mutex, kref, chan, portVars, dspVars, heap, history, ops>>

\* FASTRPC_IOCTL_INIT calls fastrpc_channel_open.
InitStart(f) ==
  /\ pc[f] = "open" /\ ops < MaxOps
  /\ ops' = ops + 1
  /\ Goto(f, "lock")
  /\ UNCHANGED <<refcount, flssr, mutex, kref, chan, portVars, dspVars, heap, history>>

\* Mutant of Unlock: a path leaves without mutex_unlock.
UnlockForgotten(f) == /\ Goto(f, "open")
                      /\ UNCHANGED mutex

\* Leaving fastrpc_channel_open through bail.
Unlock(f) == /\ Goto(f, "open")
             /\ mutex' = Nil

\* Mutant of KrefGet: no reference is taken.
KrefGetForgotten == kref

\* kref_get_unless_zero.
KrefGet == IF kref # 0 THEN kref + 1 ELSE kref

\* fastrpc_channel_open up to the decision to open the port: the file joins the
\* current incarnation and takes a reference if there is one to take.
ChannelOpenEnter(f) ==
  LET down == ssrcount # prev /\ ~up
      got  == kref # 0
  IN
  /\ pc[f] = "lock" /\ mutex = Nil
  /\ \/ /\ down
        /\ Goto(f, "open")
        /\ UNCHANGED <<refcount, flssr, mutex, kref, joined>>
     \/ /\ ~down
        /\ flssr' = [flssr EXCEPT ![f] = ssrcount]
        /\ refcount' = [refcount EXCEPT ![f] = 1]
        /\ kref' = KrefGet
        /\ \/ /\ got /\ chan
              /\ Goto(f, "open")
              /\ joined' = joined \cup {f}
              /\ UNCHANGED mutex
           \/ /\ ~got \/ ~chan
              /\ Goto(f, IF link.registered THEN "glink" ELSE "link")
              /\ mutex' = f
              /\ joined' = joined \ {f}
  /\ UNCHANGED <<chan, portVars, dspVars, heap, misput, timedout, ops>>

\* The open failed although fl->refcount says that the file holds a reference.
OpenFails(f) ==
  /\ Unlock(f)
  /\ misput' = TRUE

\* fastrpc_glink_register: the callback is registered once; it can fail, and the
\* wait for the link can time out.
GlinkRegister(f) ==
  /\ pc[f] = "link"
  /\ \/ /\ ~link.registered
        /\ link' = [link EXCEPT !.registered = TRUE]
        /\ UNCHANGED <<pc, mutex, misput>>
     \/ /\ ~link.registered
        /\ OpenFails(f)
        /\ UNCHANGED link
     \/ /\ link.registered /\ link.work > 0
        /\ link' = [link EXCEPT !.work = @ - 1]
        /\ Goto(f, "glink")
        /\ UNCHANGED <<mutex, misput>>
     \/ /\ link.registered /\ link.work = 0
        /\ OpenFails(f)
        /\ UNCHANGED link
  /\ UNCHANGED <<refcount, flssr, kref, chan, port, gl, dspVars, heap, joined,
                 timedout, ops>>

\* fastrpc_glink_open. Its error is overwritten by the wait that follows it.
GlinkOpen(f) ==
  /\ pc[f] = "glink"
  /\ \/ /\ link.up /\ port.state = "disconnected"
        /\ port' = [port EXCEPT !.state = "connecting"]
        /\ gl' = "opening"
        /\ chan' = TRUE
     \/ UNCHANGED <<port, gl, chan>>
  /\ Goto(f, "port")
  /\ UNCHANGED <<refcount, flssr, mutex, kref, link, dspVars, heap, history, ops>>

\* The wait for workport, then kref_init; on the ADSP the first open after a
\* restart unmaps the remote heap before it releases the mutex.
PortWait(f) ==
  /\ pc[f] = "port"
  /\ \/ /\ port.work > 0
        /\ port' = [port EXCEPT !.work = @ - 1]
        /\ kref' = 1
        /\ joined' = joined \cup {f}
        /\ \/ /\ IsAdsp /\ ssrcount # prev
              /\ Goto(f, "heap")
              /\ UNCHANGED mutex
           \/ /\ ~(IsAdsp /\ ssrcount # prev)
              /\ Unlock(f)
        /\ UNCHANGED <<chan, misput, timedout>>
     \/ /\ port.work = 0
        /\ chan' = FALSE
        /\ OpenFails(f)
        /\ timedout' = TRUE
        /\ UNCHANGED <<port, kref, joined>>
  /\ UNCHANGED <<refcount, flssr, link, gl, dspVars, heap, ops>>

\* fastrpc_mmap_remove_ssr under smd_mutex: take the next mapping off me->maps and
\* call the DSP for it. The loop ends when there is no mapping left, or when the call
\* fails, at once or with its answer, and the mapping is put back; either way the
\* restart counts as handled.
HeapRemove(f) ==
  /\ pc[f] = "heap"
  /\ \/ /\ heap > 0
        /\ heap' = heap - 1
        /\ Goto(f, "reply")
        /\ UNCHANGED <<mutex, prev>>
     \/ /\ prev' = ssrcount
        /\ Unlock(f)
        /\ UNCHANGED heap
  /\ UNCHANGED <<refcount, flssr, kref, chan, portVars, ssrcount, up, alive, boot,
                 history, ops>>

\* The answer to that call, waited for without a timeout and without signals.
HeapReply(f) ==
  /\ pc[f] = "reply" /\ alive
  /\ \/ /\ Goto(f, "heap")
        /\ UNCHANGED <<heap, mutex, prev>>
     \/ /\ heap' = heap + 1
        /\ prev' = ssrcount
        /\ Unlock(f)
  /\ UNCHANGED <<refcount, flssr, kref, chan, portVars, ssrcount, up, alive, boot,
                 history, ops>>

\* A mapping of the remote heap enters me->maps (fastrpc_internal_mmap).
HeapMap(f) ==
  /\ IsAdsp /\ ops < MaxOps
  /\ heap + Cardinality({g \in Files : pc[g] = "reply"}) < MaxHeap
  /\ pc[f] = "open" /\ chan /\ flssr[f] = ssrcount
  /\ heap' = heap + 1
  /\ ops' = ops + 1
  /\ UNCHANGED <<fileVars, mutex, kref, chan, portVars, dspVars, history>>

\* fastrpc_file_free reads fl->ssrcount and the channel's without a lock.
FileFree(f) ==
  /\ pc[f] = "open"
  /\ Goto(f, IF refcount[f] = 1 /\ flssr[f] = ssrcount THEN "put" ELSE "none")
  /\ joined' = joined \ {f}
  /\ UNCHANGED <<refcount, flssr, mutex, kref, chan, portVars, dspVars, heap,
                 misput, timedout, ops>>

\* kref_put_mutex: any but the last reference is dropped without the mutex.
KrefPut(f) ==
  /\ pc[f] = "put"
  /\ \/ /\ kref # 1
        /\ kref' = kref - 1
        /\ Goto(f, "none")
     \/ /\ kref = 1
        /\ Goto(f, "close")
        /\ UNCHANGED kref
  /\ UNCHANGED <<refcount, flssr, mutex, chan, portVars, dspVars, heap, history, ops>>

\* Mutant of GlinkClose: the port is left open.
GlinkCloseForgotten == UNCHANGED <<port, gl>>

\* fastrpc_glink_close: only a connected port is closed.
GlinkClose ==
  \/ /\ port.state = "connected"
     /\ port' = [port EXCEPT !.state = "disconnecting"]
     /\ gl' = "closing"
  \/ /\ port.state # "connected"
     /\ UNCHANGED <<port, gl>>

\* Mutant of ChannelClose: the count is not looked at again under the mutex.
ChannelCloseBlind(f) ==
  /\ pc[f] = "close" /\ mutex = Nil
  /\ kref' = kref - 1
  /\ GlinkClose
  /\ chan' = FALSE
  /\ Goto(f, "none")
  /\ UNCHANGED <<refcount, flssr, mutex, link, dspVars, heap, history, ops>>

\* Mutant of ChannelClose: the handle is not reset.
ChannelCloseKeepsHandle(f) ==
  /\ pc[f] = "close" /\ mutex = Nil
  /\ kref' = kref - 1
  /\ IF kref = 1 THEN GlinkClose ELSE UNCHANGED <<port, gl>>
  /\ Goto(f, "none")
  /\ UNCHANGED <<refcount, flssr, mutex, chan, link, dspVars, heap, history, ops>>

\* The rest of kref_put_mutex: count again under the mutex, and close the channel.
ChannelClose(f) ==
  /\ pc[f] = "close" /\ mutex = Nil
  /\ kref' = kref - 1
  /\ \/ /\ kref = 1
        /\ GlinkClose
        /\ chan' = FALSE
     \/ /\ kref # 1
        /\ UNCHANGED <<chan, port, gl>>
  /\ Goto(f, "none")
  /\ UNCHANGED <<refcount, flssr, mutex, link, dspVars, heap, history, ops>>

-----------------------------------------------------------------------------
(* Restarts *)

\* The DSP stops: it crashes, or it is shut down after the notifiers have run.
DspStop ==
  /\ alive
  /\ IF up THEN ssrcount < MaxSsr ELSE boot < ssrcount
  /\ alive' = FALSE
  /\ UNCHANGED <<fileVars, mutex, kref, chan, portVars, ssrcount, prev, up, boot, heap,
                 history, ops>>

\* It is booted again once its notifiers have run.
DspBoot ==
  /\ ~alive /\ ~up
  /\ alive' = TRUE
  /\ boot' = ssrcount
  /\ UNCHANGED <<fileVars, mutex, kref, chan, portVars, ssrcount, prev, up, heap,
                 history, ops>>

\* fastrpc_restart_notifier_cb, SUBSYS_BEFORE_SHUTDOWN, under smd_mutex. A file that
\* is about to drop its reference will drop one of the next incarnation.
SsrShutdown ==
  /\ up /\ ssrcount < MaxSsr /\ mutex = Nil
  /\ ssrcount' = ssrcount + 1
  /\ up' = FALSE
  /\ IF chan THEN GlinkClose ELSE UNCHANGED <<port, gl>>
  /\ chan' = FALSE
  /\ joined' = {}
  /\ misput' = (misput \/ \E f \in Files : pc[f] \in {"put", "close"})
  /\ UNCHANGED <<fileVars, mutex, kref, link, prev, alive, boot, heap, timedout, ops>>

\* SUBSYS_AFTER_POWERUP.
SsrPowerup ==
  /\ ~up /\ alive /\ boot = ssrcount
  /\ up' = TRUE
  /\ UNCHANGED <<fileVars, mutex, kref, chan, portVars, ssrcount, prev, alive, boot,
                 heap, history, ops>>

-----------------------------------------------------------------------------
(* glink *)

\* fastrpc_link_state_handler, once it is registered.
LinkState ==
  /\ link.registered /\ link.up # alive
  /\ link' = [link EXCEPT !.up = alive, !.work = IF alive THEN @ + 1 ELSE @]
  /\ UNCHANGED <<fileVars, mutex, kref, chan, port, gl, dspVars, heap, history, ops>>

\* fastrpc_glink_notify_state, GLINK_CONNECTED: at any time after glink_open.
PortConnected ==
  /\ gl = "opening" /\ alive
  /\ gl' = "open"
  /\ port' = [state |-> "connected", work |-> port.work + 1]
  /\ UNCHANGED <<fileVars, mutex, kref, chan, link, dspVars, heap, history, ops>>

\* Mutant of PortDisconnected: the event completes workport as well.
PortDisconnectedCompletes ==
  /\ gl = "closing"
  /\ gl' = "closed"
  /\ port' = [state |-> "disconnected", work |-> port.work + 1]
  /\ UNCHANGED <<fileVars, mutex, kref, chan, link, dspVars, heap, history, ops>>

\* GLINK_LOCAL_DISCONNECTED: at any time after glink_close.
PortDisconnected ==
  /\ gl = "closing"
  /\ gl' = "closed"
  /\ port' = [port EXCEPT !.state = "disconnected"]
  /\ UNCHANGED <<fileVars, mutex, kref, chan, link, dspVars, heap, history, ops>>

-----------------------------------------------------------------------------
\* What a thread that is inside the driver does next.
FileStep(f) ==
  \/ ChannelOpenEnter(f) \/ GlinkRegister(f) \/ GlinkOpen(f) \/ PortWait(f)
  \/ HeapRemove(f)       \/ HeapReply(f)     \/ KrefPut(f)   \/ ChannelClose(f)

Next ==
  \/ \E f \in Files : \/ DeviceOpen(f) \/ InitStart(f) \/ FileStep(f)
                      \/ HeapMap(f)    \/ FileFree(f)
  \/ DspStop \/ DspBoot \/ SsrShutdown \/ SsrPowerup
  \/ LinkState \/ PortConnected \/ PortDisconnected

Spec == Init /\ [][Next]_vars

\* A thread in the driver runs on, its waits for glink being bounded by timeouts; a
\* DSP that crashed is restarted. glink itself is not assumed to do anything.
Fairness ==
  /\ \A f \in Files : WF_vars(FileStep(f))
  /\ WF_vars(~alive /\ SsrShutdown)
  /\ WF_vars(~up /\ DspStop)
  /\ WF_vars(DspBoot)
  /\ WF_vars(SsrPowerup)

FairSpec == Spec /\ Fairness

-----------------------------------------------------------------------------
(* Correctness *)

\* Threads of fastrpc_file_free that have yet to drop their reference.
Putting == {f \in Files : pc[f] \in {"put", "close"}}

\* The count covers every file that joined the channel and every close under way,
\* unless some file can drop a reference it does not hold: one whose open failed
\* after fl->refcount was set, or one whose close met a restart.
KrefCovers ==
  ~misput /\ chan /\ mutex = Nil =>
    kref >= Cardinality(joined) + Cardinality(Putting)

\* With the same exceptions, the close of a file never closes the channel under
\* another file that has joined it.
ChannelKept ==
  [][ chan /\ ~chan' /\ ssrcount' = ssrcount => joined' = {} \/ misput' ]_vars

\* The driver's handle always stands for a port that glink has not closed: nothing is
\* ever sent on a closed handle, however opens, closes and restarts interleave.
HandleLive == chan => gl \in {"opening", "open"}

\* Conversely a port that glink has open is reachable through the handle, so that it
\* can be closed, unless an open has timed out: then it is orphaned for good.
NoOrphan == mutex = Nil /\ gl \in {"opening", "open"} => chan \/ timedout

\* An INIT that succeeds has a connected channel when it leaves the mutex, unless an
\* earlier open timed out and left its late completion behind.
SuccessHasChannel ==
  [][ \A f \in Files :
        f \in joined' /\ f \notin joined =>
          timedout \/ (chan' /\ port'.state = "connected") ]_vars

\* The remote heap is waited for under smd_mutex, and the notifier that would end the
\* wait when the DSP crashes needs that mutex.
HeapDeadlock == \E f \in Files : pc[f] = "reply" /\ ~alive

\* Every INIT and every close comes back, except when a crash of the DSP during the
\* unmapping of the remote heap blocks the restart notifier.
OpenReturns ==
  \A f \in Files :
    pc[f] \notin {"none", "open"} ~> pc[f] \in {"none", "open"} \/ HeapDeadlock
=============================================================================
