---------------------------- MODULE FastRpcInvoke ----------------------------
(***************************************************************************)
(* Remote invocations of the FastRPC driver (android/adsprpc.c): the life  *)
(* of an invocation context (struct smq_invoke_ctx) from                   *)
(* fastrpc_internal_invoke through the global context table, the pending   *)
(* and interrupted lists, the message to the DSP, its response in the      *)
(* glink receive callback, the subsystem- and PD-restart notifiers, and    *)
(* the close of the device file.                                           *)
(*                                                                         *)
(* A step of a thread is a stretch of code that no other actor can observe *)
(* half done: it touches only private data or runs under one spin lock.    *)
(* Argument marshalling (get_args, put_args) contributes its success or    *)
(* failure; mappings, buffers and the channel's reference count are not    *)
(* state of this module.                                                   *)
(***************************************************************************)
EXTENDS Integers, FiniteSets

CONSTANTS
  Threads,    \* user threads; a thread's identity is current->pid
  Files,      \* struct fastrpc_file: one per open of the device node
  Cids,       \* channels (DSPs)
  FileCid,    \* fl->cid, fixed by fastrpc_get_info
  PdFiles,    \* files attached to the static PD whose restarts are notified
  Ctxs,       \* addresses kzalloc can return for a context
  CtxPage,    \* address & ~0xFFF
  Nil,        \* the NULL context pointer; no thread
  CtxMax,     \* FASTRPC_CTX_MAX
  Scs,        \* remote scalars of an invocation
  MaxCalls,   \* bound: invocations started
  MaxSsr,     \* bound: restarts of each DSP
  MaxPdr      \* bound: restarts of the static PD

Slots == 0 .. CtxMax - 1
NoSlot == -1
Kinds == {"user", "kernel", "release"}
Retvals == {-1, 0, 1}
Results == {"none", "ok", "err", "intr", "reset"}

ASSUME ConstantsOK ==
  /\ Threads # {} /\ Files # {} /\ Scs # {}
  /\ FileCid \in [Files -> Cids]
  /\ PdFiles \subseteq Files
  /\ Nil \notin Ctxs /\ Nil \notin Threads
  /\ CtxMax \in Nat
  /\ MaxCalls \in Nat /\ MaxSsr \in Nat /\ MaxPdr \in Nat

VARIABLES
  pc,           \* where each thread is in fastrpc_internal_invoke or file_free
  call,         \* arguments of each thread's current ioctl, and its outcome
  cur,          \* the local variable ctx
  alloced,      \* contexts that are allocated
  ctx,          \* their fields
  pending,      \* fl->clst.pending, all files together
  interrupted,  \* fl->clst.interrupted, all files together
  table,        \* me->ctxtable
  open,         \* files linked into me->drivers
  flssr,        \* fl->ssrcount
  ssrcount,     \* channel[cid].ssrcount
  up,           \* channel[cid].issubsystemup
  chan,         \* channel[cid].chan # NULL and the port connected
  notify,       \* channels whose restart notifier has yet to wake the callers
  alive,        \* the DSP is running
  pdr,          \* the static PD went down and its notifier has yet to run
  pdrcount,     \* spd->pdrcount
  dsp,          \* messages the DSP holds
  rsp,          \* responses on their way to the receive callback
  rx,           \* responses the receive callback has validated
  abandoned,    \* history: a context was freed while its answer was outstanding
  fault,        \* the receive callback used a context that no longer exists
  calls         \* invocations started so far

threadVars == <<pc, call, cur>>
ctxVars    == <<alloced, ctx, pending, interrupted, table, abandoned>>
chanVars   == <<open, flssr, ssrcount, up, chan, notify, pdr, pdrcount>>
dspVars    == <<alive, dsp, rsp, rx, fault>>
vars       == <<threadVars, ctxVars, chanVars, dspVars, calls>>

Msg == [cid : Cids, page : {CtxPage[c] : c \in Ctxs}, slot : Slots,
        ser : Nat, fl : Files, kind : Kinds]
Rsp == [msg : Msg, retval : {0, 1}]
Rx  == [msg : Msg, retval : {0, 1}, c : Ctxs]
Ctx == [fl : Files, pid : Threads \cup {Nil}, kind : Kinds, sc : Scs,
        slot : Slots \cup {NoSlot}, retval : Retvals, done : Nat,
        mpid : BOOLEAN, ser : Nat, by : Nat]
Call == [fl : Files, kind : Kinds, sc : Scs, ser : Nat, res : Results]

PCs == {"idle", "alloc", "slot", "send", "tx", "wait", "woken",
        "save", "free", "clear", "ret", "unhook", "dtor"}

TypeOK ==
  /\ pc \in [Threads -> PCs]
  /\ call \in [Threads -> Call]
  /\ cur \in [Threads -> Ctxs \cup {Nil}]
  /\ alloced \subseteq Ctxs
  /\ ctx \in [Ctxs -> Ctx]
  /\ pending \subseteq Ctxs
  /\ interrupted \subseteq Ctxs
  /\ table \in [Slots -> Ctxs \cup {Nil}]
  /\ open \subseteq Files
  /\ flssr \in [Files -> Nat]
  /\ ssrcount \in [Cids -> Nat]
  /\ up \in [Cids -> BOOLEAN]
  /\ chan \in [Cids -> BOOLEAN]
  /\ notify \subseteq Cids
  /\ alive \in [Cids -> BOOLEAN]
  /\ pdr \in BOOLEAN
  /\ pdrcount \in Nat
  /\ dsp \subseteq Msg
  /\ rsp \subseteq Rsp
  /\ rx \subseteq Rx
  /\ fault \in BOOLEAN
  /\ abandoned \in BOOLEAN
  /\ calls \in Nat

\* A thread outside the driver, and the content of memory that is not a context.
NoCall == [fl |-> CHOOSE f \in Files : TRUE, kind |-> "user",
           sc |-> CHOOSE s \in Scs : TRUE, ser |-> 0, res |-> "none"]
Freed == [fl |-> CHOOSE f \in Files : TRUE, pid |-> Nil,
          kind |-> "user", sc |-> CHOOSE s \in Scs : TRUE, slot |-> NoSlot,
          retval |-> 0, done |-> 0, mpid |-> FALSE, ser |-> 0, by |-> 0]

Init ==
  /\ pc = [t \in Threads |-> "idle"]
  /\ call = [t \in Threads |-> NoCall]
  /\ cur = [t \in Threads |-> Nil]
  /\ alloced = {}
  /\ ctx = [c \in Ctxs |-> Freed]
  /\ pending = {}
  /\ interrupted = {}
  /\ table = [s \in Slots |-> Nil]
  /\ open = {}
  /\ flssr = [f \in Files |-> 0]
  /\ ssrcount = [d \in Cids |-> 0]
  /\ up = [d \in Cids |-> TRUE]
  /\ chan = [d \in Cids |-> FALSE]
  /\ notify = {}
  /\ alive = [d \in Cids |-> TRUE]
  /\ pdr = FALSE
  /\ pdrcount = 0
  /\ dsp = {} /\ rsp = {} /\ rx = {}
  /\ fault = FALSE
  /\ abandoned = FALSE
  /\ calls = 0

-----------------------------------------------------------------------------
(* Steps of a thread *)

Goto(t, label) == pc' = [pc EXCEPT ![t] = label]

Fail(t, label) == /\ Goto(t, label)
                  /\ call' = [call EXCEPT ![t].res = "err"]

\* The thread is inside the driver on behalf of file f: the kernel holds a
\* reference on the struct file, so fastrpc_device_release cannot run.
Busy(f) == \E t \in Threads : pc[t] # "idle" /\ call[t].fl = f

\* fastrpc_device_release is running on file f.
Closing(f) ==
  \E t \in Threads : pc[t] # "idle" /\ call[t].fl = f /\ call[t].kind = "release"

\* Mutant of Saved: the search never finds the context.
SavedNever(f, t) == {}

\* The context a thread finds in context_restore_interrupted.
Saved(f, t) == {c \in interrupted : ctx[c].fl = f /\ ctx[c].pid = t}

\* open() and FASTRPC_IOCTL_GETINFO, which fixes the channel of the file.
DeviceOpen(f) ==
  /\ f \notin open /\ ~Busy(f)
  /\ open' = open \cup {f}
  /\ flssr' = [flssr EXCEPT ![f] = ssrcount[FileCid[f]]]
  /\ UNCHANGED <<threadVars, ctxVars, ssrcount, up, chan, notify, pdr,
                 pdrcount, dspVars, calls>>

\* fastrpc_channel_open, called by FASTRPC_IOCTL_INIT: refused while the
\* subsystem is down; otherwise the file joins the current incarnation of the
\* DSP, whether or not the port can then be opened.
ChannelOpen(f) ==
  LET d == FileCid[f] IN
  /\ f \in open /\ up[d] /\ ~Closing(f)
  /\ flssr' = [flssr EXCEPT ![f] = ssrcount[d]]
  /\ chan' \in {chan, [chan EXCEPT ![d] = TRUE]}
  /\ UNCHANGED <<threadVars, ctxVars, open, ssrcount, up, notify, pdr,
                 pdrcount, dspVars, calls>>

\* Mutant of InvokeStart: a resumed call sends its message again.
InvokeStartResends(t, f, k, sc) ==
  /\ pc[t] = "idle" /\ f \in open /\ ~Closing(f) /\ calls < MaxCalls
  /\ calls' = calls + 1
  /\ call' = [call EXCEPT ![t] =
       [fl |-> f, kind |-> k, sc |-> sc, ser |-> calls + 1, res |-> "none"]]
  /\ IF k = "user" /\ Saved(f, t) # {}
       THEN \E c \in Saved(f, t) : /\ pending' = pending \cup {c}
                                   /\ interrupted' = interrupted \ {c}
                                   /\ cur' = [cur EXCEPT ![t] = c]
                                   /\ Goto(t, "send")
       ELSE Goto(t, "alloc") /\ UNCHANGED <<pending, interrupted, cur>>
  /\ UNCHANGED <<abandoned, alloced, ctx, table, chanVars, dspVars>>

\* fastrpc_internal_invoke up to context_alloc: a user call first looks for the
\* context its thread left behind when a signal interrupted it.
InvokeStart(t, f, k, sc) ==
  LET saved == Saved(f, t)
      match == {c \in saved : ctx[c].sc = sc}
      this  == [fl |-> f, kind |-> k, sc |-> sc, ser |-> calls + 1, res |-> "none"]
  IN
  /\ pc[t] = "idle" /\ f \in open /\ ~Closing(f) /\ calls < MaxCalls
  /\ calls' = calls + 1
  /\ \/ /\ k = "user" /\ match # {}
        /\ \E c \in match :
             /\ pending' = pending \cup {c}
             /\ interrupted' = interrupted \ {c}
             /\ cur' = [cur EXCEPT ![t] = c]
        /\ Goto(t, "wait")
        /\ call' = [call EXCEPT ![t] = this]
     \/ /\ k = "user"  \* a kernel handle, or a saved call with other scalars
        /\ Goto(t, "ret")
        /\ call' = [call EXCEPT ![t] = [this EXCEPT !.res = "err"]]
        /\ UNCHANGED <<pending, interrupted, cur>>
     \/ /\ k = "kernel" \/ saved = {}
        /\ Goto(t, "alloc")
        /\ call' = [call EXCEPT ![t] = this]
        /\ UNCHANGED <<pending, interrupted, cur>>
  /\ UNCHANGED <<abandoned, alloced, ctx, table, chanVars, dspVars>>

\* context_alloc up to the insertion into the pending list. Until then the
\* context is private, so a failed allocation or copy leaves no trace.
ContextAlloc(t) ==
  /\ pc[t] = "alloc"
  /\ \/ \E c \in Ctxs \ alloced :
          /\ alloced' = alloced \cup {c}
          /\ ctx' = [ctx EXCEPT ![c] =
               [fl |-> call[t].fl, pid |-> t, kind |-> call[t].kind,
                sc |-> call[t].sc, slot |-> NoSlot, retval |-> -1, done |-> 0,
                mpid |-> FALSE, ser |-> call[t].ser, by |-> 0]]
          /\ pending' = pending \cup {c}
          /\ cur' = [cur EXCEPT ![t] = c]
          /\ Goto(t, "slot")
          /\ UNCHANGED call
     \/ /\ Fail(t, "ret")
        /\ UNCHANGED <<alloced, ctx, pending, cur>>
  /\ UNCHANGED <<abandoned, interrupted, table, chanVars, dspVars, calls>>

\* Mutant of ContextSlot: the entry is taken whether or not it is free.
ContextSlotTaken(t) ==
  /\ pc[t] = "slot"
  /\ \E s \in Slots : /\ table' = [table EXCEPT ![s] = cur[t]]
                      /\ ctx' = [ctx EXCEPT ![cur[t]].slot = s]
  /\ Goto(t, "send")
  /\ UNCHANGED <<abandoned, call, cur, alloced, pending, interrupted, chanVars, dspVars,
                 calls>>

\* context_alloc, under ctxlock: the first free entry of the table, whose index
\* and the page of the context's address make up ctx->ctxid.
ContextSlot(t) ==
  LET c == cur[t] IN
  /\ pc[t] = "slot"
  /\ \/ \E s \in Slots :
          /\ table[s] = Nil
          /\ \A r \in Slots : r < s => table[r] # Nil
          /\ table' = [table EXCEPT ![s] = c]
          /\ ctx' = [ctx EXCEPT ![c].slot = s]
          /\ Goto(t, "send")
          /\ UNCHANGED call
     \/ /\ \A s \in Slots : table[s] # Nil
        /\ Fail(t, "free")
        /\ UNCHANGED <<table, ctx>>
  /\ UNCHANGED <<abandoned, cur, alloced, pending, interrupted, chanVars, dspVars, calls>>

\* get_args and inv_args_pre, which touch nothing that is shared, and
\* fastrpc_invoke_send up to glink_tx: msg->pid is 0 for a kernel message, and
\* the call is refused when the DSP restarted since the file joined it.
InvokeSend(t) ==
  LET c == cur[t]
      d == FileCid[call[t].fl] IN
  /\ pc[t] = "send"
  /\ \/ /\ chan[d]
        /\ ctx' = [ctx EXCEPT ![c].mpid = (call[t].kind = "user")]
        /\ \/ /\ flssr[call[t].fl] = ssrcount[d]
              /\ Goto(t, "tx")
              /\ UNCHANGED call
           \/ /\ flssr[call[t].fl] # ssrcount[d]
              /\ Fail(t, "free")
     \/ /\ Fail(t, "free")  \* no channel, or get_args failed
        /\ UNCHANGED ctx
  /\ UNCHANGED <<abandoned, cur, alloced, pending, interrupted, table, chanVars, dspVars,
                 calls>>

\* The message a thread sends, identified by ctx->ctxid.
MsgOf(t) ==
  [cid |-> FileCid[call[t].fl], page |-> CtxPage[cur[t]],
   slot |-> ctx[cur[t]].slot, ser |-> ctx[cur[t]].ser,
   fl |-> call[t].fl, kind |-> call[t].kind]

\* A message reaches nobody when the DSP, or the PD it is for, has died and the
\* driver has not been told yet.
Lost(m) ==
  \/ ~alive[m.cid]
  \/ pdr /\ m.fl \in PdFiles /\ m.kind = "user"

\* glink_tx on the channel as it is now, which may have been closed, or closed
\* and opened again, since the checks of InvokeSend. It may also fail.
GlinkTx(t) ==
  /\ pc[t] = "tx"
  /\ \/ /\ chan[FileCid[call[t].fl]]
        /\ dsp' = IF Lost(MsgOf(t)) THEN dsp ELSE dsp \cup {MsgOf(t)}
        /\ Goto(t, "wait")
        /\ UNCHANGED call
     \/ /\ Fail(t, "free")
        /\ UNCHANGED dsp
  /\ UNCHANGED <<cur, ctxVars, chanVars, alive, rsp, rx, fault, calls>>

\* wait_for_completion returns.
WaitDone(t) ==
  LET c == cur[t] IN
  /\ pc[t] = "wait" /\ ctx[c].done > 0
  /\ ctx' = [ctx EXCEPT ![c].done = @ - 1]
  /\ Goto(t, "woken")
  /\ UNCHANGED <<abandoned, call, cur, alloced, pending, interrupted, table, chanVars,
                 dspVars, calls>>

\* Mutant of WaitInterrupted: an interrupted call is freed like a failed one.
WaitInterruptedFrees(t) ==
  /\ pc[t] = "wait" /\ ctx[cur[t]].done = 0
  /\ call[t].kind = "user"
  /\ Goto(t, "free")
  /\ UNCHANGED <<call, cur, ctxVars, chanVars, dspVars, calls>>

\* A signal ends wait_for_completion_interruptible.
WaitInterrupted(t) ==
  /\ pc[t] = "wait" /\ ctx[cur[t]].done = 0
  /\ call[t].kind = "user"
  /\ Goto(t, "save")
  /\ UNCHANGED <<call, cur, ctxVars, chanVars, dspVars, calls>>

\* Mutant of PutArgs: ctx->retval is not looked at.
PutArgsUnchecked(t) ==
  /\ pc[t] = "woken"
  /\ Goto(t, "free")
  /\ call' = [call EXCEPT ![t].res = "ok"]
  /\ UNCHANGED <<cur, ctxVars, chanVars, dspVars, calls>>

\* inv_args, the check of ctx->retval, and put_args, which may fail.
PutArgs(t) ==
  /\ pc[t] = "woken"
  /\ \/ /\ ctx[cur[t]].retval = 0
        /\ Goto(t, "free")
        /\ call' = [call EXCEPT ![t].res = "ok"]
     \/ Fail(t, "free")
  /\ UNCHANGED <<cur, ctxVars, chanVars, dspVars, calls>>

\* Mutant of ContextSaveInterrupted: the saved context is freed as well.
SaveThenFree(t) ==
  /\ pc[t] = "save"
  /\ interrupted' = interrupted \cup {cur[t]}
  /\ Goto(t, "free")
  /\ UNCHANGED <<abandoned, call, cur, alloced, ctx, pending, table, chanVars, dspVars,
                 calls>>

\* context_save_interrupted, under fl->hlock.
ContextSaveInterrupted(t) ==
  LET c == cur[t] IN
  /\ pc[t] = "save"
  /\ pending' = pending \ {c}
  /\ interrupted' = interrupted \cup {c}
  /\ cur' = [cur EXCEPT ![t] = Nil]
  /\ call' = [call EXCEPT ![t].res = "intr"]
  /\ Goto(t, "ret")
  /\ UNCHANGED <<abandoned, alloced, ctx, table, chanVars, dspVars, calls>>

\* Mutant of ContextUnlink: the context stays on the pending list.
ContextUnlinkNot(t) ==
  /\ pc[t] = "free"
  /\ Goto(t, "clear")
  /\ UNCHANGED <<call, cur, ctxVars, chanVars, dspVars, calls>>

\* context_free, first half: unlink the context under fl->hlock.
ContextUnlink(t) ==
  /\ pc[t] = "free"
  /\ pending' = pending \ {cur[t]}
  /\ Goto(t, "clear")
  /\ UNCHANGED <<abandoned, call, cur, alloced, ctx, interrupted, table, chanVars, dspVars,
                 calls>>

\* The DSP, the channel or the receive callback still has the answer to a call.
Outstanding(ser) ==
  \/ \E m \in dsp : m.ser = ser
  \/ \E r \in rsp : r.msg.ser = ser
  \/ \E x \in rx : x.msg.ser = ser

\* Mutant of ContextFree: the table entry is not dropped.
ContextFreeKeepsEntry(t) ==
  /\ pc[t] = "clear"
  /\ alloced' = alloced \ {cur[t]}
  /\ ctx' = [ctx EXCEPT ![cur[t]] = Freed]
  /\ cur' = [cur EXCEPT ![t] = Nil]
  /\ Goto(t, IF call[t].fl \in open THEN "ret" ELSE "dtor")
  /\ UNCHANGED <<abandoned, call, pending, interrupted, table, chanVars, dspVars, calls>>

\* context_free, second half: clear ctxid, drop the table entry under ctxlock,
\* kfree. fastrpc_context_list_dtor then looks for the next context.
ContextFree(t) ==
  LET c == cur[t] IN
  /\ pc[t] = "clear"
  /\ table' = [s \in Slots |-> IF table[s] = c THEN Nil ELSE table[s]]
  /\ alloced' = alloced \ {c}
  /\ abandoned' = (abandoned \/ Outstanding(ctx[c].ser))
  /\ ctx' = [ctx EXCEPT ![c] = Freed]
  /\ cur' = [cur EXCEPT ![t] = Nil]
  /\ Goto(t, IF call[t].fl \in open THEN "ret" ELSE "dtor")
  /\ UNCHANGED <<call, pending, interrupted, chanVars, dspVars, calls>>

\* The end of fastrpc_internal_invoke: ECONNRESET replaces whatever the outcome
\* was when the DSP restarted since the file joined it.
InvokeReturn(t) ==
  LET f == call[t].fl
      res == IF flssr[f] # ssrcount[FileCid[f]] THEN "reset" ELSE call[t].res IN
  /\ pc[t] = "ret"
  /\ \/ /\ call[t].kind = "release"
        /\ Goto(t, "unhook")
        /\ UNCHANGED call
     \/ /\ call[t].kind # "release"
        /\ Goto(t, "idle")
        /\ call' = [call EXCEPT ![t] = [NoCall EXCEPT !.res = res]]
  /\ UNCHANGED <<cur, ctxVars, chanVars, dspVars, calls>>

-----------------------------------------------------------------------------
(* Closing the device file *)

\* fastrpc_device_release -> fastrpc_file_free, run when no other thread is in
\* the driver on this file. It starts with a kernel call that tells the DSP to
\* release the process, skipped when there is no channel.
FileFreeStart(t, f) ==
  /\ pc[t] = "idle" /\ f \in open /\ ~Busy(f) /\ calls < MaxCalls
  /\ calls' = calls + 1
  /\ \E sc \in Scs :
       call' = [call EXCEPT ![t] = [fl |-> f, kind |-> "release", sc |-> sc,
                                    ser |-> calls + 1, res |-> "none"]]
  /\ Goto(t, IF chan[FileCid[f]] THEN "alloc" ELSE "unhook")
  /\ UNCHANGED <<cur, ctxVars, chanVars, dspVars>>

\* Mutant of FileUnhook: the lists of contexts are not emptied.
FileUnhookOnly(t) ==
  /\ pc[t] = "unhook"
  /\ open' = open \ {call[t].fl}
  /\ Goto(t, "idle")
  /\ UNCHANGED <<call, cur, ctxVars, flssr, ssrcount, up, chan, notify, pdr,
                 pdrcount, dspVars, calls>>

\* Unlink the file from me->drivers, so that no notifier sees it any more.
FileUnhook(t) ==
  /\ pc[t] = "unhook"
  /\ open' = open \ {call[t].fl}
  /\ Goto(t, "dtor")
  /\ UNCHANGED <<call, cur, ctxVars, flssr, ssrcount, up, chan, notify, pdr,
                 pdrcount, dspVars, calls>>

\* fastrpc_context_list_dtor: pop the interrupted contexts, then the pending
\* ones, and context_free each of them; then the file drops its reference on
\* the channel, the last one of the current incarnation closing it.
FileDtor(t) ==
  LET f == call[t].fl
      d == FileCid[f]
      InList(list) == {c \in list : ctx[c].fl = f} IN
  /\ pc[t] = "dtor"
  /\ \/ \E c \in IF InList(interrupted) # {} THEN InList(interrupted)
                                             ELSE InList(pending) :
          /\ interrupted' = interrupted \ {c}
          /\ pending' = pending \ {c}
          /\ cur' = [cur EXCEPT ![t] = c]
          /\ Goto(t, "clear")
          /\ UNCHANGED <<call, chan>>
     \/ /\ InList(interrupted) = {} /\ InList(pending) = {}
        /\ \/ UNCHANGED chan
           \/ /\ flssr[f] = ssrcount[d]
              /\ \A g \in open : FileCid[g] = d => flssr[g] # ssrcount[d]
              /\ chan' = [chan EXCEPT ![d] = FALSE]
        /\ Goto(t, "idle")
        /\ call' = [call EXCEPT ![t] = NoCall]
        /\ UNCHANGED <<cur, pending, interrupted>>
  /\ UNCHANGED <<abandoned, alloced, ctx, table, open, flssr, ssrcount, up, notify, pdr,
                 pdrcount, dspVars, calls>>

-----------------------------------------------------------------------------
(* The receive callback and the notifiers *)

\* fastrpc_glink_notify_rx, the three VERIFYs: the entry of the table the
\* response names must hold a context with the response's ctxid. Callbacks of
\* one channel do not overlap.
RxCheck(r) ==
  LET m == r.msg
      c == table[m.slot] IN
  /\ \A x \in rx : x.msg.cid # m.cid
  /\ rsp' = rsp \ {r}
  /\ \/ /\ c # Nil
        /\ CtxPage[c] = m.page /\ ctx[c].slot = m.slot
        /\ rx' = rx \cup {[msg |-> m, retval |-> r.retval, c |-> c]}
     \/ /\ c # Nil => CtxPage[c] # m.page \/ ctx[c].slot # m.slot
        /\ UNCHANGED rx
  /\ UNCHANGED <<threadVars, ctxVars, chanVars, alive, dsp, fault, calls>>

\* context_notify_user. The callback holds no lock: it uses the pointer it
\* checked, or the one it finds in the table when it reads the entry again.
RxNotify(x) ==
  /\ rx' = rx \ {x}
  /\ \E c \in {x.c, table[x.msg.slot]} :
       \/ /\ c \in alloced
          /\ ctx' = [ctx EXCEPT ![c].retval = x.retval, ![c].done = @ + 1,
                                ![c].by = x.msg.ser]
          /\ UNCHANGED fault
       \/ /\ c \notin alloced
          /\ fault' = TRUE
          /\ UNCHANGED ctx
  /\ UNCHANGED <<abandoned, threadVars, alloced, pending, interrupted, table, chanVars,
                 alive, dsp, rsp, calls>>

\* Mutant of Complete: the interrupted contexts are passed over.
CompletePendingOnly(cs) ==
  ctx' = [c \in Ctxs |-> IF c \in cs \cap pending THEN [ctx[c] EXCEPT !.done = @ + 1]
                                                  ELSE ctx[c]]

\* The effect of complete(&ictx->work) on every context of a set.
Complete(cs) ==
  ctx' = [c \in Ctxs |-> IF c \in cs THEN [ctx[c] EXCEPT !.done = @ + 1]
                                     ELSE ctx[c]]

\* fastrpc_restart_notifier_cb, SUBSYS_BEFORE_SHUTDOWN, under smd_mutex.
SsrShutdown(d) ==
  /\ up[d] /\ ssrcount[d] < MaxSsr
  /\ ssrcount' = [ssrcount EXCEPT ![d] = @ + 1]
  /\ up' = [up EXCEPT ![d] = FALSE]
  /\ chan' = [chan EXCEPT ![d] = FALSE]
  /\ notify' = notify \cup {d}
  /\ UNCHANGED <<threadVars, ctxVars, open, flssr, pdr, pdrcount, dspVars, calls>>

\* fastrpc_notify_drivers and fastrpc_notify_users, under me->hlock.
NotifyDrivers(d) ==
  /\ d \in notify
  /\ Complete({c \in pending \cup interrupted :
                 ctx[c].fl \in open /\ FileCid[ctx[c].fl] = d})
  /\ notify' = notify \ {d}
  /\ UNCHANGED <<abandoned, threadVars, alloced, pending, interrupted, table, open, flssr,
                 ssrcount, up, chan, pdr, pdrcount, dspVars, calls>>

\* The DSP boots again and fastrpc_restart_notifier_cb gets AFTER_POWERUP.
\* What the previous incarnation held or had sent is gone.
SsrPowerup(d) ==
  /\ ~up[d] /\ d \notin notify
  /\ up' = [up EXCEPT ![d] = TRUE]
  /\ alive' = [alive EXCEPT ![d] = TRUE]
  /\ dsp' = {m \in dsp : m.cid # d}
  /\ rsp' = {r \in rsp : r.msg.cid # d}
  /\ UNCHANGED <<threadVars, ctxVars, open, flssr, ssrcount, chan, notify, pdr,
                 pdrcount, rx, fault, calls>>

\* The static PD dies on the DSP, with the calls it was serving;
\* fastrpc_pdr_notifier_cb starts.
PdrDown ==
  /\ ~pdr /\ pdrcount < MaxPdr
  /\ pdr' = TRUE
  /\ pdrcount' = pdrcount + 1
  /\ dsp' = {m \in dsp : ~(m.fl \in PdFiles /\ m.kind = "user")}
  /\ UNCHANGED <<threadVars, ctxVars, open, flssr, ssrcount, up, chan, notify,
                 alive, rsp, rx, fault, calls>>

\* fastrpc_notify_pdr_drivers and fastrpc_notify_users_staticpd_pdr: only the
\* contexts whose msg.pid is set, so kernel calls keep waiting.
NotifyPdrDrivers ==
  /\ pdr
  /\ Complete({c \in pending \cup interrupted :
                 ctx[c].fl \in open \cap PdFiles /\ ctx[c].mpid})
  /\ pdr' = FALSE
  /\ UNCHANGED <<abandoned, threadVars, alloced, pending, interrupted, table, open, flssr,
                 ssrcount, up, chan, notify, pdrcount, dspVars, calls>>

-----------------------------------------------------------------------------
(* The DSP *)

\* The DSP answers a call. The release of a process ends the calls it received
\* before and is answered after their responses have been delivered (messages
\* and responses keep their order on the channel).
DspAnswer(m) ==
  LET Ends(n) == m.kind = "release" /\ n.fl = m.fl /\ n.ser < m.ser IN
  /\ \A r \in rsp : ~Ends(r.msg)
  /\ dsp' = {n \in dsp : n # m /\ ~Ends(n)}
  /\ \E v \in {0, 1} : rsp' = rsp \cup {[msg |-> m, retval |-> v]}
  /\ UNCHANGED <<threadVars, ctxVars, chanVars, alive, rx, fault, calls>>

\* The DSP crashes; the restart notifier will be called.
DspCrash(d) ==
  /\ alive[d] /\ up[d] /\ ssrcount[d] < MaxSsr
  /\ alive' = [alive EXCEPT ![d] = FALSE]
  /\ dsp' = {m \in dsp : m.cid # d}
  /\ UNCHANGED <<threadVars, ctxVars, chanVars, rsp, rx, fault, calls>>

-----------------------------------------------------------------------------
\* What a thread does by itself once an ioctl or the release has started.
ThreadStep(t) ==
  \/ ContextAlloc(t)  \/ ContextSlot(t) \/ InvokeSend(t)
  \/ GlinkTx(t)       \/ WaitDone(t)    \/ PutArgs(t)     \/ InvokeReturn(t)
  \/ ContextSaveInterrupted(t)          \/ ContextUnlink(t)
  \/ ContextFree(t)   \/ FileUnhook(t)  \/ FileDtor(t)

Next ==
  \/ \E f \in Files : DeviceOpen(f) \/ ChannelOpen(f)
  \/ \E t \in Threads, f \in Files, k \in {"user", "kernel"}, sc \in Scs :
       InvokeStart(t, f, k, sc)
  \/ \E t \in Threads, f \in Files : FileFreeStart(t, f)
  \/ \E t \in Threads : ThreadStep(t) \/ WaitInterrupted(t)
  \/ \E r \in rsp : RxCheck(r)
  \/ \E x \in rx : RxNotify(x)
  \/ \E d \in Cids : SsrShutdown(d) \/ NotifyDrivers(d) \/ SsrPowerup(d)
  \/ PdrDown \/ NotifyPdrDrivers
  \/ \E m \in dsp : DspAnswer(m)
  \/ \E d \in Cids : DspCrash(d)

Spec == Init /\ [][Next]_vars

\* Threads in the kernel run on; the receive callback and the notifiers are called
\* for what is there; a DSP that runs answers its calls, one that crashed is
\* restarted. Nothing obliges a user to start a call or to close a file.
Fairness ==
  /\ \A t \in Threads : WF_vars(ThreadStep(t))
  /\ WF_vars(\E r \in rsp : RxCheck(r))
  /\ WF_vars(\E x \in rx : RxNotify(x))
  /\ WF_vars(\E m \in dsp : DspAnswer(m))
  /\ \A d \in Cids : /\ WF_vars(NotifyDrivers(d))
                     /\ WF_vars(SsrPowerup(d))
                     /\ WF_vars(~alive[d] /\ SsrShutdown(d))
  /\ WF_vars(NotifyPdrDrivers)

FairSpec == Spec /\ Fairness

-----------------------------------------------------------------------------
(* Correctness *)

\* A thread holds the context it is working on in these places.
Holding == {"slot", "send", "tx", "wait", "woken", "save", "free", "clear"}

\* Every allocated context is either held by exactly one thread or saved on the
\* interrupted list, never both and never neither: no interleaving of
\* interruption, resumption and close leaks a context or frees it twice.
ContextAccounted ==
  /\ \A t \in Threads : cur[t] # Nil <=> pc[t] \in Holding
  /\ \A t, u \in Threads : cur[t] = cur[u] /\ cur[t] # Nil => t = u
  /\ alloced = ({cur[t] : t \in Threads} \ {Nil}) \cup interrupted
  /\ \A t \in Threads : cur[t] \notin interrupted

\* A context is on the pending list exactly while a caller can wait for it: from
\* before its message can be sent until it is saved or unlinked. This is what
\* lets the notifiers find every caller.
PendingExact ==
  pending = {cur[t] : t \in {u \in Threads : pc[u] \in Holding \ {"clear"}}}

\* The context table and the contexts agree in both directions, so the ids of
\* live contexts differ and a freed context is unreachable from a response.
TableExact ==
  /\ \A s \in Slots : table[s] # Nil =>
       table[s] \in alloced /\ ctx[table[s]].slot = s
  /\ \A c \in alloced : ctx[c].slot # NoSlot => table[ctx[c].slot] = c

\* context_restore_interrupted takes the first context of its thread: there is
\* never a second one, and it always belongs to a user call.
OneSavedCall ==
  /\ \A c \in interrupted : ctx[c].kind = "user"
  /\ \A c, d \in interrupted :
       ctx[c].fl = ctx[d].fl /\ ctx[c].pid = ctx[d].pid => c = d

\* Contexts whose message has been sent and whose caller waits or will wait again.
Awaited ==
  {cur[t] : t \in {u \in Threads : pc[u] \in {"wait", "save"}}}
    \cup {c \in interrupted : ~Closing(ctx[c].fl)}

\* Something is still going to complete the context.
WillComplete(c) ==
  LET d == FileCid[ctx[c].fl] IN
  \/ ctx[c].done > 0
  \/ \E m \in dsp : m.ser = ctx[c].ser
  \/ \E r \in rsp : r.msg.ser = ctx[c].ser
  \/ \E x \in rx : x.msg.ser = ctx[c].ser /\ x.c = c
  \/ ~alive[d] /\ up[d]
  \/ d \in notify
  \/ pdr /\ ctx[c].fl \in PdFiles /\ ctx[c].kind = "user"

\* No call is forgotten: whatever the order of send, response, signal, DSP crash,
\* restart, PD restart and their notifications, a context whose call is awaited is
\* completed, or something that will complete it is still under way.
NoLostCall == \A c \in Awaited : WillComplete(c)

\* After the close of a file none of its contexts is left, on a list, in the table
\* or in memory.
ClosedFileClean ==
  \A c \in alloced : ctx[c].fl \in open \/ Busy(ctx[c].fl)

\* A response is only ever given to the call it answers, and the receive callback
\* never uses a context that is gone.
OwnAnswer ==
  /\ \A c \in alloced : ctx[c].by \in {0, ctx[c].ser}
  /\ ~fault

\* As long as no context has been freed with its answer outstanding, the unlocked
\* receive callback is right: addresses and table entries may be used again.
OwnAnswerUnlessAbandoned == ~abandoned => OwnAnswer

\* On its ordinary paths (answer, error, signal, resumption, orderly close) the
\* driver never frees a context whose answer is outstanding: that takes a restart
\* of the DSP or PD, or the close of a file whose release call failed.
NoEarlyFree ==
  [][ ~abandoned /\ abandoned' =>
        \/ \E d \in Cids : ssrcount[d] > 0 \/ ~alive[d]
        \/ pdrcount > 0
        \/ \E t \in Threads : pc[t] = "clear" /\ call[t].kind = "release"
                                              /\ call[t].res = "err" ]_vars

\* Every ioctl and every close comes back: no thread is left waiting in the kernel,
\* whatever the DSP and the PD do, provided crashes are noticed.
CallReturns == \A t \in Threads : pc[t] # "idle" ~> pc[t] = "idle"

-----------------------------------------------------------------------------
(* What the driver promises its callers: the refinement of RemoteCall *)

\* A job is known by the serial number of the call that brought it.
jobBar == [t \in Threads |-> IF pc[t] = "alloc" THEN call[t].ser
                             ELSE IF cur[t] # Nil THEN ctx[cur[t]].ser ELSE 0]
phaseBar == [t \in Threads |-> IF pc[t] = "idle" THEN "out" ELSE "in"]
resultBar == [t \in Threads |-> call[t].res]

\* It is fresh until glink_tx, posted while the DSP, the channel or the receive
\* callback has it, and good once its context holds an answer of its own with
\* retval 0; it is given up when the context is freed.
freshBar == {jobBar[t] : t \in {u \in Threads : pc[u] \in {"alloc", "slot", "send", "tx"}}}
postedBar == {m.ser : m \in dsp} \cup {r.msg.ser : r \in rsp} \cup {x.msg.ser : x \in rx}
goodBar == {ctx[c].ser : c \in {d \in alloced : ctx[d].by = ctx[d].ser /\ ctx[d].retval = 0}}
savedBar == {<<ctx[c].pid, ctx[c].ser>> : c \in interrupted}

Promise == INSTANCE RemoteCall WITH
  phase <- phaseBar, result <- resultBar, job <- jobBar, used <- calls,
  fresh <- freshBar, posted <- postedBar, good <- goodBar, saved <- savedBar,
  voided <- abandoned

\* fastrpc_internal_invoke with its contexts, table, lists, callback and notifiers
\* keeps the promise of RemoteCall, resumption after signals, restarts and the
\* close of the file included.
KeepsPromise == Promise!Spec
=============================================================================
