------------------------- MODULE FastRpcInvokeProofs -------------------------
(***************************************************************************)
(* Proofs about FastRpcInvoke, for every number of threads, files,         *)
(* channels, contexts and table entries.                                   *)
(***************************************************************************)
EXTENDS FastRpcInvoke, TLAPS

\* A thread that frees a file is alone in it: device_release runs when the last
\* reference on the struct file is gone.
CloserAlone ==
  \A t, u \in Threads :
    t # u /\ pc[t] # "idle" /\ pc[u] # "idle" /\ call[t].fl = call[u].fl =>
      call[t].kind # "release"

\* The context a thread holds belongs to the file it works on and, except in the
\* destructor of the lists, is the one of its own call.
HeldIsOwn ==
  \A t \in Threads : pc[t] \in Holding =>
    /\ ctx[cur[t]].fl = call[t].fl
    /\ pc[t] # "clear" => ctx[cur[t]].pid = t /\ ctx[cur[t]].kind = call[t].kind

\* Where a thread can be before and after the file leaves me->drivers.
Phases ==
  \A t \in Threads :
    /\ pc[t] \in {"unhook", "dtor"} => call[t].kind = "release"
    /\ pc[t] = "dtor" => call[t].fl \notin open
    /\ pc[t] \notin {"idle", "dtor", "clear"} => call[t].fl \in open
    /\ pc[t] = "clear" => call[t].fl \in open \/ call[t].kind = "release"

\* A context has its table entry from before its message is sent.
SlotAssigned ==
  \A t \in Threads : pc[t] \in {"send", "tx", "wait", "woken", "save"} =>
    ctx[cur[t]].slot # NoSlot

\* Before that it has none, and only a user's wait can be interrupted.
FreshSlot ==
  \A t \in Threads : pc[t] = "slot" => ctx[cur[t]].slot = NoSlot
WaiterIsUser ==
  \A t \in Threads : pc[t] = "save" => call[t].kind = "user"

\* A saved context has an entry, an owner, and a file that is open or being freed;
\* its owner is not in another user call of that file.
SavedOK ==
  \A c \in interrupted :
    /\ ctx[c].slot # NoSlot
    /\ ctx[c].fl \in open \/ \E t \in Threads : /\ pc[t] \in {"dtor", "clear"}
                                                /\ call[t].kind = "release"
                                                /\ call[t].fl = ctx[c].fl
    /\ \A t \in Threads :
         /\ pc[t] \in {"alloc"} \cup Holding
         /\ call[t].kind = "user" /\ call[t].fl = ctx[c].fl
         => ctx[c].pid # t

\* The structural part of the inductive invariant.
Struct ==
  /\ ContextAccounted
  /\ PendingExact
  /\ TableExact
  /\ OneSavedCall
  /\ CloserAlone
  /\ HeldIsOwn
  /\ Phases
  /\ SlotAssigned
  /\ FreshSlot
  /\ WaiterIsUser
  /\ SavedOK

IInv == TypeOK /\ Struct

-----------------------------------------------------------------------------
(* Facts about records *)

\* The record of freed memory and that of a thread outside the driver are a
\* context and a call.
LEMMA FreedType == Freed \in Ctx /\ NoCall \in Call
BY ConstantsOK DEF Freed, NoCall, Ctx, Call, Kinds, Retvals, Results, NoSlot

\* Updates of a context that leave its identity alone.
LEMMA CtxUpdate ==
  ASSUME NEW r \in Ctx
  PROVE  /\ \A n \in Nat : [r EXCEPT !.done = n] \in Ctx
         /\ \A s \in Slots : [r EXCEPT !.slot = s] \in Ctx
         /\ \A b \in BOOLEAN : [r EXCEPT !.mpid = b] \in Ctx
         /\ \A v \in {0, 1}, n \in Nat, k \in Nat :
              [r EXCEPT !.retval = v, !.done = n, !.by = k] \in Ctx
BY DEF Ctx, Retvals

\* Setting the outcome of a call.
LEMMA CallUpdate ==
  ASSUME call \in [Threads -> Call], NEW t \in Threads, NEW v \in Results,
         call' = [call EXCEPT ![t].res = v]
  PROVE  /\ call' \in [Threads -> Call]
         /\ \A u \in Threads : call'[u].fl = call[u].fl /\ call'[u].kind = call[u].kind
BY DEF Call

\* What holding a context means.
LEMMA Held ==
  ASSUME IInv, NEW t \in Threads, pc[t] \in Holding
  PROVE  /\ cur[t] \in alloced /\ cur[t] \in Ctxs /\ cur[t] # Nil
         /\ cur[t] \notin interrupted
         /\ \A u \in Threads : u # t => cur[u] # cur[t]
BY ConstantsOK DEF IInv, Struct, TypeOK, ContextAccounted

-----------------------------------------------------------------------------
(* Steps that leave the structure alone *)

SameIds ==
  \A c \in Ctxs : /\ ctx'[c].fl = ctx[c].fl     /\ ctx'[c].pid = ctx[c].pid
                  /\ ctx'[c].kind = ctx[c].kind /\ ctx'[c].slot = ctx[c].slot
SameCalls ==
  \A t \in Threads : call'[t].fl = call[t].fl /\ call'[t].kind = call[t].kind
SameLists == UNCHANGED <<cur, alloced, pending, interrupted, table, open>>

\* No thread moves.
LEMMA Stay ==
  ASSUME IInv, SameIds, SameCalls, SameLists, UNCHANGED pc
  PROVE  Struct'
<1> USE DEF IInv, Struct, SameIds, SameCalls, SameLists
<1>1. ContextAccounted' /\ PendingExact'
  BY DEF ContextAccounted, PendingExact
<1>2. TableExact'
  BY DEF TableExact, TypeOK
<1>3. OneSavedCall'
  BY DEF OneSavedCall, TypeOK
<1>4. CloserAlone' /\ Phases'
  BY DEF CloserAlone, Phases
<1>5. HeldIsOwn' /\ SlotAssigned' /\ FreshSlot' /\ WaiterIsUser'
  BY Held DEF HeldIsOwn, SlotAssigned, FreshSlot, WaiterIsUser, Holding
<1>6. SavedOK'
  BY DEF SavedOK, TypeOK
<1> QED
  BY <1>1, <1>2, <1>3, <1>4, <1>5, <1>6

\* A thread moves on with the context it holds.
LEMMA Move ==
  ASSUME IInv, SameIds, SameCalls, SameLists, NEW t \in Threads,
         pc[t] \in {"slot", "send", "tx", "wait", "woken"},
         NEW l \in {"tx", "wait", "woken", "save", "free"},
         pc' = [pc EXCEPT ![t] = l],
         pc[t] = "slot" => l = "free",
         l = "save" => call[t].kind = "user"
  PROVE  Struct'
<1> USE DEF IInv, Struct, SameIds, SameCalls, SameLists
<1>0. /\ \A u \in Threads : pc'[u] = IF u = t THEN l ELSE pc[u]
      /\ pc[t] \in Holding \ {"clear"} /\ l \in Holding \ {"clear"}
  BY DEF TypeOK, Holding
<1>1. ContextAccounted'
  BY <1>0 DEF ContextAccounted
<1>2. PendingExact'
  BY <1>0 DEF PendingExact
<1>3. TableExact'
  BY DEF TableExact, TypeOK
<1>4. OneSavedCall'
  BY DEF OneSavedCall, TypeOK
<1>5. CloserAlone' /\ Phases'
  BY <1>0 DEF CloserAlone, Phases
<1>6. HeldIsOwn' /\ SlotAssigned' /\ FreshSlot' /\ WaiterIsUser'
  BY <1>0, Held DEF HeldIsOwn, SlotAssigned, FreshSlot, WaiterIsUser, Holding
<1>7. SavedOK'
  BY <1>0 DEF SavedOK, TypeOK, Holding
<1> QED
  BY <1>1, <1>2, <1>3, <1>4, <1>5, <1>6, <1>7

-----------------------------------------------------------------------------
(* The steps that only touch the channel, the DSP or a completion *)

\* Joining the channel preserves the invariant: it touches no context.
LEMMA StepChannelOpen ==
  ASSUME IInv, NEW f \in Files, ChannelOpen(f)
  PROVE  IInv'
<1> USE DEF ChannelOpen, threadVars, ctxVars, dspVars
<1>1. TypeOK'
  BY ConstantsOK DEF IInv, TypeOK
<1>2. Struct'
  BY Stay DEF SameIds, SameCalls, SameLists
<1> QED BY <1>1, <1>2 DEF IInv

\* SUBSYS_BEFORE_SHUTDOWN preserves the invariant: it touches no context.
LEMMA StepSsrShutdown ==
  ASSUME IInv, NEW d \in Cids, SsrShutdown(d)
  PROVE  IInv'
<1> USE DEF SsrShutdown, threadVars, ctxVars, dspVars
<1>1. TypeOK'
  BY ConstantsOK DEF IInv, TypeOK
<1>2. Struct'
  BY Stay DEF SameIds, SameCalls, SameLists
<1> QED BY <1>1, <1>2 DEF IInv

\* SUBSYS_AFTER_POWERUP preserves the invariant.
LEMMA StepSsrPowerup ==
  ASSUME IInv, NEW d \in Cids, SsrPowerup(d)
  PROVE  IInv'
<1> USE DEF SsrPowerup, threadVars, ctxVars, dspVars
<1>1. TypeOK'
  BY DEF IInv, TypeOK
<1>2. Struct'
  BY Stay DEF SameIds, SameCalls, SameLists
<1> QED BY <1>1, <1>2 DEF IInv

\* A crash of the DSP preserves the invariant of the driver.
LEMMA StepDspCrash ==
  ASSUME IInv, NEW d \in Cids, DspCrash(d)
  PROVE  IInv'
<1> USE DEF DspCrash, threadVars, ctxVars, chanVars
<1>1. TypeOK'
  BY DEF IInv, TypeOK
<1>2. Struct'
  BY Stay DEF SameIds, SameCalls, SameLists
<1> QED BY <1>1, <1>2 DEF IInv

\* A crash of the static PD preserves the invariant of the driver.
LEMMA StepPdrDown ==
  ASSUME IInv, PdrDown
  PROVE  IInv'
<1> USE DEF PdrDown, threadVars, ctxVars
<1>1. TypeOK'
  BY DEF IInv, TypeOK
<1>2. Struct'
  BY Stay DEF SameIds, SameCalls, SameLists
<1> QED BY <1>1, <1>2 DEF IInv

\* An answer of the DSP preserves the invariant of the driver.
LEMMA StepDspAnswer ==
  ASSUME IInv, NEW m \in dsp, DspAnswer(m)
  PROVE  IInv'
<1> USE DEF DspAnswer, threadVars, ctxVars, chanVars
<1>1. \A v \in {0, 1} : [msg |-> m, retval |-> v] \in Rsp
  BY DEF IInv, TypeOK, Rsp
<1>2. TypeOK'
  BY <1>1 DEF IInv, TypeOK
<1>3. Struct'
  BY Stay DEF SameIds, SameCalls, SameLists
<1> QED BY <1>2, <1>3 DEF IInv

\* The checks of the receive callback preserve the invariant.
LEMMA StepRxCheck ==
  ASSUME IInv, NEW r \in rsp, RxCheck(r)
  PROVE  IInv'
<1> USE DEF RxCheck, threadVars, ctxVars, chanVars
<1>1. /\ r.msg \in Msg /\ r.retval \in {0, 1}
      /\ r.msg.slot \in Slots
  BY DEF IInv, TypeOK, Rsp, Msg
<1>2. table[r.msg.slot] # Nil =>
        [msg |-> r.msg, retval |-> r.retval, c |-> table[r.msg.slot]] \in Rx
  BY <1>1 DEF IInv, TypeOK, Rx
<1>3. TypeOK'
  BY <1>2 DEF IInv, TypeOK
<1>4. Struct'
  BY Stay DEF SameIds, SameCalls, SameLists
<1> QED BY <1>3, <1>4 DEF IInv

\* context_notify_user preserves the invariant, even for a context that is gone.
LEMMA StepRxNotify ==
  ASSUME IInv, NEW x \in rx, RxNotify(x)
  PROVE  IInv'
<1> USE DEF RxNotify, threadVars, chanVars
<1>1. x.retval \in {0, 1} /\ x.msg.ser \in Nat
  BY DEF IInv, TypeOK, Rx, Msg
<1>2. ctx' \in [Ctxs -> Ctx] /\ SameIds
  <2>1. CASE UNCHANGED ctx
    BY <2>1 DEF IInv, TypeOK, SameIds
  <2>2. ASSUME NEW c \in alloced,
               ctx' = [ctx EXCEPT ![c].retval = x.retval, ![c].done = @ + 1,
                                  ![c].by = x.msg.ser]
        PROVE  ctx' \in [Ctxs -> Ctx] /\ SameIds
    <3>1. c \in Ctxs /\ ctx[c] \in Ctx /\ ctx[c].done + 1 \in Nat
      BY DEF IInv, TypeOK, Ctx
    <3>2. ctx' = [ctx EXCEPT ![c] = [ctx[c] EXCEPT !.retval = x.retval,
                        !.done = ctx[c].done + 1, !.by = x.msg.ser]]
      BY <2>2, <3>1 DEF IInv, TypeOK
    <3>3. ctx' \in [Ctxs -> Ctx]
      BY <1>1, <3>1, <3>2, CtxUpdate DEF IInv, TypeOK
    <3>4. SameIds
      BY <3>1, <3>2 DEF IInv, TypeOK, SameIds, Ctx
    <3> QED BY <3>3, <3>4
  <2> QED BY <2>1, <2>2
<1>3. TypeOK'
  BY <1>2 DEF IInv, TypeOK
<1>4. Struct'
  BY <1>2, Stay DEF SameCalls, SameLists
<1> QED BY <1>3, <1>4 DEF IInv

\* Completing a set of contexts changes nothing but their counters.
LEMMA CompleteOK ==
  ASSUME IInv, NEW cs, Complete(cs)
  PROVE  ctx' \in [Ctxs -> Ctx] /\ SameIds
<1>1. \A c \in Ctxs : ctx[c] \in Ctx /\ ctx[c].done + 1 \in Nat
  BY DEF IInv, TypeOK, Ctx
<1>2. \A c \in Ctxs : [ctx[c] EXCEPT !.done = ctx[c].done + 1] \in Ctx
  BY <1>1, CtxUpdate
<1>3. ctx' \in [Ctxs -> Ctx]
  BY <1>1, <1>2 DEF Complete
<1>4. SameIds
  BY <1>1 DEF Complete, SameIds, Ctx
<1> QED BY <1>3, <1>4

\* Waking the callers after a restart of the DSP preserves the invariant.
LEMMA StepNotifyDrivers ==
  ASSUME IInv, NEW d \in Cids, NotifyDrivers(d)
  PROVE  IInv'
<1> USE DEF NotifyDrivers, threadVars, dspVars
<1>1. ctx' \in [Ctxs -> Ctx] /\ SameIds
  BY CompleteOK
<1>2. TypeOK'
  BY <1>1 DEF IInv, TypeOK
<1>3. Struct'
  BY <1>1, Stay DEF SameCalls, SameLists
<1> QED BY <1>2, <1>3 DEF IInv

\* Waking the callers after a restart of the PD preserves the invariant.
LEMMA StepNotifyPdrDrivers ==
  ASSUME IInv, NotifyPdrDrivers
  PROVE  IInv'
<1> USE DEF NotifyPdrDrivers, threadVars, dspVars
<1>1. ctx' \in [Ctxs -> Ctx] /\ SameIds
  BY CompleteOK
<1>2. TypeOK'
  BY <1>1 DEF IInv, TypeOK
<1>3. Struct'
  BY <1>1, Stay DEF SameCalls, SameLists
<1> QED BY <1>2, <1>3 DEF IInv

-----------------------------------------------------------------------------
(* The steps of a thread that keeps its context *)

\* Marshalling and the checks before the message is sent preserve the invariant.
LEMMA StepInvokeSend ==
  ASSUME IInv, NEW t \in Threads, InvokeSend(t)
  PROVE  IInv'
<1> USE DEF InvokeSend, Goto, Fail, chanVars, dspVars
<1>0. cur[t] \in Ctxs /\ pc[t] = "send"
  BY Held DEF Holding
<1>1. ctx' \in [Ctxs -> Ctx] /\ SameIds
  <2>1. CASE UNCHANGED ctx
    BY <2>1 DEF IInv, TypeOK, SameIds
  <2>2. CASE ctx' = [ctx EXCEPT ![cur[t]].mpid = (call[t].kind = "user")]
    <3>1. ctx' = [ctx EXCEPT ![cur[t]] =
                    [ctx[cur[t]] EXCEPT !.mpid = (call[t].kind = "user")]]
      BY <1>0, <2>2 DEF IInv, TypeOK
    <3>2. ctx' \in [Ctxs -> Ctx]
      BY <1>0, <3>1, CtxUpdate DEF IInv, TypeOK
    <3>3. SameIds
      BY <1>0, <3>1 DEF IInv, TypeOK, SameIds, Ctx
    <3> QED BY <3>2, <3>3
  <2> QED BY <2>1, <2>2
<1>2. call' \in [Threads -> Call] /\ SameCalls
  BY CallUpdate DEF IInv, TypeOK, SameCalls, Results
<1>3. PICK l \in {"tx", "free"} : pc' = [pc EXCEPT ![t] = l]
  OBVIOUS
<1>4. TypeOK'
  BY <1>1, <1>2, <1>3 DEF IInv, TypeOK, PCs
<1>5. Struct'
  BY <1>0, <1>1, <1>2, <1>3, Move DEF SameLists
<1> QED BY <1>4, <1>5 DEF IInv

\* Sending the message preserves the invariant.
LEMMA StepGlinkTx ==
  ASSUME IInv, NEW t \in Threads, GlinkTx(t)
  PROVE  IInv'
<1> USE DEF GlinkTx, Goto, Fail, ctxVars, chanVars
<1>0. cur[t] \in Ctxs /\ pc[t] = "tx"
  BY Held DEF Holding
<1>1. MsgOf(t) \in Msg
  <2>1. ctx[cur[t]].slot \in Slots /\ ctx[cur[t]].ser \in Nat
    BY <1>0 DEF IInv, Struct, SlotAssigned, TypeOK, Ctx
  <2>2. call[t].fl \in Files /\ call[t].kind \in Kinds /\ FileCid[call[t].fl] \in Cids
    BY ConstantsOK DEF IInv, TypeOK, Call
  <2> QED BY <1>0, <2>1, <2>2 DEF MsgOf, Msg
<1>2. call' \in [Threads -> Call] /\ SameCalls
  BY CallUpdate DEF IInv, TypeOK, SameCalls, Results
<1>3. PICK l \in {"wait", "free"} : pc' = [pc EXCEPT ![t] = l]
  OBVIOUS
<1>4. TypeOK'
  BY <1>1, <1>2, <1>3 DEF IInv, TypeOK, PCs
<1>5. Struct'
  BY <1>0, <1>2, <1>3, Move DEF SameLists, SameIds
<1> QED BY <1>4, <1>5 DEF IInv

\* The end of the wait preserves the invariant: a completion is taken once.
LEMMA StepWaitDone ==
  ASSUME IInv, NEW t \in Threads, WaitDone(t)
  PROVE  IInv'
<1> USE DEF WaitDone, Goto, chanVars, dspVars
<1>0. cur[t] \in Ctxs /\ pc[t] = "wait"
  BY Held DEF Holding
<1>1. ctx' \in [Ctxs -> Ctx] /\ SameIds
  <2>1. ctx[cur[t]] \in Ctx /\ ctx[cur[t]].done - 1 \in Nat
    BY <1>0 DEF IInv, TypeOK, Ctx
  <2>2. ctx' = [ctx EXCEPT ![cur[t]] =
                  [ctx[cur[t]] EXCEPT !.done = ctx[cur[t]].done - 1]]
    BY <1>0 DEF IInv, TypeOK
  <2>3. ctx' \in [Ctxs -> Ctx]
    <3>1. [ctx[cur[t]] EXCEPT !.done = ctx[cur[t]].done - 1] \in Ctx
      BY <2>1, CtxUpdate
    <3> QED BY <1>0, <2>2, <3>1 DEF IInv, TypeOK
  <2>4. SameIds
    BY <1>0, <2>1, <2>2 DEF IInv, TypeOK, SameIds, Ctx
  <2> QED BY <2>3, <2>4
<1>2. TypeOK'
  BY <1>1 DEF IInv, TypeOK, PCs
<1>3. Struct'
  BY <1>0, <1>1, Move DEF SameLists, SameCalls
<1> QED BY <1>2, <1>3 DEF IInv

\* A signal during the wait preserves the invariant.
LEMMA StepWaitInterrupted ==
  ASSUME IInv, NEW t \in Threads, WaitInterrupted(t)
  PROVE  IInv'
<1> USE DEF WaitInterrupted, Goto, ctxVars, chanVars, dspVars
<1>1. TypeOK'
  BY DEF IInv, TypeOK, PCs
<1>2. Struct'
  BY Move DEF SameLists, SameCalls, SameIds
<1> QED BY <1>1, <1>2 DEF IInv

\* Returning the results preserves the invariant.
LEMMA StepPutArgs ==
  ASSUME IInv, NEW t \in Threads, PutArgs(t)
  PROVE  IInv'
<1> USE DEF PutArgs, Goto, Fail, ctxVars, chanVars, dspVars
<1>1. call' \in [Threads -> Call] /\ SameCalls
  BY CallUpdate DEF IInv, TypeOK, SameCalls, Results
<1>2. TypeOK'
  BY <1>1 DEF IInv, TypeOK, PCs
<1>3. Struct'
  BY <1>1, Move DEF SameLists, SameIds
<1> QED BY <1>2, <1>3 DEF IInv

-----------------------------------------------------------------------------
(* The steps that open files, and create, save and free contexts *)

\* Opening the device preserves the invariant: no context of the new file exists.
LEMMA StepDeviceOpen ==
  ASSUME IInv, NEW f \in Files, DeviceOpen(f)
  PROVE  IInv'
<1> USE DEF IInv, Struct, DeviceOpen, threadVars, ctxVars, dspVars
<1>1. TypeOK'
  BY ConstantsOK DEF TypeOK
<1>2. ContextAccounted' /\ PendingExact' /\ TableExact' /\ OneSavedCall'
  BY DEF ContextAccounted, PendingExact, TableExact, OneSavedCall
<1>3. CloserAlone' /\ HeldIsOwn' /\ SlotAssigned' /\ FreshSlot' /\ WaiterIsUser'
  BY DEF CloserAlone, HeldIsOwn, SlotAssigned, FreshSlot, WaiterIsUser
<1>4. Phases'
  BY DEF Phases, Busy
<1>5. SavedOK'
  BY DEF SavedOK
<1> QED BY <1>1, <1>2, <1>3, <1>4, <1>5

\* context_alloc preserves the invariant: a fresh address is neither held nor
\* saved nor in the table.
LEMMA StepContextAlloc ==
  ASSUME IInv, NEW t \in Threads, ContextAlloc(t)
  PROVE  IInv'
<1> USE DEF IInv, Struct, ContextAlloc, Goto, Fail, chanVars, dspVars
<1>1. ASSUME NEW c \in Ctxs \ alloced,
             alloced' = alloced \cup {c},
             ctx' = [ctx EXCEPT ![c] =
               [fl |-> call[t].fl, pid |-> t, kind |-> call[t].kind,
                sc |-> call[t].sc, slot |-> NoSlot, retval |-> -1, done |-> 0,
                mpid |-> FALSE, ser |-> call[t].ser, by |-> 0]],
             pending' = pending \cup {c},
             cur' = [cur EXCEPT ![t] = c],
             pc' = [pc EXCEPT ![t] = "slot"],
             UNCHANGED call
      PROVE  IInv'
  <2>1. /\ cur[t] = Nil /\ c # Nil /\ c \notin interrupted
        /\ \A u \in Threads : cur[u] # c
        /\ \A u \in Threads : pc'[u] = IF u = t THEN "slot" ELSE pc[u]
        /\ \A u \in Threads : cur'[u] = IF u = t THEN c ELSE cur[u]
    BY <1>1, ConstantsOK DEF TypeOK, ContextAccounted, Holding
  <2>2. /\ ctx' \in [Ctxs -> Ctx]
        /\ \A d \in Ctxs : d # c => ctx'[d] = ctx[d]
        /\ ctx'[c].fl = call[t].fl /\ ctx'[c].pid = t
        /\ ctx'[c].kind = call[t].kind /\ ctx'[c].slot = NoSlot
    BY <1>1 DEF TypeOK, Ctx, Call, Retvals
  <2>3. TypeOK'
    BY <1>1, <2>2 DEF TypeOK, PCs
  <2>4. ContextAccounted' /\ PendingExact'
    BY <1>1, <2>1 DEF ContextAccounted, PendingExact, Holding
  <2>5. TableExact'
    BY <1>1, <2>2 DEF TableExact, TypeOK
  <2>6. OneSavedCall'
    BY <1>1, <2>1, <2>2 DEF OneSavedCall, TypeOK
  <2>7. CloserAlone' /\ Phases'
    BY <1>1, <2>1 DEF CloserAlone, Phases
  <2>8. HeldIsOwn' /\ SlotAssigned' /\ FreshSlot' /\ WaiterIsUser'
    BY <1>1, <2>1, <2>2, Held
    DEF HeldIsOwn, SlotAssigned, FreshSlot, WaiterIsUser, Holding
  <2>9. SavedOK'
    BY <1>1, <2>1, <2>2 DEF SavedOK, TypeOK, Holding
  <2> QED BY <2>3, <2>4, <2>5, <2>6, <2>7, <2>8, <2>9
<1>2. CASE Fail(t, "ret") /\ UNCHANGED <<alloced, ctx, pending, cur>>
  <2>1. call' \in [Threads -> Call] /\ SameCalls
    BY <1>2, CallUpdate DEF TypeOK, SameCalls, Results
  <2>2. TypeOK'
    BY <1>2, <2>1 DEF TypeOK, PCs
  <2>3. \A u \in Threads : pc'[u] = IF u = t THEN "ret" ELSE pc[u]
    BY <1>2 DEF TypeOK
  <2>4. ContextAccounted' /\ PendingExact' /\ TableExact' /\ OneSavedCall'
    BY <1>2, <2>3 DEF ContextAccounted, PendingExact, TableExact, OneSavedCall, Holding
  <2>5. /\ CloserAlone' /\ HeldIsOwn' /\ Phases'
        /\ SlotAssigned' /\ FreshSlot' /\ WaiterIsUser'
    BY <1>2, <2>1, <2>3
    DEF CloserAlone, HeldIsOwn, Phases, SlotAssigned, FreshSlot, WaiterIsUser,
        SameCalls, Holding
  <2>6. SavedOK'
    BY <1>2, <2>1, <2>3 DEF SavedOK, SameCalls, Holding
  <2> QED BY <2>2, <2>4, <2>5, <2>6
<1> QED BY <1>1, <1>2

\* Taking a table entry preserves the invariant: the first free entry held nobody.
LEMMA StepContextSlot ==
  ASSUME IInv, NEW t \in Threads, ContextSlot(t)
  PROVE  IInv'
<1> USE DEF IInv, Struct, ContextSlot, Goto, Fail, chanVars, dspVars
<1>0. /\ cur[t] \in Ctxs /\ cur[t] \in alloced /\ cur[t] # Nil /\ pc[t] = "slot"
      /\ cur[t] \notin interrupted
      /\ \A u \in Threads : u # t => cur[u] # cur[t]
  BY Held DEF Holding
<1>1. ASSUME NEW s \in Slots, table[s] = Nil,
             table' = [table EXCEPT ![s] = cur[t]],
             ctx' = [ctx EXCEPT ![cur[t]].slot = s],
             pc' = [pc EXCEPT ![t] = "send"],
             UNCHANGED call
      PROVE  IInv'
  <2>1. \A u \in Threads : pc'[u] = IF u = t THEN "send" ELSE pc[u]
    BY <1>1 DEF TypeOK
  <2>2. ctx' = [ctx EXCEPT ![cur[t]] = [ctx[cur[t]] EXCEPT !.slot = s]]
    BY <1>0, <1>1 DEF TypeOK
  <2>3. ctx' \in [Ctxs -> Ctx]
    BY <1>0, <2>2, CtxUpdate DEF TypeOK
  <2>4. /\ \A c \in Ctxs : c # cur[t] => ctx'[c] = ctx[c]
        /\ ctx'[cur[t]].fl = ctx[cur[t]].fl /\ ctx'[cur[t]].pid = ctx[cur[t]].pid
        /\ ctx'[cur[t]].kind = ctx[cur[t]].kind /\ ctx'[cur[t]].slot = s
    BY <1>0, <2>2 DEF TypeOK, Ctx
  <2>5. TypeOK'
    BY <1>0, <1>1, <2>3 DEF TypeOK, PCs
  <2>6. ContextAccounted' /\ PendingExact'
    BY <1>1, <2>1, <1>0 DEF ContextAccounted, PendingExact, Holding
  <2>7. ctx[cur[t]].slot = NoSlot
    BY <1>0 DEF FreshSlot
  <2>8. TableExact'
    <3>1. NoSlot \notin Slots
      BY ConstantsOK DEF NoSlot, Slots
    <3>2. \A c \in alloced : c # Nil /\ c \in Ctxs /\ ctx[c].slot \in Slots \cup {NoSlot}
      BY ConstantsOK DEF TypeOK, Ctx
    <3>3. \A r \in Slots : table'[r] = IF r = s THEN cur[t] ELSE table[r]
      BY <1>1 DEF TypeOK
    <3>4. ASSUME NEW r \in Slots, table'[r] # Nil
          PROVE  table'[r] \in alloced' /\ ctx'[table'[r]].slot = r
      BY <1>0, <2>4, <2>7, <3>1, <3>2, <3>3, <3>4 DEF TableExact
    <3>5. ASSUME NEW c \in alloced', ctx'[c].slot # NoSlot
          PROVE  table'[ctx'[c].slot] = c
      BY <1>0, <1>1, <2>4, <3>2, <3>3, <3>5 DEF TableExact
    <3> QED BY <3>4, <3>5 DEF TableExact
  <2>9. OneSavedCall'
    BY <1>0, <1>1, <2>4 DEF OneSavedCall, TypeOK
  <2>10. CloserAlone' /\ Phases'
    BY <1>0, <1>1, <2>1 DEF CloserAlone, Phases
  <2>11. HeldIsOwn' /\ SlotAssigned' /\ FreshSlot' /\ WaiterIsUser'
    BY <1>0, <1>1, <2>1, <2>4, Held, ConstantsOK
    DEF HeldIsOwn, SlotAssigned, FreshSlot, WaiterIsUser, Holding, Slots, NoSlot
  <2>12. SavedOK'
    BY <1>0, <1>1, <2>1, <2>4 DEF SavedOK, TypeOK, Holding
  <2> QED BY <2>5, <2>6, <2>8, <2>9, <2>10, <2>11, <2>12
<1>2. CASE Fail(t, "free") /\ UNCHANGED <<table, ctx>>
  <2>1. call' \in [Threads -> Call] /\ SameCalls
    BY <1>2, CallUpdate DEF TypeOK, SameCalls, Results
  <2>2. TypeOK'
    BY <1>2, <2>1 DEF TypeOK, PCs
  <2>3. Struct'
    BY <1>0, <1>2, <2>1, Move DEF SameLists, SameIds
  <2> QED BY <2>2, <2>3
<1> QED BY <1>1, <1>2

\* Saving an interrupted context preserves the invariant: its thread has no other
\* saved context on this file, because a call with one either resumes it or fails.
LEMMA StepContextSaveInterrupted ==
  ASSUME IInv, NEW t \in Threads, ContextSaveInterrupted(t)
  PROVE  IInv'
<1> USE DEF IInv, Struct, ContextSaveInterrupted, Goto, chanVars, dspVars
<1>0. /\ cur[t] \in Ctxs /\ cur[t] \in alloced /\ cur[t] # Nil /\ pc[t] = "save"
      /\ cur[t] \notin interrupted
      /\ \A u \in Threads : u # t => cur[u] # cur[t]
  BY Held DEF Holding
<1>1. call' \in [Threads -> Call] /\ SameCalls
  BY CallUpdate DEF TypeOK, SameCalls, Results
<1>2. /\ \A u \in Threads : pc'[u] = IF u = t THEN "ret" ELSE pc[u]
      /\ \A u \in Threads : cur'[u] = IF u = t THEN Nil ELSE cur[u]
  BY DEF TypeOK
<1>3. TypeOK'
  BY <1>0, <1>1 DEF TypeOK, PCs
<1>4. ContextAccounted'
  <2>1. alloced' = ({cur'[u] : u \in Threads} \ {Nil}) \cup interrupted'
    BY <1>0, <1>2 DEF ContextAccounted
  <2>2. \A u \in Threads : cur'[u] # Nil <=> pc'[u] \in Holding
    BY <1>2 DEF ContextAccounted, Holding
  <2>3. \A u, v \in Threads : cur'[u] = cur'[v] /\ cur'[u] # Nil => u = v
    BY <1>2 DEF ContextAccounted
  <2>4. \A u \in Threads : cur'[u] \notin interrupted'
    BY <1>0, <1>2, ConstantsOK DEF ContextAccounted, TypeOK
  <2> QED BY <2>1, <2>2, <2>3, <2>4 DEF ContextAccounted
<1>10. PendingExact'
  BY <1>0, <1>2 DEF PendingExact, Holding
<1>5. TableExact'
  BY DEF TableExact
<1>6. OneSavedCall'
  BY <1>0 DEF OneSavedCall, SavedOK, HeldIsOwn, WaiterIsUser, Holding
<1>7. CloserAlone' /\ Phases'
  BY <1>1, <1>2, <1>0 DEF CloserAlone, Phases, SameCalls
<1>8. HeldIsOwn' /\ SlotAssigned' /\ FreshSlot' /\ WaiterIsUser'
  BY <1>0, <1>1, <1>2 DEF HeldIsOwn, SlotAssigned, FreshSlot, WaiterIsUser, SameCalls, Holding
<1>9. SavedOK'
  BY <1>0, <1>1, <1>2 DEF SavedOK, SameCalls, Holding, HeldIsOwn, Phases, SlotAssigned
<1> QED BY <1>3, <1>4, <1>5, <1>6, <1>7, <1>8, <1>9, <1>10

\* The first half of context_free preserves the invariant.
LEMMA StepContextUnlink ==
  ASSUME IInv, NEW t \in Threads, ContextUnlink(t)
  PROVE  IInv'
<1> USE DEF IInv, Struct, ContextUnlink, Goto, chanVars, dspVars
<1>0. /\ cur[t] \in Ctxs /\ cur[t] # Nil /\ pc[t] = "free"
      /\ \A u \in Threads : u # t => cur[u] # cur[t]
  BY Held DEF Holding
<1>1. \A u \in Threads : pc'[u] = IF u = t THEN "clear" ELSE pc[u]
  BY DEF TypeOK
<1>2. TypeOK'
  BY DEF TypeOK, PCs
<1>3. ContextAccounted' /\ PendingExact'
  BY <1>0, <1>1 DEF ContextAccounted, PendingExact, Holding
<1>4. TableExact' /\ OneSavedCall'
  BY DEF TableExact, OneSavedCall
<1>5. CloserAlone' /\ Phases'
  BY <1>0, <1>1 DEF CloserAlone, Phases
<1>6. HeldIsOwn' /\ SlotAssigned' /\ FreshSlot' /\ WaiterIsUser'
  BY <1>0, <1>1 DEF HeldIsOwn, SlotAssigned, FreshSlot, WaiterIsUser, Holding
<1>7. SavedOK'
  BY <1>0, <1>1 DEF SavedOK, Holding
<1> QED BY <1>2, <1>3, <1>4, <1>5, <1>6, <1>7

\* The second half of context_free preserves the invariant: the entry it drops is
\* the one that holds the context.
LEMMA StepContextFree ==
  ASSUME IInv, NEW t \in Threads, ContextFree(t)
  PROVE  IInv'
<1> USE DEF IInv, Struct, ContextFree, Goto, chanVars, dspVars
<1>0. /\ cur[t] \in Ctxs /\ cur[t] \in alloced /\ cur[t] # Nil /\ pc[t] = "clear"
      /\ cur[t] \notin interrupted
      /\ \A u \in Threads : u # t => cur[u] # cur[t]
  BY Held DEF Holding
<1>1. PICK l \in {"ret", "dtor"} :
        /\ pc' = [pc EXCEPT ![t] = l]
        /\ l = "ret" <=> call[t].fl \in open
  OBVIOUS
<1>2. /\ \A u \in Threads : pc'[u] = IF u = t THEN l ELSE pc[u]
      /\ \A u \in Threads : cur'[u] = IF u = t THEN Nil ELSE cur[u]
      /\ \A c \in Ctxs : c # cur[t] => ctx'[c] = ctx[c]
  BY <1>0, <1>1 DEF TypeOK
<1>3. TypeOK'
  BY <1>0, <1>1, FreedType DEF TypeOK, PCs
<1>4. ContextAccounted'
  <2>1. alloced' = ({cur'[u] : u \in Threads} \ {Nil}) \cup interrupted'
    BY <1>0, <1>2 DEF ContextAccounted
  <2>2. \A u \in Threads : cur'[u] # Nil <=> pc'[u] \in Holding
    BY <1>2, <1>1 DEF ContextAccounted, Holding
  <2>3. \A u, v \in Threads : cur'[u] = cur'[v] /\ cur'[u] # Nil => u = v
    BY <1>2 DEF ContextAccounted
  <2>4. \A u \in Threads : cur'[u] \notin interrupted'
    BY <1>0, <1>2, ConstantsOK DEF ContextAccounted, TypeOK
  <2> QED BY <2>1, <2>2, <2>3, <2>4 DEF ContextAccounted
<1>10. PendingExact'
  BY <1>0, <1>2 DEF PendingExact, Holding
<1>5. TableExact'
  <2>1. \A s \in Slots : table'[s] = IF table[s] = cur[t] THEN Nil ELSE table[s]
    OBVIOUS
  <2>2. \A c \in alloced : ctx[c].slot # NoSlot => ctx[c].slot \in Slots
    BY DEF TypeOK, Ctx
  <2>3. ASSUME NEW s \in Slots, table'[s] # Nil
        PROVE  table'[s] \in alloced' /\ ctx'[table'[s]].slot = s
    BY <1>2, <2>1, <2>3 DEF TableExact, TypeOK
  <2>4. ASSUME NEW c \in alloced', ctx'[c].slot # NoSlot
        PROVE  table'[ctx'[c].slot] = c
    BY <1>0, <1>2, <2>1, <2>2, <2>4 DEF TableExact, TypeOK
  <2> QED BY <2>3, <2>4 DEF TableExact
<1>6. OneSavedCall'
  BY <1>0, <1>2 DEF OneSavedCall, TypeOK
<1>7. CloserAlone' /\ Phases'
  BY <1>0, <1>1, <1>2 DEF CloserAlone, Phases
<1>8. HeldIsOwn' /\ SlotAssigned' /\ FreshSlot' /\ WaiterIsUser'
  BY <1>0, <1>2, Held DEF HeldIsOwn, SlotAssigned, FreshSlot, WaiterIsUser, Holding
<1>9. SavedOK'
  BY <1>0, <1>1, <1>2 DEF SavedOK, TypeOK, Holding, Phases
<1> QED BY <1>3, <1>4, <1>5, <1>6, <1>7, <1>8, <1>9, <1>10

-----------------------------------------------------------------------------
(* The steps that start and end a call or a close *)

\* Starting a call, or resuming an interrupted one, preserves the invariant.
LEMMA StepInvokeStart ==
  ASSUME IInv, NEW t \in Threads, NEW f \in Files, NEW k \in {"user", "kernel"},
         NEW sc \in Scs, InvokeStart(t, f, k, sc)
  PROVE  IInv'
<1> DEFINE this == [fl |-> f, kind |-> k, sc |-> sc, ser |-> calls + 1, res |-> "none"]
<1> USE DEF IInv, Struct, InvokeStart, Goto, chanVars, dspVars
<1>0. /\ this \in Call /\ [this EXCEPT !.res = "err"] \in Call
      /\ this.fl = f /\ this.kind = k
      /\ [this EXCEPT !.res = "err"].fl = f /\ [this EXCEPT !.res = "err"].kind = k
  BY DEF TypeOK, Call, Kinds, Results
<1>1. /\ pc[t] = "idle" /\ cur[t] = Nil /\ f \in open
      /\ \A u \in Threads : pc[u] # "idle" /\ call[u].fl = f => call[u].kind # "release"
  BY DEF ContextAccounted, Holding, Closing
<1>2. ASSUME NEW c \in interrupted, k = "user",
             ctx[c].fl = f, ctx[c].pid = t,
             pending' = pending \cup {c}, interrupted' = interrupted \ {c},
             cur' = [cur EXCEPT ![t] = c], pc' = [pc EXCEPT ![t] = "wait"],
             call' = [call EXCEPT ![t] = this]
      PROVE  IInv'
  <2>1. /\ \A u \in Threads : pc'[u] = IF u = t THEN "wait" ELSE pc[u]
        /\ \A u \in Threads : cur'[u] = IF u = t THEN c ELSE cur[u]
        /\ \A u \in Threads : call'[u] = IF u = t THEN this ELSE call[u]
        /\ c \in Ctxs /\ c # Nil /\ \A u \in Threads : cur[u] # c
    BY <1>2, ConstantsOK DEF TypeOK, ContextAccounted
  <2>2. TypeOK'
    BY <1>0, <1>2, <2>1 DEF TypeOK, PCs
  <2>3. ContextAccounted'
    <3>1. alloced' = ({cur'[u] : u \in Threads} \ {Nil}) \cup interrupted'
      BY <1>1, <1>2, <2>1 DEF ContextAccounted
    <3> QED BY <1>1, <1>2, <2>1, <3>1 DEF ContextAccounted, Holding
  <2>4. PendingExact'
    BY <1>1, <1>2, <2>1 DEF PendingExact, Holding
  <2>5. TableExact' /\ OneSavedCall'
    BY <1>2 DEF TableExact, OneSavedCall
  <2>6. CloserAlone' /\ Phases'
    BY <1>0, <1>1, <1>2, <2>1 DEF CloserAlone, Phases
  <2>7. HeldIsOwn' /\ SlotAssigned' /\ FreshSlot' /\ WaiterIsUser'
    BY <1>0, <1>2, <2>1
    DEF HeldIsOwn, SlotAssigned, FreshSlot, WaiterIsUser, OneSavedCall, SavedOK, Holding
  <2>8. SavedOK'
    BY <1>0, <1>1, <1>2, <2>1 DEF SavedOK, OneSavedCall, Holding
  <2> QED BY <2>2, <2>3, <2>4, <2>5, <2>6, <2>7, <2>8
<1>3. ASSUME NEW l \in {"ret", "alloc"}, NEW a \in Call, a.fl = f, a.kind = k,
             l = "alloc" => k = "kernel" \/ Saved(f, t) = {},
             UNCHANGED <<pending, interrupted, cur>>,
             pc' = [pc EXCEPT ![t] = l], call' = [call EXCEPT ![t] = a]
      PROVE  IInv'
  <2>1. /\ \A u \in Threads : pc'[u] = IF u = t THEN l ELSE pc[u]
        /\ \A u \in Threads : call'[u] = IF u = t THEN a ELSE call[u]
    BY <1>3 DEF TypeOK
  <2>2. TypeOK'
    BY <1>3 DEF TypeOK, PCs
  <2>3. ContextAccounted' /\ PendingExact'
    BY <1>1, <1>3, <2>1 DEF ContextAccounted, PendingExact, Holding
  <2>4. TableExact' /\ OneSavedCall'
    BY <1>3 DEF TableExact, OneSavedCall
  <2>5. CloserAlone' /\ Phases'
    BY <1>1, <1>3, <2>1 DEF CloserAlone, Phases
  <2>6. HeldIsOwn' /\ SlotAssigned' /\ FreshSlot' /\ WaiterIsUser'
    BY <1>3, <2>1 DEF HeldIsOwn, SlotAssigned, FreshSlot, WaiterIsUser, Holding
  <2>7. SavedOK'
    BY <1>1, <1>3, <2>1 DEF SavedOK, Saved, Holding
  <2> QED BY <2>2, <2>3, <2>4, <2>5, <2>6, <2>7
<1>4. CASE /\ k = "user"
           /\ \E c \in {c \in Saved(f, t) : ctx[c].sc = sc} :
                /\ pending' = pending \cup {c}
                /\ interrupted' = interrupted \ {c}
                /\ cur' = [cur EXCEPT ![t] = c]
           /\ pc' = [pc EXCEPT ![t] = "wait"]
           /\ call' = [call EXCEPT ![t] = this]
  BY <1>2, <1>4 DEF Saved
<1>5. CASE /\ pc' = [pc EXCEPT ![t] = "ret"]
           /\ call' = [call EXCEPT ![t] = [this EXCEPT !.res = "err"]]
           /\ UNCHANGED <<pending, interrupted, cur>>
  BY <1>0, <1>3, <1>5
<1>6. CASE /\ k = "kernel" \/ Saved(f, t) = {}
           /\ pc' = [pc EXCEPT ![t] = "alloc"]
           /\ call' = [call EXCEPT ![t] = this]
           /\ UNCHANGED <<pending, interrupted, cur>>
  BY <1>0, <1>3, <1>6
<1> QED BY <1>4, <1>5, <1>6

\* The return of fastrpc_internal_invoke preserves the invariant.
LEMMA StepInvokeReturn ==
  ASSUME IInv, NEW t \in Threads, InvokeReturn(t)
  PROVE  IInv'
<1> USE DEF IInv, Struct, InvokeReturn, Goto, ctxVars, chanVars, dspVars
<1>0. pc[t] = "ret" /\ cur[t] = Nil
  BY DEF ContextAccounted, Holding
<1>1. ASSUME NEW l \in {"unhook", "idle"}, pc' = [pc EXCEPT ![t] = l],
             call' \in [Threads -> Call],
             \A u \in Threads : u # t \/ l = "unhook" => call'[u] = call[u],
             l = "unhook" => call[t].kind = "release"
      PROVE  IInv'
  <2>1. \A u \in Threads : pc'[u] = IF u = t THEN l ELSE pc[u]
    BY <1>1 DEF TypeOK
  <2>2. TypeOK'
    BY <1>1 DEF TypeOK, PCs
  <2>3. ContextAccounted' /\ PendingExact' /\ TableExact' /\ OneSavedCall'
    BY <1>0, <2>1 DEF ContextAccounted, PendingExact, TableExact, OneSavedCall, Holding
  <2>4. CloserAlone' /\ Phases'
    BY <1>0, <1>1, <2>1 DEF CloserAlone, Phases
  <2>5. HeldIsOwn' /\ SlotAssigned' /\ FreshSlot' /\ WaiterIsUser'
    BY <1>1, <2>1 DEF HeldIsOwn, SlotAssigned, FreshSlot, WaiterIsUser, Holding
  <2>6. SavedOK'
    BY <1>0, <1>1, <2>1 DEF SavedOK, Holding
  <2> QED BY <2>2, <2>3, <2>4, <2>5, <2>6
<1>2. CASE call[t].kind = "release" /\ pc' = [pc EXCEPT ![t] = "unhook"] /\ UNCHANGED call
  BY <1>1, <1>2 DEF TypeOK
<1>3. CASE /\ call[t].kind # "release"
           /\ pc' = [pc EXCEPT ![t] = "idle"]
           /\ \E r \in Results : call' = [call EXCEPT ![t] = [NoCall EXCEPT !.res = r]]
  <2>1. \A r \in Results : [NoCall EXCEPT !.res = r] \in Call
    BY FreedType DEF Call
  <2> QED BY <1>1, <1>3, <2>1 DEF TypeOK
<1>4. "reset" \in Results /\ call[t].res \in Results
  BY DEF Results, TypeOK, Call
<1> QED BY <1>2, <1>3, <1>4

\* The start of fastrpc_file_free preserves the invariant: nobody else is in the
\* file.
LEMMA StepFileFreeStart ==
  ASSUME IInv, NEW t \in Threads, NEW f \in Files, FileFreeStart(t, f)
  PROVE  IInv'
<1> USE DEF IInv, Struct, FileFreeStart, Goto, ctxVars, chanVars, dspVars
<1>0. pc[t] = "idle" /\ cur[t] = Nil /\ f \in open /\ \A u \in Threads : pc[u] # "idle" => call[u].fl # f
  BY DEF ContextAccounted, Holding, Busy
<1>1. PICK sc \in Scs : call' = [call EXCEPT ![t] =
        [fl |-> f, kind |-> "release", sc |-> sc, ser |-> calls + 1, res |-> "none"]]
  OBVIOUS
<1>2. PICK l \in {"alloc", "unhook"} : pc' = [pc EXCEPT ![t] = l]
  OBVIOUS
<1>3. /\ \A u \in Threads : pc'[u] = IF u = t THEN l ELSE pc[u]
      /\ \A u \in Threads : u # t => call'[u] = call[u]
      /\ call'[t].fl = f /\ call'[t].kind = "release"
      /\ call' \in [Threads -> Call]
  BY <1>1, <1>2 DEF TypeOK, Call, Kinds, Results
<1>4. TypeOK'
  BY <1>2, <1>3 DEF TypeOK, PCs
<1>5. ContextAccounted' /\ PendingExact' /\ TableExact' /\ OneSavedCall'
  BY <1>0, <1>3 DEF ContextAccounted, PendingExact, TableExact, OneSavedCall, Holding
<1>6. CloserAlone' /\ Phases'
  BY <1>0, <1>3 DEF CloserAlone, Phases
<1>7. HeldIsOwn' /\ SlotAssigned' /\ FreshSlot' /\ WaiterIsUser'
  BY <1>3 DEF HeldIsOwn, SlotAssigned, FreshSlot, WaiterIsUser, Holding
<1>8. SavedOK'
  BY <1>0, <1>3 DEF SavedOK, Holding
<1> QED BY <1>4, <1>5, <1>6, <1>7, <1>8

\* Unlinking the file preserves the invariant.
LEMMA StepFileUnhook ==
  ASSUME IInv, NEW t \in Threads, FileUnhook(t)
  PROVE  IInv'
<1> USE DEF IInv, Struct, FileUnhook, Goto, ctxVars, dspVars
<1>0. pc[t] = "unhook" /\ call[t].kind = "release" /\ cur[t] = Nil
  BY DEF Phases, ContextAccounted, Holding
<1>1. \A u \in Threads : pc'[u] = IF u = t THEN "dtor" ELSE pc[u]
  BY DEF TypeOK
<1>2. TypeOK'
  BY DEF TypeOK, PCs
<1>3. ContextAccounted' /\ PendingExact' /\ TableExact' /\ OneSavedCall'
  BY <1>0, <1>1 DEF ContextAccounted, PendingExact, TableExact, OneSavedCall, Holding
<1>4. CloserAlone' /\ Phases'
  BY <1>0, <1>1 DEF CloserAlone, Phases
<1>5. HeldIsOwn' /\ SlotAssigned' /\ FreshSlot' /\ WaiterIsUser'
  BY <1>1 DEF HeldIsOwn, SlotAssigned, FreshSlot, WaiterIsUser, Holding
<1>6. SavedOK'
  BY <1>0, <1>1 DEF SavedOK, Holding
<1> QED BY <1>2, <1>3, <1>4, <1>5, <1>6

\* fastrpc_context_list_dtor preserves the invariant: what it frees is saved, never
\* held, and when it ends nothing of the file is left.
LEMMA StepFileDtor ==
  ASSUME IInv, NEW t \in Threads, FileDtor(t)
  PROVE  IInv'
<1> USE DEF IInv, Struct, FileDtor, Goto, dspVars
<1> DEFINE f == call[t].fl
<1>0. /\ pc[t] = "dtor" /\ call[t].kind = "release" /\ cur[t] = Nil /\ f \notin open
      /\ f \in Files
      /\ \A u \in Threads : u # t /\ pc[u] # "idle" => call[u].fl # f
  BY DEF Phases, ContextAccounted, Holding, CloserAlone, TypeOK, Call
<1>1. \A c \in pending : ctx[c].fl # f
  BY <1>0 DEF PendingExact, HeldIsOwn, Holding
<1>2. ASSUME NEW c \in interrupted, ctx[c].fl = f,
             interrupted' = interrupted \ {c}, pending' = pending \ {c},
             cur' = [cur EXCEPT ![t] = c], pc' = [pc EXCEPT ![t] = "clear"],
             UNCHANGED <<call, chan>>
      PROVE  IInv'
  <2>1. /\ \A u \in Threads : pc'[u] = IF u = t THEN "clear" ELSE pc[u]
        /\ \A u \in Threads : cur'[u] = IF u = t THEN c ELSE cur[u]
        /\ c \in Ctxs /\ c # Nil /\ \A u \in Threads : cur[u] # c
    BY <1>2, ConstantsOK DEF TypeOK, ContextAccounted
  <2>2. TypeOK'
    BY <1>2, <2>1 DEF TypeOK, PCs
  <2>3. ContextAccounted'
    <3>1. alloced' = ({cur'[u] : u \in Threads} \ {Nil}) \cup interrupted'
      BY <1>0, <1>2, <2>1 DEF ContextAccounted
    <3> QED BY <1>0, <1>2, <2>1, <3>1 DEF ContextAccounted, Holding
  <2>4. PendingExact'
    <3>1. pending' = pending
      BY <1>1, <1>2
    <3> QED BY <1>0, <2>1, <3>1 DEF PendingExact, Holding
  <2>5. TableExact' /\ OneSavedCall'
    BY <1>2 DEF TableExact, OneSavedCall
  <2>6. CloserAlone' /\ Phases'
    BY <1>0, <1>2, <2>1 DEF CloserAlone, Phases
  <2>7. HeldIsOwn' /\ SlotAssigned' /\ FreshSlot' /\ WaiterIsUser'
    BY <1>2, <2>1 DEF HeldIsOwn, SlotAssigned, FreshSlot, WaiterIsUser, Holding
  <2>8. SavedOK'
    BY <1>0, <1>2, <2>1 DEF SavedOK, Holding
  <2> QED BY <2>2, <2>3, <2>4, <2>5, <2>6, <2>7, <2>8
<1>3. ASSUME \A c \in interrupted : ctx[c].fl # f,
             chan' \in [Cids -> BOOLEAN],
             pc' = [pc EXCEPT ![t] = "idle"], call' = [call EXCEPT ![t] = NoCall],
             UNCHANGED <<cur, pending, interrupted>>
      PROVE  IInv'
  <2>1. /\ \A u \in Threads : pc'[u] = IF u = t THEN "idle" ELSE pc[u]
        /\ \A u \in Threads : u # t => call'[u] = call[u]
        /\ call' \in [Threads -> Call]
    BY <1>3, FreedType DEF TypeOK
  <2>2. TypeOK'
    BY <1>3, <2>1 DEF TypeOK, PCs
  <2>3. ContextAccounted' /\ PendingExact' /\ TableExact' /\ OneSavedCall'
    BY <1>0, <1>3, <2>1 DEF ContextAccounted, PendingExact, TableExact, OneSavedCall, Holding
  <2>4. CloserAlone' /\ Phases'
    BY <1>0, <2>1 DEF CloserAlone, Phases
  <2>5. HeldIsOwn' /\ SlotAssigned' /\ FreshSlot' /\ WaiterIsUser'
    BY <1>3, <2>1 DEF HeldIsOwn, SlotAssigned, FreshSlot, WaiterIsUser, Holding
  <2>6. SavedOK'
    BY <1>0, <1>3, <2>1 DEF SavedOK, Holding
  <2> QED BY <2>2, <2>3, <2>4, <2>5, <2>6
<1>4. FileCid[f] \in Cids
  BY <1>0, ConstantsOK
<1>5. chan \in [Cids -> BOOLEAN] /\ [chan EXCEPT ![FileCid[f]] = FALSE] \in [Cids -> BOOLEAN]
  BY <1>4 DEF TypeOK
<1> QED BY <1>1, <1>2, <1>3, <1>5

-----------------------------------------------------------------------------
(* The theorems *)

\* The invariant holds when the driver is loaded.
LEMMA InitIInv == Init => IInv
<1> SUFFICES ASSUME Init PROVE IInv
  OBVIOUS
<1>1. TypeOK
  BY FreedType, ConstantsOK DEF Init, TypeOK, PCs
<1>2. Struct
  BY ConstantsOK DEF Init, Struct, ContextAccounted, PendingExact, TableExact, OneSavedCall,
     CloserAlone, HeldIsOwn, Phases, SlotAssigned, FreshSlot, WaiterIsUser, SavedOK, Holding
<1> QED BY <1>1, <1>2 DEF IInv

\* Every step of the system preserves the invariant.
LEMMA NextIInv == IInv /\ [Next]_vars => IInv'
<1> SUFFICES ASSUME IInv, [Next]_vars PROVE IInv'
  OBVIOUS
<1>1. CASE \E f \in Files : DeviceOpen(f) \/ ChannelOpen(f)
  BY <1>1, StepDeviceOpen, StepChannelOpen
<1>2. CASE \E t \in Threads, f \in Files, k \in {"user", "kernel"}, sc \in Scs :
             InvokeStart(t, f, k, sc)
  BY <1>2, StepInvokeStart
<1>3. CASE \E t \in Threads, f \in Files : FileFreeStart(t, f)
  BY <1>3, StepFileFreeStart
<1>4. CASE \E t \in Threads : ThreadStep(t) \/ WaitInterrupted(t)
  BY <1>4, StepContextAlloc, StepContextSlot, StepInvokeSend, StepGlinkTx, StepWaitDone,
     StepPutArgs, StepInvokeReturn, StepContextSaveInterrupted, StepContextUnlink,
     StepContextFree, StepFileUnhook, StepFileDtor, StepWaitInterrupted DEF ThreadStep
<1>5. CASE \E r \in rsp : RxCheck(r)
  BY <1>5, StepRxCheck
<1>6. CASE \E x \in rx : RxNotify(x)
  BY <1>6, StepRxNotify
<1>7. CASE \E d \in Cids : SsrShutdown(d) \/ NotifyDrivers(d) \/ SsrPowerup(d)
  BY <1>7, StepSsrShutdown, StepNotifyDrivers, StepSsrPowerup
<1>8. CASE PdrDown \/ NotifyPdrDrivers
  BY <1>8, StepPdrDown, StepNotifyPdrDrivers
<1>9. CASE \E m \in dsp : DspAnswer(m)
  BY <1>9, StepDspAnswer
<1>10. CASE \E d \in Cids : DspCrash(d)
  BY <1>10, StepDspCrash
<1>11. CASE UNCHANGED vars
  <2>1. TypeOK'
    BY <1>11 DEF IInv, TypeOK, vars, threadVars, ctxVars, chanVars, dspVars
  <2>2. Struct'
    BY <1>11, Stay DEF SameIds, SameCalls, SameLists, vars, threadVars, ctxVars, chanVars
  <2> QED BY <2>1, <2>2 DEF IInv
<1> QED
  BY <1>1, <1>2, <1>3, <1>4, <1>5, <1>6, <1>7, <1>8, <1>9, <1>10, <1>11 DEF Next

\* The inductive invariant holds in every behaviour.
THEOREM Inductive == Spec => []IInv
BY InitIInv, NextIInv, PTL DEF Spec

\* Every variable of the driver keeps its type: no step stores an entry outside the
\* table, a context that does not exist or a completion count below zero.
THEOREM TypeCorrect == Spec => []TypeOK
<1>1. IInv => TypeOK
  BY DEF IInv
<1> QED BY <1>1, Inductive, PTL

\* No context is leaked, held by two threads or freed twice: it is always held by
\* exactly one thread or saved on the interrupted list.
THEOREM ContextsAccounted == Spec => []ContextAccounted
<1>1. IInv => ContextAccounted
  BY DEF IInv, Struct
<1> QED BY <1>1, Inductive, PTL

\* The pending list is exact: the notifiers find every context that is waited for.
THEOREM PendingIsExact == Spec => []PendingExact
<1>1. IInv => PendingExact
  BY DEF IInv, Struct
<1> QED BY <1>1, Inductive, PTL

\* The context table and the allocated contexts agree in both directions, for every
\* size of the table: ids of live contexts are distinct, no entry dangles.
THEOREM TableIsExact == Spec => []TableExact
<1>1. IInv => TableExact
  BY DEF IInv, Struct
<1> QED BY <1>1, Inductive, PTL

\* A thread has at most one interrupted call on a file, so the search by pid in
\* context_restore_interrupted is unambiguous.
THEOREM SavedCallIsUnique == Spec => []OneSavedCall
<1>1. IInv => OneSavedCall
  BY DEF IInv, Struct
<1> QED BY <1>1, Inductive, PTL

\* The file of a context is open, or some thread is in the driver on its behalf.
LEMMA NothingLeft ==
  ASSUME IInv
  PROVE  ClosedFileClean
<1>1. ASSUME NEW c \in interrupted
      PROVE  ctx[c].fl \in open \/ Busy(ctx[c].fl)
  BY <1>1 DEF IInv, Struct, SavedOK, Busy
<1>2. ASSUME NEW t \in Threads, cur[t] # Nil
      PROVE  Busy(ctx[cur[t]].fl)
  BY <1>2 DEF IInv, Struct, ContextAccounted, HeldIsOwn, Busy, Holding
<1> QED BY <1>1, <1>2 DEF IInv, Struct, ContextAccounted, ClosedFileClean

\* A closed file leaves no context behind.
THEOREM CloseIsClean == Spec => []ClosedFileClean
BY NothingLeft, Inductive, PTL

-----------------------------------------------------------------------------
(* Calls and their answers *)

\* What the DSP, the channel and the receive callback hold.
Messages == dsp \cup {r.msg : r \in rsp} \cup {x.msg : x \in rx}

\* A serial number stands for one call: that of a context, or of a thread that is about
\* to allocate one, has not been given to another, and no message carries it before the
\* context exists.
Serials ==
  /\ \A c \in alloced : ctx[c].ser <= calls
  /\ \A m \in Messages : m.ser <= calls
  /\ \A c, d \in alloced : ctx[c].ser = ctx[d].ser => c = d
  /\ \A t \in Threads : pc[t] = "alloc" =>
       /\ call[t].ser <= calls
       /\ \A c \in alloced : ctx[c].ser # call[t].ser
       /\ \A m \in Messages : m.ser # call[t].ser
       /\ \A u \in Threads : pc[u] = "alloc" /\ call[u].ser = call[t].ser => u = t

\* A message names the context of its call, as long as that exists.
MessagesMatch ==
  \A m \in Messages :
    /\ m.cid = FileCid[m.fl]
    /\ \A c \in alloced : ctx[c].ser = m.ser =>
         /\ ctx[c].slot = m.slot /\ CtxPage[c] = m.page
         /\ ctx[c].fl = m.fl /\ ctx[c].kind = m.kind

\* msg.pid tells user calls from kernel calls once the message is about to be sent.
Sent == {cur[t] : t \in {u \in Threads : pc[u] \in {"tx", "wait", "save"}}} \cup interrupted
SentPid == \A c \in Sent : ctx[c].mpid = (ctx[c].kind = "user")

\* There is no channel to a DSP that is down, and once its restart notifier has run,
\* every caller has been woken.
DownClosed == \A d \in Cids : ~up[d] => ~chan[d]
DownWoken ==
  \A c \in Awaited : LET d == FileCid[ctx[c].fl] IN
    ~up[d] /\ d \notin notify => ctx[c].done > 0

\* The release of a process is the last message of its file: what was sent before it is
\* about to be freed, and what comes after is younger.
ReleaseLast ==
  \A m \in dsp : m.kind = "release" =>
    /\ \A c \in alloced : ctx[c].fl = m.fl /\ ctx[c].ser < m.ser =>
         /\ Closing(m.fl)
         /\ \A t \in Threads : cur[t] = c => pc[t] = "clear"
    /\ \A t \in Threads : pc[t] = "alloc" /\ call[t].fl = m.fl => call[t].ser > m.ser

\* Until a context is freed with its answer outstanding, every message has its context,
\* and the receive callback holds the right one.
Answered ==
  ~abandoned =>
    /\ \A m \in Messages : \E c \in alloced : ctx[c].ser = m.ser
    /\ \A x \in rx : x.c \in alloced /\ ctx[x.c].ser = x.msg.ser

\* The part of the inductive invariant that is about calls and messages.
Calls ==
  /\ Serials /\ MessagesMatch /\ SentPid /\ DownClosed /\ DownWoken /\ ReleaseLast
  /\ NoLostCall /\ Answered /\ OwnAnswerUnlessAbandoned

\* A context that is awaited or sent is allocated, and its file has not been unlinked.
LEMMA AwaitedHeld ==
  ASSUME IInv
  PROVE  /\ Awaited \subseteq Sent /\ Sent \subseteq alloced
         /\ \A c \in Awaited : /\ ctx[c].fl \in open /\ c \in pending \cup interrupted
                               /\ ctx[c].slot \in Slots
<1> USE DEF IInv, Struct
<1>1. Awaited \subseteq Sent
  BY DEF Awaited, Sent
<1>2. Sent \subseteq alloced
  BY Held DEF Sent, Holding, ContextAccounted
<1>3. ASSUME NEW t \in Threads, pc[t] \in {"wait", "save"}
      PROVE  /\ ctx[cur[t]].fl \in open /\ cur[t] \in pending
             /\ ctx[cur[t]].slot # NoSlot
  <2>1. pc[t] \in Holding \ {"clear"} /\ pc[t] \notin {"idle", "dtor", "clear"}
    BY <1>3 DEF Holding
  <2> QED BY <1>3, <2>1 DEF Phases, HeldIsOwn, PendingExact, SlotAssigned
<1>4. ASSUME NEW c \in interrupted, ~Closing(ctx[c].fl)
      PROVE  ctx[c].fl \in open /\ ctx[c].slot # NoSlot
  BY <1>4 DEF SavedOK, Closing
<1>5. \A c \in Awaited : /\ ctx[c].fl \in open /\ c \in pending \cup interrupted
                         /\ ctx[c].slot # NoSlot
  BY <1>3, <1>4 DEF Awaited
<1>6. \A c \in alloced : ctx[c].slot # NoSlot => ctx[c].slot \in Slots
  BY DEF TypeOK, Ctx
<1> QED BY <1>1, <1>2, <1>5, <1>6

\* What is known of a message in flight.
LEMMA MessageType ==
  ASSUME IInv
  PROVE  \A m \in Messages : /\ m \in Msg /\ m.ser \in Nat /\ m.fl \in Files
                             /\ m.slot \in Slots /\ m.slot # NoSlot
<1>1. \A m \in Messages : m \in Msg
  BY DEF Messages, IInv, TypeOK, Rsp, Rx
<1> QED BY <1>1, ConstantsOK DEF Msg, Slots, NoSlot

\* A step of a thread that sends nothing: contexts may be freed, serial numbers handed
\* out, callers stop waiting; no caller starts to wait and nothing in flight changes.
LEMMA Quiet ==
  ASSUME IInv, IInv', Calls, alloced' \subseteq alloced, calls' >= calls,
         UNCHANGED <<dspVars, up, notify, pdr>>,
         \A c \in alloced' : /\ ctx'[c].fl = ctx[c].fl /\ ctx'[c].kind = ctx[c].kind
                             /\ ctx'[c].slot = ctx[c].slot \/ ctx[c].slot = NoSlot
                             /\ ctx'[c].ser = ctx[c].ser /\ ctx'[c].by = ctx[c].by,
         \A d \in Cids : chan'[d] => chan[d] \/ up[d],
         \A t \in Threads : pc'[t] = "alloc" =>
           \/ pc[t] = "alloc" /\ call'[t].ser = call[t].ser /\ call'[t].fl = call[t].fl
           \/ /\ calls' = calls + 1 /\ call'[t].ser = calls'
              /\ \A u \in Threads : u # t => pc'[u] = pc[u] /\ call'[u] = call[u],
         Awaited' \subseteq Awaited,
         \A c \in Awaited' : ctx'[c].done >= ctx[c].done,
         SentPid',
         \A f \in Files : Closing(f) /\ (\E c \in alloced' : ctx[c].fl = f) => Closing(f)',
         \A t \in Threads, c \in alloced' :
           cur'[t] = c /\ pc'[t] # "clear" =>
             (cur[t] = c /\ pc[t] # "clear") \/ ~Closing(ctx[c].fl),
         ~abandoned' => ~abandoned /\ \A m \in Messages, c \in alloced \ alloced' :
                                        ctx[c].ser # m.ser
  PROVE  Calls'
<1>0. /\ UNCHANGED <<dsp, rsp, rx, alive, fault, up, notify, pdr>>
      /\ Messages' = Messages
  BY DEF dspVars, Messages
<1>1. /\ \A c \in Ctxs : ctx[c].ser \in Nat /\ ctx[c].done \in Nat /\ ctx'[c].done \in Nat
      /\ alloced \subseteq Ctxs /\ calls \in Nat /\ calls' \in Nat
      /\ \A t \in Threads : call[t].ser \in Nat
  BY DEF IInv, TypeOK, Ctx, Call
<1>2. \A m \in Messages : m.ser \in Nat /\ m.fl \in Files /\ m.slot # NoSlot
  BY MessageType
<1>3. Awaited' \subseteq alloced' /\ Awaited \subseteq alloced
  BY AwaitedHeld DEF IInv, Struct, ContextAccounted, Awaited, Holding
<1>4. Serials'
  <2>1. /\ \A c \in alloced' : ctx'[c].ser <= calls'
        /\ \A m \in Messages' : m.ser <= calls'
        /\ \A c, d \in alloced' : ctx'[c].ser = ctx'[d].ser => c = d
    BY <1>0, <1>1, <1>2 DEF Calls, Serials
  <2>2. ASSUME NEW t \in Threads, pc'[t] = "alloc",
               pc[t] = "alloc" /\ call'[t].ser = call[t].ser
        PROVE  /\ call'[t].ser <= calls'
               /\ \A c \in alloced' : ctx'[c].ser # call'[t].ser
               /\ \A m \in Messages' : m.ser # call'[t].ser
               /\ \A u \in Threads : pc'[u] = "alloc" /\ call'[u].ser = call'[t].ser => u = t
    BY <1>0, <1>1, <1>2, <2>2 DEF Calls, Serials
  <2>3. ASSUME NEW t \in Threads, pc'[t] = "alloc",
               calls' = calls + 1, call'[t].ser = calls',
               \A u \in Threads : u # t => pc'[u] = pc[u] /\ call'[u] = call[u]
        PROVE  /\ call'[t].ser <= calls'
               /\ \A c \in alloced' : ctx'[c].ser # call'[t].ser
               /\ \A m \in Messages' : m.ser # call'[t].ser
               /\ \A u \in Threads : pc'[u] = "alloc" /\ call'[u].ser = call'[t].ser => u = t
    BY <1>0, <1>1, <1>2, <2>3 DEF Calls, Serials
  <2> QED BY <2>1, <2>2, <2>3 DEF Serials
<1>5. MessagesMatch'
  BY <1>0, <1>2 DEF Calls, MessagesMatch
<1>6. DownClosed'
  BY <1>0 DEF Calls, DownClosed
<1>7. DownWoken'
  <2>1. ASSUME NEW c \in Awaited', ~up[FileCid[ctx[c].fl]], FileCid[ctx[c].fl] \notin notify
        PROVE  ctx'[c].done > 0
    <3>1. ctx[c].done > 0 /\ c \in Ctxs
      BY <1>1, <1>3, <2>1 DEF Calls, DownWoken
    <3> QED BY <1>1, <3>1
  <2> QED BY <1>0, <1>3, <2>1 DEF DownWoken
<1>8. ReleaseLast'
  <2>1. ASSUME NEW m \in dsp, m.kind = "release"
        PROVE  /\ \A c \in alloced' : ctx'[c].fl = m.fl /\ ctx'[c].ser < m.ser =>
                    /\ Closing(m.fl)'
                    /\ \A t \in Threads : cur'[t] = c => pc'[t] = "clear"
               /\ \A t \in Threads : pc'[t] = "alloc" /\ call'[t].fl = m.fl =>
                    call'[t].ser > m.ser
    <3>1. m \in Messages /\ m.fl \in Files /\ m.ser \in Nat /\ m.ser <= calls
      BY <1>2 DEF Messages, Calls, Serials
    <3>2. \A c \in alloced' : ctx'[c].fl = m.fl /\ ctx'[c].ser < m.ser =>
            /\ Closing(m.fl)
            /\ \A t \in Threads : cur[t] = c => pc[t] = "clear"
            /\ ctx[c].fl = m.fl
      BY <2>1 DEF Calls, ReleaseLast
    <3>3. \A t \in Threads : pc'[t] = "alloc" /\ call'[t].fl = m.fl => call'[t].ser > m.ser
      BY <1>1, <2>1, <3>1 DEF Calls, ReleaseLast
    <3> QED BY <3>1, <3>2, <3>3
  <2> QED BY <1>0, <2>1 DEF ReleaseLast
<1>9. NoLostCall'
  <2>1. ASSUME NEW c \in Awaited' PROVE WillComplete(c)'
    <3>1. WillComplete(c) /\ c \in Ctxs /\ c \in alloced'
      BY <1>1, <1>3 DEF Calls, NoLostCall
    <3>2. ctx[c].done > 0 => ctx'[c].done > 0
      BY <1>1, <3>1
    <3> QED BY <1>0, <3>1, <3>2 DEF WillComplete
  <2> QED BY <2>1 DEF NoLostCall
<1>10. Answered'
  <2>1. \A x \in rx : x.msg \in Messages
    BY DEF Messages
  <2> QED BY <1>0, <2>1 DEF Calls, Answered
<1>11. OwnAnswerUnlessAbandoned'
  BY <1>0 DEF Calls, OwnAnswerUnlessAbandoned, OwnAnswer
<1> QED BY <1>4, <1>5, <1>6, <1>7, <1>8, <1>9, <1>10, <1>11 DEF Calls

-----------------------------------------------------------------------------
(* The steps of a thread that sends nothing *)

\* Opening the device node leaves every call as it is.
LEMMA CallsDeviceOpen ==
  ASSUME IInv, IInv', Calls, NEW f \in Files, DeviceOpen(f)
  PROVE  Calls'
<1> USE DEF DeviceOpen, threadVars, ctxVars
<1>1. /\ calls \in Nat /\ \A c \in Ctxs : ctx[c].done \in Nat
      /\ alloced \subseteq Ctxs /\ Awaited \subseteq alloced
  BY AwaitedHeld DEF IInv, TypeOK, Ctx
<1>2. Awaited' = Awaited /\ SentPid'
  BY DEF Awaited, Closing, Calls, SentPid, Sent
<1>3. \A g \in Files : Closing(g)' <=> Closing(g)
  BY DEF Closing
<1> QED BY <1>1, <1>2, <1>3, Quiet

\* Joining the channel is refused while the DSP is down.
LEMMA CallsChannelOpen ==
  ASSUME IInv, IInv', Calls, NEW f \in Files, ChannelOpen(f)
  PROVE  Calls'
<1> USE DEF ChannelOpen, threadVars, ctxVars
<1>1. /\ calls \in Nat /\ \A c \in Ctxs : ctx[c].done \in Nat
      /\ alloced \subseteq Ctxs /\ Awaited \subseteq alloced
  BY AwaitedHeld DEF IInv, TypeOK, Ctx
<1>2. Awaited' = Awaited /\ SentPid'
  BY DEF Awaited, Closing, Calls, SentPid, Sent
<1>3. \A g \in Files : Closing(g)' <=> Closing(g)
  BY DEF Closing
<1>4. \A d \in Cids : chan'[d] => chan[d] \/ up[d]
  BY ConstantsOK DEF IInv, TypeOK
<1> QED BY <1>1, <1>2, <1>3, <1>4, Quiet

\* A thread moves on with its own context, or without one, and does not start to wait.
Moves(t, l) ==
  /\ pc' = [pc EXCEPT ![t] = l]
  /\ l \notin {"idle", "alloc", "tx", "wait"} /\ pc[t] \notin {"idle", "clear"}
  /\ l = "save" => pc[t] = "wait"
  /\ UNCHANGED <<cur, alloced, interrupted, abandoned, up, chan, notify, pdr, dspVars, calls>>
  /\ \A u \in Threads : /\ call'[u].fl = call[u].fl /\ call'[u].kind = call[u].kind
                        /\ call'[u].ser = call[u].ser
  /\ \A c \in Ctxs : /\ ctx'[c].fl = ctx[c].fl /\ ctx'[c].kind = ctx[c].kind
                     /\ ctx'[c].slot = ctx[c].slot \/ ctx[c].slot = NoSlot
                     /\ ctx'[c].ser = ctx[c].ser /\ ctx'[c].by = ctx[c].by
                     /\ ctx'[c].mpid = ctx[c].mpid \/ (c = cur[t] /\ l = "free")
                     /\ ctx'[c].done = ctx[c].done \/ (c = cur[t] /\ l = "woken")

\* Such a move keeps the invariant.
LEMMA QuietMove ==
  ASSUME IInv, IInv', Calls, NEW t \in Threads, NEW l, Moves(t, l)
  PROVE  Calls'
<1> USE DEF Moves
<1>1. \A u \in Threads : pc'[u] = IF u = t THEN l ELSE pc[u]
  BY DEF IInv, TypeOK
<1>2. /\ calls \in Nat /\ \A c \in Ctxs : ctx[c].done \in Nat
      /\ alloced \subseteq Ctxs /\ Awaited \subseteq alloced /\ Sent \subseteq alloced
      /\ \A u \in Threads : u # t /\ cur[u] = cur[t] => cur[t] = Nil
      /\ cur[t] \notin interrupted
  BY AwaitedHeld DEF IInv, Struct, ContextAccounted, TypeOK, Ctx
<1>3. \A g \in Files : Closing(g)' <=> Closing(g)
  BY <1>1 DEF Closing
<1>4. \A c \in interrupted : ctx'[c].fl = ctx[c].fl /\ ctx[c].fl \in Files
  BY DEF IInv, TypeOK, Ctx
<1>5. Awaited' \subseteq Awaited
  BY <1>1, <1>3, <1>4 DEF Awaited
<1>6. Sent' \subseteq Sent
  BY <1>1 DEF Sent
<1>7. SentPid'
  <2>1. \A c \in Sent' : c = cur[t] => l # "free"
    BY <1>1, <1>2, Held, ConstantsOK DEF Sent, Holding, IInv, TypeOK
  <2> QED BY <1>2, <1>6, <2>1 DEF Calls, SentPid
<1>8. \A c \in Awaited' : c = cur[t] => l # "woken"
  BY <1>1, <1>2, Held, ConstantsOK DEF Awaited, Holding, IInv, TypeOK
<1>9. \A c \in Awaited' : ctx'[c].done >= ctx[c].done
  BY <1>2, <1>5, <1>8
<1> QED BY <1>1, <1>2, <1>3, <1>5, <1>7, <1>9, Quiet

\* Setting the outcome of a call leaves its serial number alone.
LEMMA CallSerial ==
  ASSUME call \in [Threads -> Call], NEW t \in Threads, NEW v,
         call' = [call EXCEPT ![t].res = v]
  PROVE  \A u \in Threads : /\ call'[u].fl = call[u].fl /\ call'[u].kind = call[u].kind
                            /\ call'[u].ser = call[u].ser
BY DEF Call

\* Taking a table entry: a context without one has no message in flight.
LEMMA CallsContextSlot ==
  ASSUME IInv, IInv', Calls, NEW t \in Threads, ContextSlot(t)
  PROVE  Calls'
<1> USE DEF ContextSlot, Goto, Fail, chanVars, dspVars
<1>1. pc[t] = "slot" /\ cur[t] \in Ctxs /\ ctx[cur[t]].slot = NoSlot
  BY Held DEF Holding, IInv, Struct, FreshSlot
<1>2. \A u \in Threads : /\ call'[u].fl = call[u].fl /\ call'[u].kind = call[u].kind
                         /\ call'[u].ser = call[u].ser
  BY CallSerial DEF IInv, TypeOK
<1>3. \A c \in Ctxs : /\ ctx'[c].fl = ctx[c].fl /\ ctx'[c].kind = ctx[c].kind
                      /\ ctx'[c].slot = ctx[c].slot \/ ctx[c].slot = NoSlot
                      /\ ctx'[c].ser = ctx[c].ser /\ ctx'[c].by = ctx[c].by
                      /\ ctx'[c].mpid = ctx[c].mpid /\ ctx'[c].done = ctx[c].done
  <2>1. CASE UNCHANGED ctx
    BY <2>1
  <2>2. ASSUME NEW s \in Slots, ctx' = [ctx EXCEPT ![cur[t]].slot = s]
        PROVE  \A c \in Ctxs :
                 /\ ctx'[c].fl = ctx[c].fl /\ ctx'[c].kind = ctx[c].kind
                 /\ ctx'[c].slot = ctx[c].slot \/ ctx[c].slot = NoSlot
                 /\ ctx'[c].ser = ctx[c].ser /\ ctx'[c].by = ctx[c].by
                 /\ ctx'[c].mpid = ctx[c].mpid /\ ctx'[c].done = ctx[c].done
    BY <1>1, <2>2 DEF IInv, TypeOK, Ctx
  <2>3. UNCHANGED ctx \/ \E s \in Slots : ctx' = [ctx EXCEPT ![cur[t]].slot = s]
    OBVIOUS
  <2> QED BY <2>1, <2>2, <2>3
<1>4. PICK l \in {"send", "free"} : pc' = [pc EXCEPT ![t] = l]
  OBVIOUS
<1>5. Moves(t, l)
  BY <1>1, <1>2, <1>3, <1>4 DEF Moves
<1> QED BY <1>5, QuietMove

\* wait_for_completion returns: the context is no longer waited for.
LEMMA CallsWaitDone ==
  ASSUME IInv, IInv', Calls, NEW t \in Threads, WaitDone(t)
  PROVE  Calls'
<1> USE DEF WaitDone, Goto, chanVars, dspVars
<1>1. pc[t] = "wait" /\ cur[t] \in Ctxs
  BY Held DEF Holding
<1>2. \A c \in Ctxs : /\ ctx'[c].fl = ctx[c].fl /\ ctx'[c].kind = ctx[c].kind
                      /\ ctx'[c].slot = ctx[c].slot
                      /\ ctx'[c].ser = ctx[c].ser /\ ctx'[c].by = ctx[c].by
                      /\ ctx'[c].mpid = ctx[c].mpid
                      /\ c # cur[t] => ctx'[c].done = ctx[c].done
  BY <1>1 DEF IInv, TypeOK, Ctx
<1>3. Moves(t, "woken")
  BY <1>1, <1>2 DEF Moves
<1> QED BY <1>3, QuietMove

\* A signal ends the wait: the call is still awaited.
LEMMA CallsWaitInterrupted ==
  ASSUME IInv, IInv', Calls, NEW t \in Threads, WaitInterrupted(t)
  PROVE  Calls'
<1>1. Moves(t, "save")
  BY DEF WaitInterrupted, Goto, ctxVars, chanVars, Moves
<1> QED BY <1>1, QuietMove

\* The check of the answer.
LEMMA CallsPutArgs ==
  ASSUME IInv, IInv', Calls, NEW t \in Threads, PutArgs(t)
  PROVE  Calls'
<1> USE DEF PutArgs, Goto, Fail, ctxVars, chanVars
<1>1. \A u \in Threads : /\ call'[u].fl = call[u].fl /\ call'[u].kind = call[u].kind
                         /\ call'[u].ser = call[u].ser
  BY CallSerial DEF IInv, TypeOK
<1>2. Moves(t, "free")
  BY <1>1 DEF Moves
<1> QED BY <1>2, QuietMove

\* Unlinking a context that is about to be freed.
LEMMA CallsContextUnlink ==
  ASSUME IInv, IInv', Calls, NEW t \in Threads, ContextUnlink(t)
  PROVE  Calls'
<1>1. Moves(t, "clear")
  BY DEF ContextUnlink, Goto, chanVars, Moves
<1> QED BY <1>1, QuietMove

\* Unlinking the file.
LEMMA CallsFileUnhook ==
  ASSUME IInv, IInv', Calls, NEW t \in Threads, FileUnhook(t)
  PROVE  Calls'
<1>1. Moves(t, "dtor")
  BY DEF FileUnhook, Goto, ctxVars, Moves
<1> QED BY <1>1, QuietMove

\* The checks before the message is sent: msg.pid is written before the message goes out.
LEMMA CallsInvokeSend ==
  ASSUME IInv, IInv', Calls, NEW t \in Threads, InvokeSend(t)
  PROVE  Calls'
<1> USE DEF InvokeSend, Goto, Fail, chanVars, dspVars
<1>1. pc[t] = "send" /\ cur[t] \in Ctxs /\ cur[t] \in alloced /\ cur[t] # Nil
      /\ ctx[cur[t]].kind = call[t].kind
  BY Held DEF Holding, IInv, Struct, HeldIsOwn
<1>2. \A u \in Threads : /\ call'[u].fl = call[u].fl /\ call'[u].kind = call[u].kind
                         /\ call'[u].ser = call[u].ser
  BY CallSerial DEF IInv, TypeOK
<1>3. \A c \in Ctxs : /\ ctx'[c].fl = ctx[c].fl /\ ctx'[c].kind = ctx[c].kind
                      /\ ctx'[c].slot = ctx[c].slot
                      /\ ctx'[c].ser = ctx[c].ser /\ ctx'[c].by = ctx[c].by
                      /\ c # cur[t] => ctx'[c].mpid = ctx[c].mpid
                      /\ ctx'[c].done = ctx[c].done
  BY <1>1 DEF IInv, TypeOK, Ctx
<1>4. CASE pc' = [pc EXCEPT ![t] = "free"]
  <2>1. Moves(t, "free")
    BY <1>1, <1>2, <1>3, <1>4 DEF Moves
  <2> QED BY <2>1, QuietMove
<1>5. CASE /\ pc' = [pc EXCEPT ![t] = "tx"] /\ UNCHANGED call
           /\ ctx' = [ctx EXCEPT ![cur[t]].mpid = (call[t].kind = "user")]
  <2>1. \A u \in Threads : pc'[u] = IF u = t THEN "tx" ELSE pc[u]
    BY <1>5 DEF IInv, TypeOK
  <2>2. /\ calls \in Nat /\ \A c \in Ctxs : ctx[c].done \in Nat
        /\ alloced \subseteq Ctxs /\ Awaited \subseteq alloced /\ Sent \subseteq alloced
    BY AwaitedHeld DEF IInv, TypeOK, Ctx
  <2>3. \A g \in Files : Closing(g)' <=> Closing(g)
    BY <1>2, <2>1 DEF Closing
  <2>4. \A c \in interrupted : ctx'[c].fl = ctx[c].fl /\ ctx[c].fl \in Files
    BY <1>3 DEF IInv, TypeOK, Ctx
  <2>5. Awaited' \subseteq Awaited
    BY <2>1, <2>3, <2>4 DEF Awaited
  <2>6. Sent' \subseteq Sent \cup {cur[t]}
    BY <2>1 DEF Sent
  <2>7. ctx'[cur[t]].mpid = (ctx'[cur[t]].kind = "user")
    BY <1>1, <1>3, <1>5 DEF IInv, TypeOK, Ctx
  <2>8. SentPid'
    BY <1>3, <2>2, <2>6, <2>7 DEF Calls, SentPid
  <2> QED BY <1>1, <1>2, <1>3, <1>5, <2>1, <2>2, <2>3, <2>5, <2>8, Quiet
<1> QED BY <1>4, <1>5

\* The interrupted call is saved: it stays awaited, now on the interrupted list.
LEMMA CallsContextSaveInterrupted ==
  ASSUME IInv, IInv', Calls, NEW t \in Threads, ContextSaveInterrupted(t)
  PROVE  Calls'
<1> USE DEF ContextSaveInterrupted, Goto, chanVars, dspVars
<1>1. pc[t] = "save" /\ cur[t] \in alloced /\ cur[t] # Nil /\ Nil \notin alloced
  BY Held, ConstantsOK DEF Holding, IInv, TypeOK
<1>2. /\ \A u \in Threads : pc'[u] = IF u = t THEN "ret" ELSE pc[u]
      /\ \A u \in Threads : cur'[u] = IF u = t THEN Nil ELSE cur[u]
      /\ interrupted' = interrupted \cup {cur[t]}
  BY DEF IInv, TypeOK
<1>3. \A u \in Threads : /\ call'[u].fl = call[u].fl /\ call'[u].kind = call[u].kind
                         /\ call'[u].ser = call[u].ser
  BY CallSerial DEF IInv, TypeOK
<1>4. /\ calls \in Nat /\ \A c \in Ctxs : ctx[c].done \in Nat
      /\ alloced \subseteq Ctxs /\ Awaited \subseteq alloced
  BY AwaitedHeld DEF IInv, TypeOK, Ctx
<1>5. \A g \in Files : Closing(g)' <=> Closing(g)
  BY <1>1, <1>2, <1>3 DEF Closing
<1>6. \A c \in interrupted : ctx[c].fl \in Files
  BY DEF IInv, TypeOK, Ctx
<1>7. Awaited' \subseteq Awaited /\ Sent' = Sent
  BY <1>1, <1>2, <1>5, <1>6 DEF Awaited, Sent
<1>8. SentPid'
  BY <1>7 DEF Calls, SentPid
<1>9. \A u \in Threads, c \in alloced' :
        cur'[u] = c /\ pc'[u] # "clear" => cur[u] = c /\ pc[u] # "clear"
  BY <1>1, <1>2
<1> QED BY <1>1, <1>2, <1>3, <1>4, <1>5, <1>7, <1>8, <1>9, Quiet

\* context_free: the history variable notes whether an answer was outstanding.
LEMMA CallsContextFree ==
  ASSUME IInv, IInv', Calls, NEW t \in Threads, ContextFree(t)
  PROVE  Calls'
<1> USE DEF ContextFree, Goto, chanVars, dspVars
<1>1. /\ pc[t] = "clear" /\ cur[t] \in alloced /\ cur[t] # Nil /\ Nil \notin alloced
      /\ cur[t] \notin interrupted
  BY Held, ConstantsOK DEF Holding, IInv, TypeOK
<1>2. PICK l \in {"ret", "dtor"} : pc' = [pc EXCEPT ![t] = l]
  OBVIOUS
<1>3. /\ \A u \in Threads : pc'[u] = IF u = t THEN l ELSE pc[u]
      /\ \A u \in Threads : cur'[u] = IF u = t THEN Nil ELSE cur[u]
      /\ \A u \in Threads : u # t => cur[u] # cur[t]
      /\ \A c \in Ctxs : c # cur[t] => ctx'[c] = ctx[c]
      /\ alloced' = alloced \ {cur[t]}
  BY <1>1, <1>2, Held DEF IInv, TypeOK, Holding
<1>4. /\ calls \in Nat /\ \A c \in Ctxs : ctx[c].done \in Nat
      /\ alloced \subseteq Ctxs /\ Awaited \subseteq alloced /\ Sent \subseteq alloced
  BY AwaitedHeld DEF IInv, TypeOK, Ctx
<1>5. \A g \in Files : Closing(g)' <=> Closing(g)
  BY <1>1, <1>2, <1>3 DEF Closing
<1>6. \A c \in interrupted : ctx[c].fl \in Files /\ c \in Ctxs /\ c # cur[t]
  BY <1>1 DEF IInv, TypeOK, Ctx
<1>7. /\ Awaited' \subseteq Awaited /\ cur[t] \notin Awaited'
      /\ Sent' \subseteq Sent /\ cur[t] \notin Sent'
  BY <1>1, <1>2, <1>3, <1>5, <1>6 DEF Awaited, Sent
<1>8. SentPid'
  BY <1>3, <1>4, <1>7 DEF Calls, SentPid
<1>9. /\ \A c \in Awaited' : ctx'[c] = ctx[c] /\ ctx[c].done \in Nat
      /\ \A c \in alloced' : ctx'[c] = ctx[c]
  BY <1>3, <1>4, <1>7
<1>10. ~abandoned' => ~abandoned /\ \A m \in Messages : ctx[cur[t]].ser # m.ser
  BY DEF Outstanding, Messages
<1>11. \A u \in Threads, c \in alloced' :
         cur'[u] = c /\ pc'[u] # "clear" => cur[u] = c /\ pc[u] # "clear"
  BY <1>1, <1>3
<1>12. alloced' \subseteq alloced /\ alloced \ alloced' \subseteq {cur[t]}
  BY <1>3
<1> QED BY <1>1, <1>2, <1>3, <1>4, <1>5, <1>7, <1>8, <1>9, <1>10, <1>11, <1>12, Quiet

\* The return of fastrpc_internal_invoke.
LEMMA CallsInvokeReturn ==
  ASSUME IInv, IInv', Calls, NEW t \in Threads, InvokeReturn(t)
  PROVE  Calls'
<1> USE DEF InvokeReturn, Goto, ctxVars, chanVars, dspVars
<1>1. pc[t] = "ret" /\ cur[t] = Nil /\ Nil \notin alloced
  BY ConstantsOK DEF Holding, IInv, Struct, ContextAccounted, TypeOK
<1>2. CASE call[t].kind = "release" /\ pc' = [pc EXCEPT ![t] = "unhook"] /\ UNCHANGED call
  <2>1. Moves(t, "unhook")
    BY <1>1, <1>2 DEF Moves
  <2> QED BY <2>1, QuietMove
<1>3. ASSUME call[t].kind # "release", pc' = [pc EXCEPT ![t] = "idle"],
             \A u \in Threads : u # t => call'[u] = call[u]
      PROVE  Calls'
  <2>1. \A u \in Threads : pc'[u] = IF u = t THEN "idle" ELSE pc[u]
    BY <1>3 DEF IInv, TypeOK
  <2>2. /\ calls \in Nat /\ \A c \in Ctxs : ctx[c].done \in Nat
        /\ alloced \subseteq Ctxs /\ Awaited \subseteq alloced
    BY AwaitedHeld DEF IInv, TypeOK, Ctx
  <2>3. \A g \in Files : Closing(g)' <=> Closing(g)
    BY <1>1, <1>3, <2>1 DEF Closing
  <2>4. \A c \in interrupted : ctx[c].fl \in Files
    BY DEF IInv, TypeOK, Ctx
  <2>5. Awaited' \subseteq Awaited /\ Sent' \subseteq Sent
    BY <1>1, <2>1, <2>3, <2>4 DEF Awaited, Sent
  <2>6. SentPid'
    BY <2>5 DEF Calls, SentPid
  <2> QED BY <1>1, <1>3, <2>1, <2>2, <2>3, <2>5, <2>6, Quiet
<1>4. call[t].kind # "release" => \A u \in Threads : u # t => call'[u] = call[u]
  BY DEF IInv, TypeOK
<1> QED BY <1>2, <1>3, <1>4

\* The start of a call: a resumed call was awaited before, a new one gets the next serial
\* number.
LEMMA CallsInvokeStart ==
  ASSUME IInv, IInv', Calls, NEW t \in Threads, NEW f \in Files,
         NEW k \in {"user", "kernel"}, NEW sc \in Scs, InvokeStart(t, f, k, sc)
  PROVE  Calls'
<1> USE DEF InvokeStart, Goto, chanVars, dspVars
<1>1. /\ pc[t] = "idle" /\ cur[t] = Nil /\ Nil \notin alloced /\ ~Closing(f)
      /\ calls' = calls + 1 /\ UNCHANGED <<abandoned, alloced, ctx, table, chanVars, dspVars>>
  BY ConstantsOK DEF Holding, IInv, Struct, ContextAccounted, TypeOK
<1>2. /\ calls \in Nat /\ calls' >= calls /\ \A c \in Ctxs : ctx[c].done \in Nat
      /\ alloced \subseteq Ctxs /\ Awaited \subseteq alloced
      /\ \A c \in interrupted : ctx[c].fl \in Files
  BY <1>1, AwaitedHeld DEF IInv, TypeOK, Ctx
<1>3. ASSUME NEW l \in {"wait", "ret", "alloc"}, pc' = [pc EXCEPT ![t] = l],
             NEW a \in Call, a.fl = f, a.kind = k, a.ser = calls + 1,
             call' = [call EXCEPT ![t] = a],
             \/ UNCHANGED <<interrupted, cur>> /\ l # "wait"
             \/ \E c \in interrupted : /\ ctx[c].fl = f
                                       /\ interrupted' = interrupted \ {c}
                                       /\ cur' = [cur EXCEPT ![t] = c]
                                       /\ l = "wait"
      PROVE  Calls'
  <2>1. /\ \A u \in Threads : pc'[u] = IF u = t THEN l ELSE pc[u]
        /\ \A u \in Threads : call'[u] = IF u = t THEN a ELSE call[u]
    BY <1>3 DEF IInv, TypeOK
  <2>2. \A g \in Files : Closing(g)' <=> Closing(g)
    BY <1>1, <1>3, <2>1 DEF Closing
  <2>3. \A u \in Threads : pc'[u] = "alloc" =>
          \/ pc[u] = "alloc" /\ call'[u].ser = call[u].ser /\ call'[u].fl = call[u].fl
          \/ /\ calls' = calls + 1 /\ call'[u].ser = calls'
             /\ \A v \in Threads : v # u => pc'[v] = pc[v] /\ call'[v] = call[v]
    BY <1>1, <1>3, <2>1
  <2>4. CASE UNCHANGED <<interrupted, cur>> /\ l # "wait"
    <3>1. Awaited' \subseteq Awaited /\ Sent' \subseteq Sent
      BY <1>1, <1>2, <1>3, <2>1, <2>2, <2>4 DEF Awaited, Sent
    <3>2. SentPid'
      BY <1>1, <3>1 DEF Calls, SentPid
    <3> QED BY <1>1, <1>2, <2>1, <2>2, <2>3, <2>4, <3>1, <3>2, Quiet
  <2>5. ASSUME NEW c \in interrupted, ctx[c].fl = f, interrupted' = interrupted \ {c},
               cur' = [cur EXCEPT ![t] = c], l = "wait"
        PROVE  Calls'
    <3>1. \A u \in Threads : cur'[u] = IF u = t THEN c ELSE cur[u]
      BY <2>5 DEF IInv, TypeOK
    <3>2. Awaited' \subseteq Awaited /\ Sent' \subseteq Sent
      BY <1>1, <1>2, <2>1, <2>2, <2>5, <3>1 DEF Awaited, Sent
    <3>3. SentPid'
      BY <1>1, <3>2 DEF Calls, SentPid
    <3>4. \A u \in Threads, e \in alloced' :
            cur'[u] = e /\ pc'[u] # "clear" =>
              (cur[u] = e /\ pc[u] # "clear") \/ ~Closing(ctx[e].fl)
      BY <1>1, <2>1, <2>5, <3>1
    <3> QED BY <1>1, <1>2, <2>1, <2>2, <2>3, <3>2, <3>3, <3>4, Quiet
  <2> QED BY <1>3, <2>4, <2>5
<1> DEFINE this == [fl |-> f, kind |-> k, sc |-> sc, ser |-> calls + 1, res |-> "none"]
<1>4. /\ this \in Call /\ this.fl = f /\ this.kind = k /\ this.ser = calls + 1
      /\ [this EXCEPT !.res = "err"] \in Call /\ [this EXCEPT !.res = "err"].fl = f
      /\ [this EXCEPT !.res = "err"].kind = k /\ [this EXCEPT !.res = "err"].ser = calls + 1
  BY <1>2 DEF Call, Kinds, Results
<1>5. \/ /\ \E c \in {c \in Saved(f, t) : ctx[c].sc = sc} :
              /\ interrupted' = interrupted \ {c}
              /\ cur' = [cur EXCEPT ![t] = c]
         /\ pc' = [pc EXCEPT ![t] = "wait"] /\ call' = [call EXCEPT ![t] = this]
      \/ /\ pc' = [pc EXCEPT ![t] = "ret"]
         /\ call' = [call EXCEPT ![t] = [this EXCEPT !.res = "err"]]
         /\ UNCHANGED <<interrupted, cur>>
      \/ /\ pc' = [pc EXCEPT ![t] = "alloc"] /\ call' = [call EXCEPT ![t] = this]
         /\ UNCHANGED <<interrupted, cur>>
  OBVIOUS
<1> HIDE DEF this, InvokeStart
<1> QED BY <1>3, <1>4, <1>5 DEF Saved

\* The start of the release of a file: the release call gets the next serial number.
LEMMA CallsFileFreeStart ==
  ASSUME IInv, IInv', Calls, NEW t \in Threads, NEW f \in Files, FileFreeStart(t, f)
  PROVE  Calls'
<1> USE DEF FileFreeStart, Goto, ctxVars, chanVars, dspVars
<1>1. /\ pc[t] = "idle" /\ cur[t] = Nil /\ Nil \notin alloced /\ calls' = calls + 1
  BY ConstantsOK DEF Holding, IInv, Struct, ContextAccounted, TypeOK
<1>2. /\ calls \in Nat /\ calls' >= calls /\ \A c \in Ctxs : ctx[c].done \in Nat
      /\ alloced \subseteq Ctxs /\ Awaited \subseteq alloced
      /\ \A c \in interrupted : ctx[c].fl \in Files
  BY <1>1, AwaitedHeld DEF IInv, TypeOK, Ctx
<1>3. PICK l \in {"alloc", "unhook"} : pc' = [pc EXCEPT ![t] = l]
  OBVIOUS
<1>4. /\ \A u \in Threads : pc'[u] = IF u = t THEN l ELSE pc[u]
      /\ \A u \in Threads : u # t => call'[u] = call[u]
      /\ call'[t].ser = calls + 1
  BY <1>3 DEF IInv, TypeOK
<1>5. \A g \in Files : Closing(g) => Closing(g)'
  BY <1>1, <1>3, <1>4 DEF Closing
<1>6. Awaited' \subseteq Awaited /\ Sent' \subseteq Sent
  BY <1>1, <1>2, <1>3, <1>4, <1>5 DEF Awaited, Sent
<1>7. SentPid'
  BY <1>6 DEF Calls, SentPid
<1>8. \A u \in Threads : pc'[u] = "alloc" =>
        \/ pc[u] = "alloc" /\ call'[u].ser = call[u].ser /\ call'[u].fl = call[u].fl
        \/ /\ calls' = calls + 1 /\ call'[u].ser = calls'
           /\ \A v \in Threads : v # u => pc'[v] = pc[v] /\ call'[v] = call[v]
  BY <1>1, <1>4
<1> QED BY <1>1, <1>2, <1>3, <1>4, <1>5, <1>6, <1>7, <1>8, Quiet

\* fastrpc_context_list_dtor: what it pops is no longer awaited, and when it ends the
\* file has no context left.
LEMMA CallsFileDtor ==
  ASSUME IInv, IInv', Calls, NEW t \in Threads, FileDtor(t)
  PROVE  Calls'
<1> USE DEF FileDtor, Goto, dspVars
<1> DEFINE f == call[t].fl
<1>1. /\ pc[t] = "dtor" /\ call[t].kind = "release" /\ cur[t] = Nil /\ Nil \notin alloced
      /\ f \in Files /\ FileCid[f] \in Cids
      /\ \A u \in Threads : u # t /\ pc[u] # "idle" => call[u].fl # f
  <2>1. pc[t] = "dtor" OBVIOUS
  <2> HIDE DEF FileDtor
  <2>2. call[t].kind = "release" BY <2>1 DEF IInv, Struct, Phases
  <2>3. cur[t] = Nil BY <2>1 DEF IInv, Struct, ContextAccounted, Holding
  <2>4. Nil \notin alloced /\ call[t] \in Call BY ConstantsOK DEF IInv, TypeOK
  <2>5. f \in Files /\ FileCid[f] \in Cids BY <2>4, ConstantsOK DEF Call
  <2>6. \A u \in Threads : u # t /\ pc[u] # "idle" => call[u].fl # f
    BY <2>1, <2>2 DEF IInv, Struct, CloserAlone
  <2> QED BY <2>1, <2>2, <2>3, <2>4, <2>5, <2>6
<1>2. /\ calls \in Nat /\ \A c \in Ctxs : ctx[c].done \in Nat
      /\ alloced \subseteq Ctxs /\ Awaited \subseteq alloced
      /\ \A c \in interrupted : ctx[c].fl \in Files
  BY AwaitedHeld DEF IInv, TypeOK, Ctx
<1>3. /\ \A c \in pending : ctx[c].fl # f
      /\ \A u \in Threads : cur[u] # Nil => ctx[cur[u]].fl # f
  BY <1>1 DEF IInv, Struct, ContextAccounted, PendingExact, HeldIsOwn, Holding
<1>4. ASSUME NEW c \in interrupted, ctx[c].fl = f, interrupted' = interrupted \ {c},
             cur' = [cur EXCEPT ![t] = c], pc' = [pc EXCEPT ![t] = "clear"],
             UNCHANGED <<call, chan>>
      PROVE  Calls'
  <2>1. /\ \A u \in Threads : pc'[u] = IF u = t THEN "clear" ELSE pc[u]
        /\ \A u \in Threads : cur'[u] = IF u = t THEN c ELSE cur[u]
    BY <1>4 DEF IInv, TypeOK
  <2>2. \A g \in Files : Closing(g)' <=> Closing(g)
    BY <1>1, <1>4, <2>1 DEF Closing
  <2>3. Awaited' \subseteq Awaited /\ Sent' \subseteq Sent
    BY <1>1, <1>2, <1>4, <2>1, <2>2 DEF Awaited, Sent
  <2>4. SentPid'
    BY <2>3 DEF Calls, SentPid
  <2> QED BY <1>1, <1>2, <1>4, <2>1, <2>2, <2>3, <2>4, Quiet
<1>5. ASSUME \A c \in interrupted : ctx[c].fl # f,
             \A d \in Cids : chan'[d] => chan[d],
             pc' = [pc EXCEPT ![t] = "idle"], call' = [call EXCEPT ![t] = NoCall],
             UNCHANGED <<cur, interrupted>>
      PROVE  Calls'
  <2>1. /\ \A u \in Threads : pc'[u] = IF u = t THEN "idle" ELSE pc[u]
        /\ \A u \in Threads : u # t => call'[u] = call[u]
    BY <1>5 DEF IInv, TypeOK
  <2>2. \A g \in Files : g # f => (Closing(g)' <=> Closing(g))
    BY <1>1, <2>1 DEF Closing
  <2>3. \A c \in alloced : ctx[c].fl # f
    BY <1>3, <1>5 DEF IInv, Struct, ContextAccounted
  <2>4. Awaited' \subseteq Awaited /\ Sent' \subseteq Sent
    BY <1>1, <1>2, <1>5, <2>1, <2>2 DEF Awaited, Sent
  <2>5. SentPid'
    BY <2>4 DEF Calls, SentPid
  <2> QED BY <1>1, <1>2, <1>5, <2>1, <2>2, <2>3, <2>4, <2>5, Quiet
<1>6. \A d \in Cids : [chan EXCEPT ![FileCid[f]] = FALSE][d] => chan[d]
  BY <1>1 DEF IInv, TypeOK
<1> QED BY <1>3, <1>4, <1>5, <1>6

-----------------------------------------------------------------------------
(* A new context, and its message *)

\* context_alloc: the serial number of the call becomes that of the context.
LEMMA CallsContextAlloc ==
  ASSUME IInv, IInv', Calls, NEW t \in Threads, ContextAlloc(t)
  PROVE  Calls'
<1> USE DEF ContextAlloc, Goto, Fail, chanVars, dspVars
<1>1. /\ pc[t] = "alloc" /\ cur[t] = Nil /\ Nil \notin alloced /\ Nil \notin Ctxs
      /\ call[t] \in Call /\ call[t].ser \in Nat
  BY ConstantsOK DEF Holding, IInv, Struct, ContextAccounted, TypeOK, Call
<1>2. CASE pc' = [pc EXCEPT ![t] = "ret"] /\ call' = [call EXCEPT ![t].res = "err"]
           /\ UNCHANGED <<alloced, ctx, pending, cur>>
  <2>1. \A u \in Threads : /\ call'[u].fl = call[u].fl /\ call'[u].kind = call[u].kind
                           /\ call'[u].ser = call[u].ser
    BY <1>2, CallSerial DEF IInv, TypeOK
  <2>2. Moves(t, "ret")
    BY <1>1, <1>2, <2>1 DEF Moves
  <2> QED BY <2>2, QuietMove
<1>3. ASSUME NEW c \in Ctxs \ alloced, alloced' = alloced \cup {c},
             ctx' = [ctx EXCEPT ![c] =
               [fl |-> call[t].fl, pid |-> t, kind |-> call[t].kind,
                sc |-> call[t].sc, slot |-> NoSlot, retval |-> -1, done |-> 0,
                mpid |-> FALSE, ser |-> call[t].ser, by |-> 0]],
             cur' = [cur EXCEPT ![t] = c], pc' = [pc EXCEPT ![t] = "slot"],
             UNCHANGED call
      PROVE  Calls'
  <2>1. /\ \A u \in Threads : pc'[u] = IF u = t THEN "slot" ELSE pc[u]
        /\ \A u \in Threads : cur'[u] = IF u = t THEN c ELSE cur[u]
        /\ \A b \in Ctxs : b # c => ctx'[b] = ctx[b]
        /\ ctx'[c].fl = call[t].fl /\ ctx'[c].ser = call[t].ser /\ ctx'[c].by = 0
    BY <1>3 DEF IInv, TypeOK
  <2>2. UNCHANGED <<dsp, rsp, rx, alive, up, notify, pdr, fault, abandoned, calls,
                    interrupted, chan>>
        /\ Messages' = Messages
    BY <1>3 DEF Messages
  <2>3. /\ Awaited \subseteq alloced /\ Sent \subseteq alloced /\ alloced \subseteq Ctxs
        /\ \A b \in interrupted : ctx[b].fl \in Files /\ b \in alloced
    BY AwaitedHeld DEF IInv, TypeOK, Ctx, Struct, ContextAccounted
  <2>4. \A g \in Files : Closing(g)' <=> Closing(g)
    BY <1>1, <1>3, <2>1 DEF Closing
  <2>5. Awaited' \subseteq Awaited /\ Sent' \subseteq Sent
    BY <1>1, <1>3, <2>1, <2>2, <2>3, <2>4 DEF Awaited, Sent
  <2>6. /\ \A b \in Awaited' : b \in Awaited /\ b # c /\ b \in alloced /\ ctx'[b] = ctx[b]
        /\ \A b \in Sent' : b \in Sent /\ ctx'[b] = ctx[b]
        /\ \A b \in alloced : b # c /\ ctx'[b] = ctx[b]
    BY <1>3, <2>1, <2>3, <2>5
  <2>7. Serials'
    <3>1. \A b \in alloced : ctx[b].ser # call[t].ser
      BY <1>1 DEF Calls, Serials
    <3>2. /\ \A b \in alloced' : ctx'[b].ser <= calls'
          /\ \A m \in Messages' : m.ser <= calls'
      BY <1>1, <1>3, <2>1, <2>2, <2>6 DEF Calls, Serials
    <3>3. \A a, b \in alloced' : ctx'[a].ser = ctx'[b].ser => a = b
      BY <1>3, <2>1, <2>6, <3>1 DEF Calls, Serials
    <3>4. ASSUME NEW u \in Threads, pc'[u] = "alloc"
          PROVE  /\ call'[u].ser <= calls'
                 /\ \A b \in alloced' : ctx'[b].ser # call'[u].ser
                 /\ \A m \in Messages' : m.ser # call'[u].ser
                 /\ \A v \in Threads : pc'[v] = "alloc" /\ call'[v].ser = call'[u].ser
                                       => v = u
      <4>1. u # t /\ pc[u] = "alloc" /\ call[u].ser # call[t].ser
        BY <1>1, <2>1, <3>4 DEF Calls, Serials
      <4> QED BY <1>3, <2>1, <2>2, <2>6, <4>1 DEF Calls, Serials
    <3> QED BY <3>2, <3>3, <3>4 DEF Serials
  <2>8. MessagesMatch'
    <3>1. \A m \in Messages : m.ser # ctx'[c].ser
      BY <1>1, <2>1 DEF Calls, Serials
    <3> QED BY <1>3, <2>2, <2>6, <3>1 DEF Calls, MessagesMatch
  <2>9. SentPid' /\ DownClosed' /\ DownWoken'
    BY <2>2, <2>6 DEF Calls, SentPid, DownClosed, DownWoken
  <2>10. ReleaseLast'
    <3>1. ASSUME NEW m \in dsp, m.kind = "release"
          PROVE  /\ \A b \in alloced' : ctx'[b].fl = m.fl /\ ctx'[b].ser < m.ser =>
                      /\ Closing(m.fl)'
                      /\ \A u \in Threads : cur'[u] = b => pc'[u] = "clear"
                 /\ \A u \in Threads : pc'[u] = "alloc" /\ call'[u].fl = m.fl =>
                      call'[u].ser > m.ser
      <4>1. m \in Messages /\ m.fl \in Files /\ m.ser \in Nat
        BY MessageType DEF Messages
      <4>2. ~(ctx'[c].fl = m.fl /\ ctx'[c].ser < m.ser)
        BY <1>1, <2>1, <3>1, <4>1 DEF Calls, ReleaseLast
      <4> QED BY <1>1, <1>3, <2>1, <2>4, <2>6, <3>1, <4>1, <4>2 DEF Calls, ReleaseLast
    <3> QED BY <2>2, <3>1 DEF ReleaseLast
  <2>11. NoLostCall'
    BY <2>2, <2>6 DEF Calls, NoLostCall, WillComplete
  <2>12. Answered'
    BY <1>3, <2>2, <2>6 DEF Calls, Answered
  <2>13. OwnAnswerUnlessAbandoned'
    BY <1>3, <2>1, <2>2, <2>6 DEF Calls, OwnAnswerUnlessAbandoned, OwnAnswer
  <2> QED BY <2>7, <2>8, <2>9, <2>10, <2>11, <2>12, <2>13 DEF Calls
<1> QED BY <1>2, <1>3

\* glink_tx: the channel is open, so the DSP is up. The message is delivered, or the DSP
\* or the PD has died and its notifier is still to come.
LEMMA CallsGlinkTx ==
  ASSUME IInv, IInv', Calls, NEW t \in Threads, GlinkTx(t)
  PROVE  Calls'
<1> USE DEF GlinkTx, Goto, Fail, ctxVars, chanVars
<1> DEFINE c == cur[t]
           f == call[t].fl
           n == MsgOf(t)
<1>1. /\ pc[t] = "tx" /\ c \in alloced /\ c \in Ctxs /\ c # Nil /\ c \notin interrupted
      /\ f \in Files /\ FileCid[f] \in Cids
      /\ ctx[c].fl = f /\ ctx[c].kind = call[t].kind /\ ctx[c].slot # NoSlot
      /\ ctx[c] \in Ctx
      /\ \A u \in Threads : u # t => cur[u] # c
  BY Held, ConstantsOK
  DEF Holding, IInv, Struct, HeldIsOwn, SlotAssigned, TypeOK, Call
<1>2. CASE pc' = [pc EXCEPT ![t] = "free"] /\ call' = [call EXCEPT ![t].res = "err"]
           /\ UNCHANGED dsp
  <2>1. \A u \in Threads : /\ call'[u].fl = call[u].fl /\ call'[u].kind = call[u].kind
                           /\ call'[u].ser = call[u].ser
    BY <1>2, CallSerial DEF IInv, TypeOK
  <2>2. Moves(t, "free")
    BY <1>1, <1>2, <2>1 DEF Moves, dspVars
  <2> QED BY <2>2, QuietMove
<1>3. ASSUME chan[FileCid[f]], dsp' = IF Lost(n) THEN dsp ELSE dsp \cup {n},
             pc' = [pc EXCEPT ![t] = "wait"], UNCHANGED call
      PROVE  Calls'
  <2>1. \A u \in Threads : pc'[u] = IF u = t THEN "wait" ELSE pc[u]
    BY <1>3 DEF IInv, TypeOK
  <2>2. /\ n.cid = FileCid[f] /\ n.page = CtxPage[c] /\ n.slot = ctx[c].slot
        /\ n.ser = ctx[c].ser /\ n.fl = f /\ n.kind = ctx[c].kind /\ n.ser \in Nat
    BY <1>1 DEF MsgOf, Ctx
  <2>3. /\ UNCHANGED <<cur, alloced, ctx, interrupted, abandoned, rsp, rx, alive, up, chan,
                       notify, pdr, fault, calls>>
        /\ Messages' \subseteq Messages \cup {n} /\ dsp \subseteq dsp'
        /\ dsp' \subseteq dsp \cup {n}
    BY <1>3 DEF Messages
  <2> HIDE DEF c, f, n, GlinkTx
  <2>4. \A g \in Files : Closing(g)' <=> Closing(g)
    BY <1>1, <1>3, <2>1 DEF Closing
  <2>5. /\ Awaited' \subseteq Awaited \cup {c} /\ Sent' \subseteq Sent
        /\ Awaited \subseteq alloced /\ alloced \subseteq Ctxs
    <3>1. \A b \in interrupted : ctx[b].fl \in Files
      BY DEF IInv, TypeOK, Ctx
    <3>2. Awaited' \subseteq Awaited \cup {c}
      BY <1>1, <2>1, <2>3, <2>4, <3>1 DEF Awaited, c
    <3>3. Sent' \subseteq Sent
      BY <1>1, <2>1, <2>3 DEF Sent
    <3> QED BY <3>2, <3>3, AwaitedHeld DEF IInv, TypeOK
  <2>6. up[FileCid[f]]
    BY <1>1, <1>3 DEF Calls, DownClosed
  <2>7. Serials'
    <3>1. \A m \in Messages' : m.ser <= calls
      BY <1>1, <2>2, <2>3 DEF Calls, Serials
    <3>2. \A u \in Threads : pc'[u] = "alloc" =>
            u # t /\ pc[u] = "alloc" /\ \A m \in Messages' : m.ser # call[u].ser
      BY <1>1, <2>1, <2>2, <2>3 DEF Calls, Serials
    <3> QED BY <1>3, <2>3, <3>1, <3>2 DEF Calls, Serials
  <2>8. MessagesMatch'
    <3>1. \A b \in alloced : ctx[b].ser = n.ser => b = c
      BY <1>1, <2>2 DEF Calls, Serials
    <3> QED BY <1>1, <2>2, <2>3, <3>1 DEF Calls, MessagesMatch
  <2>9. SentPid' /\ DownClosed'
    BY <2>3, <2>5 DEF Calls, SentPid, DownClosed
  <2>10. DownWoken'
    BY <1>1, <2>3, <2>5, <2>6 DEF Calls, DownWoken
  <2>11. ReleaseLast'
    <3>1. ASSUME NEW m \in dsp, m.kind = "release"
          PROVE  /\ \A b \in alloced : ctx[b].fl = m.fl /\ ctx[b].ser < m.ser =>
                      /\ Closing(m.fl)'
                      /\ \A u \in Threads : cur[u] = b => pc'[u] = "clear"
                 /\ \A u \in Threads : pc'[u] = "alloc" /\ call[u].fl = m.fl =>
                      call[u].ser > m.ser
      <4>1. m.fl \in Files
        BY MessageType DEF Messages
      <4>2. /\ \A b \in alloced : ctx[b].fl = m.fl /\ ctx[b].ser < m.ser =>
                      /\ Closing(m.fl)
                      /\ \A u \in Threads : cur[u] = b => pc[u] = "clear"
            /\ \A u \in Threads : pc[u] = "alloc" /\ call[u].fl = m.fl =>
                      call[u].ser > m.ser
        BY <3>1 DEF Calls, ReleaseLast
      <4> QED BY <1>1, <2>1, <2>4, <4>1, <4>2 DEF c
    <3>2. ASSUME NEW m, m = n, m.kind = "release"
          PROVE  /\ \A b \in alloced : ctx[b].fl = m.fl /\ ctx[b].ser < m.ser =>
                      /\ Closing(m.fl)'
                      /\ \A u \in Threads : cur[u] = b => pc'[u] = "clear"
                 /\ \A u \in Threads : pc'[u] = "alloc" /\ call[u].fl = m.fl =>
                      call[u].ser > m.ser
      <4>1. call[t].kind = "release" /\ Closing(f)
        BY <1>1, <2>2, <3>2 DEF Closing, f
      <4>2. \A u \in Threads : u # t /\ pc[u] # "idle" => call[u].fl # f
        BY <1>1, <4>1 DEF IInv, Struct, CloserAlone, f
      <4>3. \A u \in Threads, b \in alloced : u # t /\ cur[u] = b => ctx[b].fl # f
        BY <4>2, ConstantsOK
        DEF IInv, Struct, HeldIsOwn, ContextAccounted, TypeOK, Holding
      <4>4. ~(ctx[c].ser < m.ser) /\ m.fl = f
        BY <2>2, <3>2
      <4>5. Closing(m.fl)'
        BY <1>1, <2>4, <4>1, <4>4
      <4>6. \A b \in alloced, u \in Threads :
              ctx[b].fl = m.fl /\ ctx[b].ser < m.ser => cur[u] # b
        BY <4>3, <4>4 DEF c
      <4>7. \A u \in Threads : pc'[u] = "alloc" => call[u].fl # m.fl
        BY <2>1, <4>2, <4>4
      <4> QED BY <4>5, <4>6, <4>7
    <3> QED BY <1>3, <2>3, <3>1, <3>2 DEF ReleaseLast
  <2>12. NoLostCall'
    <3>1. ASSUME NEW b, b = c PROVE WillComplete(b)'
      <4>1. CASE Lost(n)
        BY <1>1, <2>2, <2>3, <2>6, <3>1, <4>1 DEF Lost, WillComplete
      <4>2. CASE ~Lost(n)
        BY <1>3, <2>2, <2>3, <3>1, <4>2 DEF WillComplete
      <4> QED BY <4>1, <4>2
    <3>2. ASSUME NEW b \in Awaited PROVE WillComplete(b)'
      <4>1. WillComplete(b)
        BY DEF Calls, NoLostCall
      <4> QED BY <2>3, <4>1 DEF WillComplete
    <3> QED BY <2>5, <3>1, <3>2 DEF NoLostCall
  <2>13. Answered' /\ OwnAnswerUnlessAbandoned'
    BY <1>1, <2>2, <2>3
    DEF Calls, Answered, OwnAnswerUnlessAbandoned, OwnAnswer
  <2> QED BY <2>7, <2>8, <2>9, <2>10, <2>11, <2>12, <2>13 DEF Calls
<1> QED BY <1>2, <1>3

-----------------------------------------------------------------------------
(* The DSP, the receive callback and the notifiers *)

\* A step beside the threads: it allocates, frees and sends nothing.
Beside ==
  /\ UNCHANGED <<threadVars, alloced, interrupted, abandoned, calls>>
  /\ dsp' \subseteq dsp /\ Messages' \subseteq Messages
  /\ \A c \in Ctxs : /\ ctx'[c].fl = ctx[c].fl /\ ctx'[c].kind = ctx[c].kind
                     /\ ctx'[c].slot = ctx[c].slot /\ ctx'[c].ser = ctx[c].ser
                     /\ ctx'[c].mpid = ctx[c].mpid /\ ctx'[c].pid = ctx[c].pid

\* Such a step keeps what does not depend on completions.
LEMMA BesideKeeps ==
  ASSUME IInv, Calls, Beside
  PROVE  /\ Serials' /\ MessagesMatch' /\ SentPid' /\ ReleaseLast' /\ Awaited' = Awaited
         /\ ~abandoned => \A m \in Messages' : \E c \in alloced : ctx'[c].ser = m.ser
         /\ alloced \subseteq Ctxs /\ Awaited \subseteq alloced
<1> USE DEF Beside, threadVars
<1>1. /\ Awaited \subseteq alloced /\ Sent \subseteq alloced /\ alloced \subseteq Ctxs
      /\ interrupted \subseteq Ctxs
  BY AwaitedHeld DEF IInv, TypeOK
<1>2. Awaited' = Awaited /\ Sent' = Sent
  BY <1>1 DEF Awaited, Sent, Closing
<1>3. Serials'
  BY <1>1 DEF Calls, Serials
<1>4. MessagesMatch'
  BY <1>1 DEF Calls, MessagesMatch
<1>5. SentPid'
  BY <1>1, <1>2 DEF Calls, SentPid
<1>6. ReleaseLast'
  BY <1>1 DEF Calls, ReleaseLast, Closing
<1>7. ~abandoned => \A m \in Messages' : \E c \in alloced : ctx'[c].ser = m.ser
  BY <1>1 DEF Calls, Answered
<1> QED BY <1>1, <1>2, <1>3, <1>4, <1>5, <1>6, <1>7

\* A step beside the threads that leaves the receive callback and the contexts alone.
LEMMA BesideRx ==
  ASSUME IInv, Calls, Beside, rx' \subseteq rx, UNCHANGED <<ctx, fault>>
  PROVE  Answered' /\ OwnAnswerUnlessAbandoned'
BY BesideKeeps
DEF Beside, Calls, Answered, OwnAnswerUnlessAbandoned, OwnAnswer

\* SUBSYS_BEFORE_SHUTDOWN: the callers of this DSP are now to be notified.
LEMMA CallsSsrShutdown ==
  ASSUME IInv, Calls, NEW d \in Cids, SsrShutdown(d)
  PROVE  Calls'
<1> USE DEF SsrShutdown, ctxVars, dspVars
<1>1. Beside
  BY DEF Beside, Messages
<1>2. /\ \A e \in Cids : up'[e] = IF e = d THEN FALSE ELSE up[e]
      /\ \A e \in Cids : chan'[e] = IF e = d THEN FALSE ELSE chan[e]
      /\ \A c \in Ctxs : ctx[c].fl \in Files /\ FileCid[ctx[c].fl] \in Cids
  BY ConstantsOK DEF IInv, TypeOK, Ctx
<1>3. DownClosed'
  BY <1>2 DEF Calls, DownClosed
<1>4. DownWoken'
  BY <1>1, <1>2, BesideKeeps DEF Calls, DownWoken
<1>5. NoLostCall'
  <2>1. ASSUME NEW c \in Awaited PROVE WillComplete(c)'
    <3>1. WillComplete(c) /\ c \in Ctxs
      BY <1>1, BesideKeeps DEF Calls, NoLostCall
    <3> QED BY <1>2, <3>1 DEF WillComplete
  <2> QED BY <1>1, <2>1, BesideKeeps DEF NoLostCall
<1> QED BY <1>1, <1>3, <1>4, <1>5, BesideKeeps, BesideRx DEF Calls

\* SUBSYS_AFTER_POWERUP: what the old incarnation held is gone, but its callers have been
\* woken.
LEMMA CallsSsrPowerup ==
  ASSUME IInv, Calls, NEW d \in Cids, SsrPowerup(d)
  PROVE  Calls'
<1> USE DEF SsrPowerup, ctxVars
<1>1. Beside
  BY DEF Beside, Messages
<1>2. /\ \A e \in Cids : up'[e] = IF e = d THEN TRUE ELSE up[e]
      /\ \A e \in Cids : alive'[e] = IF e = d THEN TRUE ELSE alive[e]
      /\ \A c \in Ctxs : ctx[c].fl \in Files /\ FileCid[ctx[c].fl] \in Cids
  BY ConstantsOK DEF IInv, TypeOK, Ctx
<1>3. DownClosed'
  BY <1>2 DEF Calls, DownClosed
<1>4. DownWoken'
  BY <1>1, <1>2, BesideKeeps DEF Calls, DownWoken
<1>5. NoLostCall'
  <2>1. ASSUME NEW c \in Awaited PROVE WillComplete(c)'
    <3>1. WillComplete(c) /\ c \in Ctxs /\ c \in alloced
      BY <1>1, BesideKeeps DEF Calls, NoLostCall
    <3>2. CASE FileCid[ctx[c].fl] = d
      <4>1. ctx[c].done > 0
        BY <3>2 DEF Calls, DownWoken
      <4> QED BY <4>1 DEF WillComplete
    <3>3. CASE FileCid[ctx[c].fl] # d
      <4>1. \A m \in Messages : m.ser = ctx[c].ser => m.cid # d
        BY <3>1, <3>3 DEF Calls, MessagesMatch
      <4>2. /\ \A m \in dsp : m.ser = ctx[c].ser => m \in dsp'
            /\ \A r \in rsp : r.msg.ser = ctx[c].ser => r \in rsp'
        BY <4>1 DEF Messages
      <4> QED BY <1>2, <3>1, <3>3, <4>2 DEF WillComplete
    <3> QED BY <3>2, <3>3
  <2> QED BY <1>1, <2>1, BesideKeeps DEF NoLostCall
<1> QED BY <1>1, <1>3, <1>4, <1>5, BesideKeeps, BesideRx DEF Calls

\* A crash of the DSP: the restart notifier is to come.
LEMMA CallsDspCrash ==
  ASSUME IInv, Calls, NEW d \in Cids, DspCrash(d)
  PROVE  Calls'
<1> USE DEF DspCrash, ctxVars, chanVars
<1>1. Beside
  BY DEF Beside, Messages
<1>2. /\ \A e \in Cids : alive'[e] = IF e = d THEN FALSE ELSE alive[e]
      /\ \A c \in Ctxs : ctx[c].fl \in Files /\ FileCid[ctx[c].fl] \in Cids
  BY ConstantsOK DEF IInv, TypeOK, Ctx
<1>3. DownClosed' /\ DownWoken'
  BY <1>1, BesideKeeps DEF Calls, DownClosed, DownWoken
<1>4. NoLostCall'
  <2>1. ASSUME NEW c \in Awaited PROVE WillComplete(c)'
    <3>1. WillComplete(c) /\ c \in Ctxs /\ c \in alloced
      BY <1>1, BesideKeeps DEF Calls, NoLostCall
    <3>2. CASE FileCid[ctx[c].fl] = d
      BY <1>2, <3>2 DEF WillComplete
    <3>3. CASE FileCid[ctx[c].fl] # d
      <4>1. \A m \in dsp : m.ser = ctx[c].ser => m \in dsp'
        BY <3>1, <3>3 DEF Calls, MessagesMatch, Messages
      <4> QED BY <1>2, <3>1, <3>3, <4>1 DEF WillComplete
    <3> QED BY <3>2, <3>3
  <2> QED BY <1>1, <2>1, BesideKeeps DEF NoLostCall
<1> QED BY <1>1, <1>3, <1>4, BesideKeeps, BesideRx DEF Calls

\* The PD dies with the user calls of its files: its notifier is to come.
LEMMA CallsPdrDown ==
  ASSUME IInv, Calls, PdrDown
  PROVE  Calls'
<1> USE DEF PdrDown, ctxVars
<1>1. Beside
  BY DEF Beside, Messages
<1>2. DownClosed' /\ DownWoken'
  BY <1>1, BesideKeeps DEF Calls, DownClosed, DownWoken
<1>3. NoLostCall'
  <2>1. ASSUME NEW c \in Awaited PROVE WillComplete(c)'
    <3>1. WillComplete(c) /\ c \in Ctxs /\ c \in alloced
      BY <1>1, BesideKeeps DEF Calls, NoLostCall
    <3>2. \A m \in dsp : m.ser = ctx[c].ser => m.fl = ctx[c].fl /\ m.kind = ctx[c].kind
      BY <3>1 DEF Calls, MessagesMatch, Messages
    <3> QED BY <3>1, <3>2 DEF WillComplete
  <2> QED BY <1>1, <2>1, BesideKeeps DEF NoLostCall
<1> QED BY <1>1, <1>2, <1>3, BesideKeeps, BesideRx DEF Calls

\* An answer of the DSP. The release of a process ends calls that nobody awaits any more.
LEMMA CallsDspAnswer ==
  ASSUME IInv, Calls, NEW m \in dsp, DspAnswer(m)
  PROVE  Calls'
<1> USE DEF DspAnswer, ctxVars, chanVars
<1>1. PICK v \in {0, 1} : rsp' = rsp \cup {[msg |-> m, retval |-> v]}
  OBVIOUS
<1>2. Beside
  BY <1>1 DEF Beside, Messages
<1>3. DownClosed' /\ DownWoken'
  BY <1>2, BesideKeeps DEF Calls, DownClosed, DownWoken
<1>4. NoLostCall'
  <2>1. ASSUME NEW c \in Awaited PROVE WillComplete(c)'
    <3>1. WillComplete(c) /\ c \in Ctxs /\ c \in alloced /\ ctx[c].fl \in Files
      BY <1>2, BesideKeeps DEF Calls, NoLostCall, IInv, TypeOK, Ctx
    <3>2. ASSUME NEW n \in dsp, n.ser = ctx[c].ser,
                 m.kind = "release", n.fl = m.fl, n.ser < m.ser
          PROVE  FALSE
      <4>1. ctx[c].fl = m.fl
        BY <3>1, <3>2 DEF Calls, MessagesMatch, Messages
      <4>2. Closing(ctx[c].fl) /\ \A t \in Threads : cur[t] = c => pc[t] = "clear"
        BY <3>1, <3>2, <4>1 DEF Calls, ReleaseLast
      <4> QED BY <4>2 DEF Awaited
    <3>3. \A n \in dsp : n.ser = ctx[c].ser => n \in dsp' \/ n = m
      BY <3>2
    <3>4. m.ser = ctx[c].ser => \E r \in rsp' : r.msg.ser = ctx[c].ser
      <4>1. [msg |-> m, retval |-> v] \in rsp' /\ [msg |-> m, retval |-> v].msg = m
        BY <1>1
      <4> QED BY <4>1
    <3> QED BY <1>1, <3>1, <3>3, <3>4 DEF WillComplete
  <2> QED BY <1>2, <2>1, BesideKeeps DEF NoLostCall
<1> QED BY <1>2, <1>3, <1>4, BesideKeeps, BesideRx DEF Calls

\* The checks of the receive callback find the context of the call, if it still exists.
LEMMA CallsRxCheck ==
  ASSUME IInv, Calls, NEW r \in rsp, RxCheck(r)
  PROVE  Calls'
<1> USE DEF RxCheck, ctxVars, chanVars
<1> DEFINE m == r.msg
           x == [msg |-> m, retval |-> r.retval, c |-> table[m.slot]]
<1>1. m \in Messages /\ m.slot \in Slots
  BY MessageType DEF Messages
<1>2. /\ rsp' = rsp \ {r}
      /\ \/ rx' = rx \cup {x} /\ table[m.slot] # Nil
         \/ UNCHANGED rx
  OBVIOUS
<1>3. Beside
  BY <1>2 DEF Beside, Messages
<1>4. ASSUME NEW c \in alloced, ctx[c].ser = m.ser
      PROVE  table[m.slot] = c /\ rx' = rx \cup {x} /\ x.c = c
  <2>1. ctx[c].slot = m.slot /\ CtxPage[c] = m.page
    BY <1>1, <1>4 DEF Calls, MessagesMatch
  <2>2. table[m.slot] = c /\ c # Nil
    BY <1>1, <2>1, MessageType, ConstantsOK DEF IInv, Struct, TableExact, TypeOK
  <2> QED BY <2>1, <2>2
<1>5. DownClosed' /\ DownWoken'
  BY <1>3, BesideKeeps DEF Calls, DownClosed, DownWoken
<1>6. NoLostCall'
  <2>1. ASSUME NEW c \in Awaited PROVE WillComplete(c)'
    <3>1. WillComplete(c) /\ c \in Ctxs /\ c \in alloced
      BY <1>3, BesideKeeps DEF Calls, NoLostCall
    <3>2. CASE ctx[c].ser = m.ser
      <4>1. x \in rx' /\ x.msg.ser = ctx[c].ser /\ x.c = c
        BY <1>4, <3>1, <3>2
      <4> QED BY <4>1 DEF WillComplete
    <3>3. CASE ctx[c].ser # m.ser
      <4>1. rx \subseteq rx' /\ \A q \in rsp : q.msg.ser = ctx[c].ser => q \in rsp'
        BY <1>2, <3>3
      <4> HIDE DEF RxCheck
      <4> QED BY <3>1, <4>1 DEF WillComplete, RxCheck
    <3> QED BY <3>2, <3>3
  <2> QED BY <1>3, <2>1, BesideKeeps DEF NoLostCall
<1>7. Answered'
  <2>1. ~abandoned => \E c \in alloced : ctx[c].ser = m.ser
    BY <1>1 DEF Calls, Answered
  <2>2. ~abandoned => \A y \in rx' : y.c \in alloced /\ ctx[y.c].ser = y.msg.ser
    BY <1>2, <1>4, <2>1 DEF Calls, Answered
  <2> QED BY <1>3, <2>2, BesideKeeps DEF Answered
<1>8. OwnAnswerUnlessAbandoned'
  BY DEF Calls, OwnAnswerUnlessAbandoned, OwnAnswer
<1> QED BY <1>3, <1>5, <1>6, <1>7, <1>8, BesideKeeps DEF Calls

\* context_notify_user completes the context of the call, and, as long as no context was
\* freed with its answer outstanding, no other.
LEMMA CallsRxNotify ==
  ASSUME IInv, Calls, NEW x \in rx, RxNotify(x)
  PROVE  Calls'
<1> USE DEF RxNotify, chanVars
<1>1. /\ x.msg \in Messages /\ x.msg.slot \in Slots /\ x.msg.slot # NoSlot
      /\ x.msg.ser \in Nat
  BY MessageType DEF Messages
<1>2. PICK e \in {x.c, table[x.msg.slot]} :
        \/ /\ e \in alloced
           /\ ctx' = [ctx EXCEPT ![e].retval = x.retval, ![e].done = @ + 1,
                                 ![e].by = x.msg.ser]
           /\ UNCHANGED fault
        \/ e \notin alloced /\ fault' = TRUE /\ UNCHANGED ctx
  OBVIOUS
<1>3. /\ rx' = rx \ {x}
      /\ UNCHANGED <<abandoned, threadVars, alloced, pending, interrupted, table, up, chan,
                     notify, pdr, alive, dsp, rsp, calls>>
      /\ alloced \subseteq Ctxs /\ \A c \in Ctxs : ctx[c] \in Ctx /\ ctx[c].done \in Nat
  BY DEF IInv, TypeOK, Ctx
<1> HIDE DEF RxNotify
<1>4. /\ \A c \in Ctxs : /\ ctx'[c].fl = ctx[c].fl /\ ctx'[c].kind = ctx[c].kind
                         /\ ctx'[c].slot = ctx[c].slot /\ ctx'[c].ser = ctx[c].ser
                         /\ ctx'[c].mpid = ctx[c].mpid /\ ctx'[c].pid = ctx[c].pid
                         /\ c # e \/ e \notin alloced => ctx'[c] = ctx[c]
      /\ e \in alloced => ctx'[e].done = ctx[e].done + 1 /\ ctx'[e].by = x.msg.ser
  <2>1. CASE e \notin alloced /\ fault' = TRUE /\ UNCHANGED ctx
    BY <2>1
  <2>2. CASE /\ e \in alloced
             /\ ctx' = [ctx EXCEPT ![e].retval = x.retval, ![e].done = @ + 1,
                                   ![e].by = x.msg.ser]
    <3>1. ctx' = [ctx EXCEPT ![e] = [ctx[e] EXCEPT !.retval = x.retval,
                    !.done = ctx[e].done + 1, !.by = x.msg.ser]]
      BY <1>3, <2>2 DEF IInv, TypeOK
    <3>2. ctx'[e] = [ctx[e] EXCEPT !.retval = x.retval,
                       !.done = ctx[e].done + 1, !.by = x.msg.ser]
          /\ \A c \in Ctxs : c # e => ctx'[c] = ctx[c]
      BY <1>3, <2>2, <3>1 DEF IInv, TypeOK
    <3>3. e \in Ctxs /\ ctx[e] \in Ctx
      BY <1>3, <2>2
    <3>4. /\ ctx'[e].fl = ctx[e].fl /\ ctx'[e].kind = ctx[e].kind
          /\ ctx'[e].slot = ctx[e].slot /\ ctx'[e].ser = ctx[e].ser
          /\ ctx'[e].mpid = ctx[e].mpid /\ ctx'[e].pid = ctx[e].pid
          /\ ctx'[e].done = ctx[e].done + 1 /\ ctx'[e].by = x.msg.ser
      BY <3>2, <3>3 DEF Ctx
    <3> QED BY <2>2, <3>2, <3>4
  <2> QED BY <1>2, <2>1, <2>2
<1>5. Beside
  BY <1>3, <1>4 DEF Beside, Messages
<1>6. \A c \in alloced : ctx[c].ser = x.msg.ser => table[x.msg.slot] = c
  BY <1>1 DEF Calls, MessagesMatch, IInv, Struct, TableExact
<1>7. /\ Awaited \subseteq Ctxs /\ Awaited' = Awaited
      /\ \A c \in Ctxs : ctx'[c].done \in Nat /\ ctx'[c].done >= ctx[c].done
  BY <1>3, <1>4, <1>5, BesideKeeps
<1>8. DownClosed' /\ DownWoken'
  BY <1>3, <1>4, <1>7 DEF Calls, DownClosed, DownWoken
<1>9. NoLostCall'
  <2>1. ASSUME NEW c \in Awaited PROVE WillComplete(c)'
    <3>1. WillComplete(c) /\ c \in Ctxs /\ c \in alloced
      BY <1>5, BesideKeeps DEF Calls, NoLostCall
    <3>2. CASE x.msg.ser = ctx[c].ser /\ x.c = c
      <4>1. e = c
        BY <1>2, <1>6, <3>1, <3>2
      <4>2. ctx'[c].done > 0
        BY <1>3, <1>4, <3>1, <4>1
      <4> QED BY <4>2 DEF WillComplete
    <3>3. CASE ~(x.msg.ser = ctx[c].ser /\ x.c = c)
      <4>1. ctx[c].done > 0 => ctx'[c].done > 0
        BY <1>3, <1>7, <3>1
      <4>2. \A y \in rx : y.msg.ser = ctx[c].ser /\ y.c = c => y \in rx'
        BY <1>3, <3>3
      <4>3. ctx'[c].ser = ctx[c].ser /\ ctx'[c].fl = ctx[c].fl /\ ctx'[c].kind = ctx[c].kind
        BY <1>4, <3>1
      <4> QED BY <1>3, <3>1, <4>1, <4>2, <4>3 DEF WillComplete
    <3> QED BY <3>2, <3>3
  <2> QED BY <1>7, <2>1 DEF NoLostCall
<1>10. Answered'
  <2>1. ~abandoned' => \A y \in rx' : y.c \in alloced' /\ ctx'[y.c].ser = y.msg.ser
    BY <1>3, <1>4 DEF Calls, Answered
  <2> QED BY <1>3, <1>5, <2>1, BesideKeeps DEF Answered
<1>11. OwnAnswerUnlessAbandoned'
  <2> SUFFICES ASSUME ~abandoned PROVE OwnAnswer'
    BY <1>3 DEF OwnAnswerUnlessAbandoned
  <2>1. x.c \in alloced /\ ctx[x.c].ser = x.msg.ser /\ OwnAnswer
    BY DEF Calls, Answered, OwnAnswerUnlessAbandoned
  <2>2. e = x.c /\ e \in alloced
    BY <1>2, <1>6, <2>1
  <2>3. UNCHANGED fault
    BY <1>2, <2>2
  <2> QED BY <1>3, <1>4, <2>1, <2>2, <2>3 DEF OwnAnswer
<1> QED BY <1>5, <1>8, <1>9, <1>10, <1>11, BesideKeeps DEF Calls

\* What completing a set of contexts does.
LEMMA Completes ==
  ASSUME IInv, NEW cs, Complete(cs)
  PROVE  /\ \A c \in Ctxs : /\ ctx'[c].fl = ctx[c].fl /\ ctx'[c].kind = ctx[c].kind
                            /\ ctx'[c].slot = ctx[c].slot /\ ctx'[c].ser = ctx[c].ser
                            /\ ctx'[c].mpid = ctx[c].mpid /\ ctx'[c].by = ctx[c].by
                            /\ ctx'[c].pid = ctx[c].pid /\ ctx'[c].retval = ctx[c].retval
         /\ \A c \in Ctxs : ctx[c].done > 0 \/ c \in cs => ctx'[c].done > 0
<1>1. \A c \in Ctxs : ctx[c] \in Ctx /\ ctx[c].done \in Nat
  BY DEF IInv, TypeOK, Ctx
<1> QED BY <1>1 DEF Complete, Ctx

\* The restart notifier wakes every awaited call of the DSP.
LEMMA CallsNotifyDrivers ==
  ASSUME IInv, Calls, NEW d \in Cids, NotifyDrivers(d)
  PROVE  Calls'
<1> USE DEF NotifyDrivers, dspVars
<1> DEFINE cs == {c \in pending \cup interrupted :
                    ctx[c].fl \in open /\ FileCid[ctx[c].fl] = d}
<1>1. /\ Complete(cs) /\ notify' = notify \ {d}
      /\ UNCHANGED <<abandoned, threadVars, alloced, interrupted, up, chan, pdr, alive, dsp,
                     rsp, rx, fault, calls>>
  OBVIOUS
<1>2. \A c \in Awaited : FileCid[ctx[c].fl] = d => c \in cs
  BY AwaitedHeld
<1> HIDE DEF cs, NotifyDrivers
<1>3. /\ \A c \in Ctxs : /\ ctx'[c].fl = ctx[c].fl /\ ctx'[c].kind = ctx[c].kind
                         /\ ctx'[c].slot = ctx[c].slot /\ ctx'[c].ser = ctx[c].ser
                         /\ ctx'[c].mpid = ctx[c].mpid /\ ctx'[c].by = ctx[c].by
                         /\ ctx'[c].pid = ctx[c].pid
      /\ \A c \in Ctxs : ctx[c].done > 0 \/ c \in cs => ctx'[c].done > 0
  BY <1>1, Completes
<1>4. Beside
  BY <1>1, <1>3 DEF Beside, Messages
<1>5. Awaited' = Awaited /\ Awaited \subseteq Ctxs /\ alloced \subseteq Ctxs
  BY <1>4, BesideKeeps
<1>6. DownClosed'
  BY <1>1 DEF Calls, DownClosed
<1>7. DownWoken'
  BY <1>1, <1>2, <1>3, <1>5 DEF Calls, DownWoken
<1>8. NoLostCall'
  <2>1. ASSUME NEW c \in Awaited PROVE WillComplete(c)'
    <3>1. WillComplete(c) /\ c \in Ctxs
      BY <1>5 DEF Calls, NoLostCall
    <3> QED BY <1>1, <1>2, <1>3, <3>1 DEF WillComplete
  <2> QED BY <1>5, <2>1 DEF NoLostCall
<1>9. Answered' /\ OwnAnswerUnlessAbandoned'
  <2>1. ~abandoned' => \A x \in rx' : x.c \in alloced' /\ ctx'[x.c].ser = x.msg.ser
    BY <1>1, <1>3, <1>5 DEF Calls, Answered
  <2>2. Answered'
    BY <1>1, <1>4, <2>1, BesideKeeps DEF Answered
  <2>3. OwnAnswerUnlessAbandoned'
    BY <1>1, <1>3, <1>5 DEF Calls, OwnAnswerUnlessAbandoned, OwnAnswer
  <2> QED BY <2>2, <2>3
<1> QED BY <1>4, <1>6, <1>7, <1>8, <1>9, BesideKeeps DEF Calls

\* The PD notifier wakes every awaited user call of the PD: those with msg.pid set.
LEMMA CallsNotifyPdrDrivers ==
  ASSUME IInv, Calls, NotifyPdrDrivers
  PROVE  Calls'
<1> USE DEF NotifyPdrDrivers, dspVars
<1> DEFINE cs == {c \in pending \cup interrupted :
                    ctx[c].fl \in open \cap PdFiles /\ ctx[c].mpid}
<1>1. /\ Complete(cs) /\ pdr' = FALSE
      /\ UNCHANGED <<abandoned, threadVars, alloced, interrupted, up, chan, notify, alive,
                     dsp, rsp, rx, fault, calls>>
  OBVIOUS
<1>2. \A c \in Awaited : ctx[c].fl \in PdFiles /\ ctx[c].kind = "user" => c \in cs
  BY AwaitedHeld DEF Calls, SentPid
<1> HIDE DEF cs, NotifyPdrDrivers
<1>3. /\ \A c \in Ctxs : /\ ctx'[c].fl = ctx[c].fl /\ ctx'[c].kind = ctx[c].kind
                         /\ ctx'[c].slot = ctx[c].slot /\ ctx'[c].ser = ctx[c].ser
                         /\ ctx'[c].mpid = ctx[c].mpid /\ ctx'[c].by = ctx[c].by
                         /\ ctx'[c].pid = ctx[c].pid
      /\ \A c \in Ctxs : ctx[c].done > 0 \/ c \in cs => ctx'[c].done > 0
  BY <1>1, Completes
<1>4. Beside
  BY <1>1, <1>3 DEF Beside, Messages
<1>5. Awaited' = Awaited /\ Awaited \subseteq Ctxs /\ alloced \subseteq Ctxs
  BY <1>4, BesideKeeps
<1>6. DownClosed'
  BY <1>1 DEF Calls, DownClosed
<1>7. DownWoken'
  BY <1>1, <1>2, <1>3, <1>5 DEF Calls, DownWoken
<1>8. NoLostCall'
  <2>1. ASSUME NEW c \in Awaited PROVE WillComplete(c)'
    <3>1. WillComplete(c) /\ c \in Ctxs
      BY <1>5 DEF Calls, NoLostCall
    <3> QED BY <1>1, <1>2, <1>3, <3>1 DEF WillComplete
  <2> QED BY <1>5, <2>1 DEF NoLostCall
<1>9. Answered' /\ OwnAnswerUnlessAbandoned'
  <2>1. ~abandoned' => \A x \in rx' : x.c \in alloced' /\ ctx'[x.c].ser = x.msg.ser
    BY <1>1, <1>3, <1>5 DEF Calls, Answered
  <2>2. Answered'
    BY <1>1, <1>4, <2>1, BesideKeeps DEF Answered
  <2>3. OwnAnswerUnlessAbandoned'
    BY <1>1, <1>3, <1>5 DEF Calls, OwnAnswerUnlessAbandoned, OwnAnswer
  <2> QED BY <2>2, <2>3
<1> QED BY <1>4, <1>6, <1>7, <1>8, <1>9, BesideKeeps DEF Calls

-----------------------------------------------------------------------------
(* The theorems about calls *)

\* There are no calls when the driver is loaded.
LEMMA InitCalls == Init => Calls
<1> SUFFICES ASSUME Init PROVE Calls
  OBVIOUS
<1>1. Messages = {} /\ Awaited = {} /\ Sent = {}
  BY DEF Init, Messages, Awaited, Sent
<1>2. Serials /\ MessagesMatch /\ SentPid /\ DownWoken /\ NoLostCall
  BY <1>1 DEF Init, Serials, MessagesMatch, SentPid, DownWoken, NoLostCall
<1>3. DownClosed /\ ReleaseLast
  BY DEF Init, DownClosed, ReleaseLast
<1>4. Answered /\ OwnAnswerUnlessAbandoned
  BY <1>1 DEF Init, Answered, OwnAnswerUnlessAbandoned, OwnAnswer
<1> QED BY <1>2, <1>3, <1>4 DEF Calls

\* Every step of the system preserves the invariant of calls and messages.
LEMMA NextCalls == IInv /\ IInv' /\ Calls /\ [Next]_vars => Calls'
<1> SUFFICES ASSUME IInv, IInv', Calls, [Next]_vars PROVE Calls'
  OBVIOUS
<1>1. CASE \E f \in Files : DeviceOpen(f) \/ ChannelOpen(f)
  BY <1>1, CallsDeviceOpen, CallsChannelOpen
<1>2. CASE \E t \in Threads, f \in Files, k \in {"user", "kernel"}, sc \in Scs :
             InvokeStart(t, f, k, sc)
  BY <1>2, CallsInvokeStart
<1>3. CASE \E t \in Threads, f \in Files : FileFreeStart(t, f)
  BY <1>3, CallsFileFreeStart
<1>4. CASE \E t \in Threads : ThreadStep(t) \/ WaitInterrupted(t)
  BY <1>4, CallsContextAlloc, CallsContextSlot, CallsInvokeSend, CallsGlinkTx,
     CallsWaitDone, CallsPutArgs, CallsInvokeReturn, CallsContextSaveInterrupted,
     CallsContextUnlink, CallsContextFree, CallsFileUnhook, CallsFileDtor,
     CallsWaitInterrupted DEF ThreadStep
<1>5. CASE \E r \in rsp : RxCheck(r)
  BY <1>5, CallsRxCheck
<1>6. CASE \E x \in rx : RxNotify(x)
  BY <1>6, CallsRxNotify
<1>7. CASE \E d \in Cids : SsrShutdown(d) \/ NotifyDrivers(d) \/ SsrPowerup(d)
  BY <1>7, CallsSsrShutdown, CallsNotifyDrivers, CallsSsrPowerup
<1>8. CASE PdrDown \/ NotifyPdrDrivers
  BY <1>8, CallsPdrDown, CallsNotifyPdrDrivers
<1>9. CASE \E m \in dsp : DspAnswer(m)
  BY <1>9, CallsDspAnswer
<1>10. CASE \E d \in Cids : DspCrash(d)
  BY <1>10, CallsDspCrash
<1>11. CASE UNCHANGED vars
  <2> USE <1>11 DEF vars, threadVars, ctxVars, chanVars, dspVars
  <2>1. Beside
    BY DEF Beside, Messages
  <2>2. DownClosed' /\ DownWoken' /\ NoLostCall'
    BY <2>1, BesideKeeps DEF Calls, DownClosed, DownWoken, NoLostCall, WillComplete
  <2> QED BY <2>1, <2>2, BesideKeeps, BesideRx DEF Calls
<1> QED
  BY <1>1, <1>2, <1>3, <1>4, <1>5, <1>6, <1>7, <1>8, <1>9, <1>10, <1>11 DEF Next

\* The inductive invariant of calls and messages holds in every behaviour.
THEOREM CallsInductive == Spec => []Calls
BY InitCalls, NextCalls, Inductive, PTL DEF Spec

\* No call is forgotten: an awaited context is completed, or something that will complete
\* it is under way, for any number of threads, files and DSPs and any order of answers,
\* signals, crashes, restarts and notifications.
THEOREM NoLostCallHolds == Spec => []NoLostCall
<1>1. Calls => NoLostCall
  BY DEF Calls
<1> QED BY <1>1, CallsInductive, PTL

\* The unlocked receive callback gives every answer to the call it belongs to and uses no
\* freed context, unless a context was freed with its answer outstanding.
THEOREM OwnAnswerUnlessAbandonedHolds == Spec => []OwnAnswerUnlessAbandoned
<1>1. Calls => OwnAnswerUnlessAbandoned
  BY DEF Calls
<1> QED BY <1>1, CallsInductive, PTL

-----------------------------------------------------------------------------
(* What the steps of a thread do, variable by variable *)

\* Only thread t moves; a context that stays allocated keeps its identity and its answer,
\* and is not completed.
Alone(t) ==
  /\ \A u \in Threads \ {t} : pc'[u] = pc[u] /\ cur'[u] = cur[u] /\ call'[u] = call[u]
  /\ \A c \in alloced \cap alloced' :
       /\ ctx'[c].fl = ctx[c].fl /\ ctx'[c].pid = ctx[c].pid /\ ctx'[c].kind = ctx[c].kind
       /\ ctx'[c].ser = ctx[c].ser /\ ctx'[c].by = ctx[c].by
       /\ ctx'[c].retval = ctx[c].retval
       /\ ctx'[c].done > 0 => ctx[c].done > 0

\* The call of thread t goes on, with outcome v.
Outcome(t, v) ==
  /\ call'[t].fl = call[t].fl /\ call'[t].kind = call[t].kind
  /\ call'[t].ser = call[t].ser /\ call'[t].res = v

Silent == UNCHANGED <<dsp, rsp, rx>>
Links == UNCHANGED <<open, flssr, ssrcount, chan, notify, pdr, pdrcount, alive>>

\* A call gets its outcome.
LEMMA Decides ==
  ASSUME IInv, NEW t \in Threads, NEW v, call' = [call EXCEPT ![t].res = v]
  PROVE  /\ Outcome(t, v)
         /\ \A u \in Threads \ {t} : call'[u] = call[u]
BY DEF IInv, TypeOK, Call, Outcome

\* A thread goes on, in the driver, with the contexts as they are.
LEMMA AloneMoves ==
  ASSUME IInv, NEW t \in Threads, NEW l, pc' = [pc EXCEPT ![t] = l],
         UNCHANGED <<cur, ctx>>, \A u \in Threads \ {t} : call'[u] = call[u]
  PROVE  /\ Alone(t) /\ pc'[t] = l
BY DEF IInv, TypeOK, Alone

\* fastrpc_internal_invoke starts: resumed, refused, or with a new call.
LEMMA EffInvokeStart ==
  ASSUME IInv, NEW t \in Threads, NEW f \in Files, NEW k \in {"user", "kernel"},
         NEW sc \in Scs, InvokeStart(t, f, k, sc)
  PROVE  /\ Alone(t) /\ Silent /\ Links /\ UNCHANGED <<alloced, abandoned>>
         /\ pc[t] = "idle" /\ cur[t] = Nil /\ calls' = calls + 1 /\ f \in open /\ ~Closing(f)
         /\ call'[t].fl = f /\ call'[t].kind = k /\ call'[t].ser = calls + 1
         /\ \/ /\ pc'[t] = "wait" /\ call'[t].res = "none" /\ k = "user"
               /\ \E c \in interrupted : /\ ctx[c].pid = t /\ ctx[c].fl = f
                                         /\ cur'[t] = c /\ interrupted' = interrupted \ {c}
            \/ /\ pc'[t] = "ret" /\ call'[t].res = "err" /\ cur'[t] = Nil
               /\ UNCHANGED interrupted
            \/ /\ pc'[t] = "alloc" /\ call'[t].res = "none" /\ cur'[t] = Nil
               /\ UNCHANGED interrupted
<1> DEFINE this == [fl |-> f, kind |-> k, sc |-> sc, ser |-> calls + 1, res |-> "none"]
<1>1. /\ pc[t] = "idle" /\ cur[t] = Nil /\ calls' = calls + 1 /\ f \in open /\ ~Closing(f)
      /\ Silent /\ Links /\ UNCHANGED <<alloced, abandoned, ctx>>
  BY DEF InvokeStart, Silent, Links, chanVars, dspVars, IInv, Struct, ContextAccounted, Holding
<1>2. CASE /\ k = "user" /\ pc' = [pc EXCEPT ![t] = "wait"] /\ call' = [call EXCEPT ![t] = this]
           /\ \E c \in Saved(f, t) : /\ interrupted' = interrupted \ {c}
                                     /\ cur' = [cur EXCEPT ![t] = c]
  <2>1. PICK c \in interrupted : /\ ctx[c].pid = t /\ ctx[c].fl = f
                                 /\ interrupted' = interrupted \ {c}
                                 /\ cur' = [cur EXCEPT ![t] = c]
    BY <1>2 DEF Saved
  <2>2. /\ \A u \in Threads \ {t} : pc'[u] = pc[u] /\ cur'[u] = cur[u] /\ call'[u] = call[u]
        /\ pc'[t] = "wait" /\ cur'[t] = c /\ call'[t] = this
    BY <1>2, <2>1 DEF IInv, TypeOK
  <2> QED BY <1>1, <1>2, <2>1, <2>2 DEF Alone
<1>3. CASE /\ pc' = [pc EXCEPT ![t] = "ret"] /\ UNCHANGED <<interrupted, cur>>
           /\ call' = [call EXCEPT ![t] = [this EXCEPT !.res = "err"]]
  <2>1. /\ \A u \in Threads \ {t} : pc'[u] = pc[u] /\ call'[u] = call[u]
        /\ pc'[t] = "ret" /\ call'[t] = [this EXCEPT !.res = "err"]
    BY <1>3 DEF IInv, TypeOK
  <2> QED BY <1>1, <1>3, <2>1 DEF Alone
<1>4. CASE /\ pc' = [pc EXCEPT ![t] = "alloc"] /\ UNCHANGED <<interrupted, cur>>
           /\ call' = [call EXCEPT ![t] = this]
  <2>1. /\ \A u \in Threads \ {t} : pc'[u] = pc[u] /\ call'[u] = call[u]
        /\ pc'[t] = "alloc" /\ call'[t] = this
    BY <1>4 DEF IInv, TypeOK
  <2> QED BY <1>1, <1>4, <2>1 DEF Alone
<1>5. \/ /\ k = "user" /\ pc' = [pc EXCEPT ![t] = "wait"] /\ call' = [call EXCEPT ![t] = this]
         /\ \E c \in Saved(f, t) : /\ interrupted' = interrupted \ {c}
                                   /\ cur' = [cur EXCEPT ![t] = c]
      \/ /\ pc' = [pc EXCEPT ![t] = "ret"] /\ UNCHANGED <<interrupted, cur>>
         /\ call' = [call EXCEPT ![t] = [this EXCEPT !.res = "err"]]
      \/ /\ pc' = [pc EXCEPT ![t] = "alloc"] /\ UNCHANGED <<interrupted, cur>>
         /\ call' = [call EXCEPT ![t] = this]
  <2> HIDE DEF Saved
  <2> QED BY Zenon DEF InvokeStart, Goto
<1> QED BY <1>2, <1>3, <1>4, <1>5

\* fastrpc_file_free starts, with the release call or, without a channel, past it.
LEMMA EffFileFreeStart ==
  ASSUME IInv, NEW t \in Threads, NEW f \in Files, FileFreeStart(t, f)
  PROVE  /\ Alone(t) /\ Silent /\ Links /\ UNCHANGED <<alloced, abandoned, interrupted, cur, ctx>>
         /\ pc[t] = "idle" /\ cur[t] = Nil /\ calls' = calls + 1 /\ f \in open /\ ~Busy(f)
         /\ call'[t].fl = f /\ call'[t].kind = "release" /\ call'[t].ser = calls + 1
         /\ call'[t].res = "none"
         /\ \/ pc'[t] = "alloc"
            \/ pc'[t] = "unhook" /\ ~chan[FileCid[f]]
<1>1. /\ pc[t] = "idle" /\ cur[t] = Nil /\ calls' = calls + 1 /\ f \in open /\ ~Busy(f)
      /\ Silent /\ Links /\ UNCHANGED <<alloced, abandoned, interrupted, cur, ctx>>
  BY DEF FileFreeStart, Silent, Links, chanVars, dspVars, ctxVars, IInv, Struct,
         ContextAccounted, Holding
<1>2. PICK sc \in Scs : call' = [call EXCEPT ![t] = [fl |-> f, kind |-> "release",
                                   sc |-> sc, ser |-> calls + 1, res |-> "none"]]
  BY DEF FileFreeStart
<1>3. PICK l \in {"alloc", "unhook"} : /\ pc' = [pc EXCEPT ![t] = l]
                                       /\ l = "unhook" => ~chan[FileCid[f]]
  BY DEF FileFreeStart, Goto
<1>4. /\ \A u \in Threads \ {t} : call'[u] = call[u]
      /\ call'[t] = [fl |-> f, kind |-> "release", sc |-> sc, ser |-> calls + 1,
                     res |-> "none"]
  BY <1>2 DEF IInv, TypeOK
<1>5. Alone(t) /\ pc'[t] = l
  BY <1>1, <1>3, <1>4, AloneMoves
<1> QED BY <1>1, <1>3, <1>4, <1>5

\* context_alloc: a new context with the number of its call, or failure.
LEMMA EffContextAlloc ==
  ASSUME IInv, NEW t \in Threads, ContextAlloc(t)
  PROVE  /\ Alone(t) /\ Silent /\ Links /\ UNCHANGED <<abandoned, interrupted, calls>>
         /\ pc[t] = "alloc" /\ cur[t] = Nil
         /\ \/ /\ pc'[t] = "slot" /\ UNCHANGED call /\ cur'[t] \in Ctxs \ alloced
               /\ alloced' = alloced \cup {cur'[t]}
               /\ ctx'[cur'[t]].ser = call[t].ser /\ ctx'[cur'[t]].fl = call[t].fl
               /\ ctx'[cur'[t]].by = 0 /\ ctx'[cur'[t]].retval = -1
               /\ ctx'[cur'[t]].done = 0
            \/ /\ pc'[t] = "ret" /\ Outcome(t, "err") /\ UNCHANGED <<alloced, cur, ctx>>
<1>1. /\ pc[t] = "alloc" /\ cur[t] = Nil /\ Silent /\ Links
      /\ UNCHANGED <<abandoned, interrupted, calls>>
  BY DEF ContextAlloc, Silent, Links, chanVars, dspVars, IInv, Struct, ContextAccounted, Holding
<1>2. CASE Fail(t, "ret") /\ UNCHANGED <<alloced, ctx, pending, cur>>
  BY <1>1, <1>2, Decides, AloneMoves DEF Fail, Goto
<1>3. ASSUME NEW c \in Ctxs \ alloced,
             alloced' = alloced \cup {c}, cur' = [cur EXCEPT ![t] = c],
             ctx' = [ctx EXCEPT ![c] =
               [fl |-> call[t].fl, pid |-> t, kind |-> call[t].kind,
                sc |-> call[t].sc, slot |-> NoSlot, retval |-> -1, done |-> 0,
                mpid |-> FALSE, ser |-> call[t].ser, by |-> 0]],
             pc' = [pc EXCEPT ![t] = "slot"], UNCHANGED call
      PROVE  /\ Alone(t) /\ pc'[t] = "slot" /\ cur'[t] = c
             /\ ctx'[c].ser = call[t].ser /\ ctx'[c].fl = call[t].fl
             /\ ctx'[c].by = 0 /\ ctx'[c].retval = -1 /\ ctx'[c].done = 0
  <2>1. /\ \A u \in Threads \ {t} : pc'[u] = pc[u] /\ cur'[u] = cur[u] /\ call'[u] = call[u]
        /\ pc'[t] = "slot" /\ cur'[t] = c
        /\ \A d \in Ctxs : d # c => ctx'[d] = ctx[d]
        /\ alloced \subseteq Ctxs
    BY <1>3 DEF IInv, TypeOK
  <2>2. ctx'[c] = [fl |-> call[t].fl, pid |-> t, kind |-> call[t].kind,
                sc |-> call[t].sc, slot |-> NoSlot, retval |-> -1, done |-> 0,
                mpid |-> FALSE, ser |-> call[t].ser, by |-> 0]
    BY <1>3 DEF IInv, TypeOK
  <2>3. /\ ctx'[c].ser = call[t].ser /\ ctx'[c].fl = call[t].fl
        /\ ctx'[c].by = 0 /\ ctx'[c].retval = -1 /\ ctx'[c].done = 0
    BY <2>2
  <2>4. Alone(t)
    BY <2>1 DEF Alone
  <2> QED BY <2>1, <2>3, <2>4
<1> QED BY <1>1, <1>2, <1>3 DEF ContextAlloc, Goto

\* context_alloc takes a table entry, or finds none free.
LEMMA EffContextSlot ==
  ASSUME IInv, NEW t \in Threads, ContextSlot(t)
  PROVE  /\ Alone(t) /\ Silent /\ Links
         /\ UNCHANGED <<abandoned, interrupted, calls, alloced, cur>>
         /\ pc[t] = "slot"
         /\ \/ pc'[t] = "send" /\ UNCHANGED call
            \/ pc'[t] = "free" /\ Outcome(t, "err")
<1>1. /\ pc[t] = "slot" /\ Silent /\ Links
      /\ UNCHANGED <<abandoned, interrupted, calls, alloced, cur>>
  BY DEF ContextSlot, Silent, Links, chanVars, dspVars
<1>2. CASE Fail(t, "free") /\ UNCHANGED <<table, ctx>>
  BY <1>1, <1>2, Decides, AloneMoves DEF Fail, Goto
<1>3. ASSUME NEW s \in Slots, ctx' = [ctx EXCEPT ![cur[t]].slot = s],
             pc' = [pc EXCEPT ![t] = "send"], UNCHANGED call
      PROVE  Alone(t) /\ pc'[t] = "send"
  <2>1. \A c \in Ctxs : /\ ctx'[c].fl = ctx[c].fl /\ ctx'[c].pid = ctx[c].pid
                        /\ ctx'[c].kind = ctx[c].kind
                        /\ ctx'[c].ser = ctx[c].ser /\ ctx'[c].by = ctx[c].by
                        /\ ctx'[c].retval = ctx[c].retval /\ ctx'[c].done = ctx[c].done
    BY <1>3 DEF IInv, TypeOK, Ctx
  <2> QED BY <1>1, <1>3, <2>1 DEF Alone, IInv, TypeOK
<1> QED BY <1>1, <1>2, <1>3 DEF ContextSlot, Goto

\* fastrpc_invoke_send up to glink_tx.
LEMMA EffInvokeSend ==
  ASSUME IInv, NEW t \in Threads, InvokeSend(t)
  PROVE  /\ Alone(t) /\ Silent /\ Links
         /\ UNCHANGED <<abandoned, interrupted, calls, alloced, cur>>
         /\ pc[t] = "send"
         /\ \/ pc'[t] = "tx" /\ UNCHANGED call
            \/ pc'[t] = "free" /\ Outcome(t, "err")
<1>1. /\ pc[t] = "send" /\ Silent /\ Links
      /\ UNCHANGED <<abandoned, interrupted, calls, alloced, cur>>
  BY DEF InvokeSend, Silent, Links, chanVars, dspVars
<1>2. \A c \in Ctxs : /\ ctx'[c].fl = ctx[c].fl /\ ctx'[c].pid = ctx[c].pid
                      /\ ctx'[c].kind = ctx[c].kind
                      /\ ctx'[c].ser = ctx[c].ser /\ ctx'[c].by = ctx[c].by
                      /\ ctx'[c].retval = ctx[c].retval /\ ctx'[c].done = ctx[c].done
  <2>1. CASE UNCHANGED ctx
    BY <2>1
  <2>2. CASE ctx' = [ctx EXCEPT ![cur[t]].mpid = (call[t].kind = "user")]
    BY <2>2 DEF IInv, TypeOK, Ctx
  <2> QED BY <2>1, <2>2 DEF InvokeSend
<1>3. CASE pc' = [pc EXCEPT ![t] = "tx"] /\ UNCHANGED call
  BY <1>1, <1>2, <1>3 DEF Alone, IInv, TypeOK
<1>4. CASE pc' = [pc EXCEPT ![t] = "free"] /\ call' = [call EXCEPT ![t].res = "err"]
  <2>1. Outcome(t, "err") /\ \A u \in Threads \ {t} : call'[u] = call[u]
    BY <1>4, Decides
  <2>2. \A u \in Threads : pc'[u] = IF u = t THEN "free" ELSE pc[u]
    BY <1>4 DEF IInv, TypeOK
  <2>3. alloced \subseteq Ctxs
    BY DEF IInv, TypeOK
  <2> QED BY <1>1, <1>2, <2>1, <2>2, <2>3 DEF Alone
<1> QED BY <1>3, <1>4 DEF InvokeSend, Fail, Goto

\* glink_tx: the message goes to the DSP or is lost, or the call fails.
LEMMA EffGlinkTx ==
  ASSUME IInv, NEW t \in Threads, GlinkTx(t)
  PROVE  /\ Alone(t) /\ Links
         /\ UNCHANGED <<abandoned, interrupted, calls, alloced, cur, ctx, rsp, rx>>
         /\ pc[t] = "tx"
         /\ \/ /\ pc'[t] = "wait" /\ UNCHANGED call /\ chan[FileCid[call[t].fl]]
               /\ dsp' \in {dsp, dsp \cup {MsgOf(t)}}
            \/ /\ pc'[t] = "free" /\ Outcome(t, "err") /\ UNCHANGED dsp
<1>1. /\ pc[t] = "tx" /\ Links
      /\ UNCHANGED <<abandoned, interrupted, calls, alloced, cur, ctx, rsp, rx>>
  BY DEF GlinkTx, Links, chanVars, ctxVars
<1>2. CASE Fail(t, "free") /\ UNCHANGED dsp
  BY <1>1, <1>2, Decides, AloneMoves DEF Fail, Goto
<1>3. CASE /\ chan[FileCid[call[t].fl]] /\ pc' = [pc EXCEPT ![t] = "wait"] /\ UNCHANGED call
           /\ dsp' \in {dsp, dsp \cup {MsgOf(t)}}
  BY <1>1, <1>3, AloneMoves
<1> QED BY <1>1, <1>2, <1>3 DEF GlinkTx, Goto

\* wait_for_completion returns.
LEMMA EffWaitDone ==
  ASSUME IInv, NEW t \in Threads, WaitDone(t)
  PROVE  /\ Alone(t) /\ Silent /\ Links
         /\ UNCHANGED <<abandoned, interrupted, calls, alloced, cur, call>>
         /\ pc[t] = "wait" /\ pc'[t] = "woken" /\ ctx[cur[t]].done > 0
<1>1. /\ Silent /\ Links /\ UNCHANGED <<abandoned, interrupted, calls, alloced, cur, call>>
      /\ pc[t] = "wait" /\ ctx[cur[t]].done > 0 /\ pc' = [pc EXCEPT ![t] = "woken"]
      /\ ctx' = [ctx EXCEPT ![cur[t]].done = @ - 1]
  BY DEF WaitDone, Goto, Silent, Links, chanVars, dspVars
<1>2. \A c \in Ctxs : /\ ctx'[c].fl = ctx[c].fl /\ ctx'[c].pid = ctx[c].pid
                      /\ ctx'[c].kind = ctx[c].kind
                      /\ ctx'[c].ser = ctx[c].ser /\ ctx'[c].by = ctx[c].by
                      /\ ctx'[c].retval = ctx[c].retval
                      /\ ctx'[c].done > 0 => ctx[c].done > 0
  BY <1>1 DEF IInv, TypeOK, Ctx
<1> QED BY <1>1, <1>2 DEF Alone, IInv, TypeOK

\* A signal ends the wait.
LEMMA EffWaitInterrupted ==
  ASSUME IInv, NEW t \in Threads, WaitInterrupted(t)
  PROVE  /\ Alone(t) /\ Silent /\ Links
         /\ UNCHANGED <<abandoned, interrupted, calls, alloced, cur, call, ctx>>
         /\ pc[t] = "wait" /\ pc'[t] = "save" /\ call[t].kind = "user"
<1>1. /\ Silent /\ Links /\ UNCHANGED <<abandoned, interrupted, calls, alloced, cur, call, ctx>>
      /\ pc[t] = "wait" /\ call[t].kind = "user" /\ pc' = [pc EXCEPT ![t] = "save"]
  BY DEF WaitInterrupted, Goto, Silent, Links, chanVars, dspVars, ctxVars
<1> QED BY <1>1, AloneMoves

\* The outcome of a call that was woken.
LEMMA EffPutArgs ==
  ASSUME IInv, NEW t \in Threads, PutArgs(t)
  PROVE  /\ Alone(t) /\ Silent /\ Links
         /\ UNCHANGED <<abandoned, interrupted, calls, alloced, cur, ctx>>
         /\ pc[t] = "woken" /\ pc'[t] = "free"
         /\ \/ Outcome(t, "ok") /\ ctx[cur[t]].retval = 0
            \/ Outcome(t, "err")
<1>1. /\ Silent /\ Links /\ UNCHANGED <<abandoned, interrupted, calls, alloced, cur, ctx>>
      /\ pc[t] = "woken" /\ pc' = [pc EXCEPT ![t] = "free"]
  BY DEF PutArgs, Fail, Goto, Silent, Links, chanVars, dspVars, ctxVars
<1>2. \/ call' = [call EXCEPT ![t].res = "ok"] /\ ctx[cur[t]].retval = 0
      \/ call' = [call EXCEPT ![t].res = "err"]
  BY DEF PutArgs, Fail
<1> QED BY <1>1, <1>2, Decides, AloneMoves

\* context_save_interrupted.
LEMMA EffContextSaveInterrupted ==
  ASSUME IInv, NEW t \in Threads, ContextSaveInterrupted(t)
  PROVE  /\ Alone(t) /\ Silent /\ Links /\ UNCHANGED <<abandoned, calls, alloced, ctx>>
         /\ pc[t] = "save" /\ pc'[t] = "ret" /\ Outcome(t, "intr")
         /\ cur'[t] = Nil /\ interrupted' = interrupted \cup {cur[t]}
<1>1. /\ Silent /\ Links /\ UNCHANGED <<abandoned, calls, alloced, ctx>>
      /\ pc[t] = "save" /\ pc' = [pc EXCEPT ![t] = "ret"]
      /\ interrupted' = interrupted \cup {cur[t]} /\ cur' = [cur EXCEPT ![t] = Nil]
      /\ call' = [call EXCEPT ![t].res = "intr"]
  BY DEF ContextSaveInterrupted, Goto, Silent, Links, chanVars, dspVars
<1>2. Outcome(t, "intr") /\ \A u \in Threads \ {t} : call'[u] = call[u]
  BY <1>1, Decides
<1> QED BY <1>1, <1>2 DEF Alone, IInv, TypeOK

\* context_free unlinks the context ...
LEMMA EffContextUnlink ==
  ASSUME IInv, NEW t \in Threads, ContextUnlink(t)
  PROVE  /\ Alone(t) /\ Silent /\ Links
         /\ UNCHANGED <<abandoned, interrupted, calls, alloced, cur, call, ctx>>
         /\ pc[t] = "free" /\ pc'[t] = "clear"
<1>1. /\ Silent /\ Links /\ UNCHANGED <<abandoned, interrupted, calls, alloced, cur, call, ctx>>
      /\ pc[t] = "free" /\ pc' = [pc EXCEPT ![t] = "clear"]
  BY DEF ContextUnlink, Goto, Silent, Links, chanVars, dspVars
<1> QED BY <1>1, AloneMoves

\* ... and gives its memory back.
LEMMA EffContextFree ==
  ASSUME IInv, NEW t \in Threads, ContextFree(t)
  PROVE  /\ Alone(t) /\ Silent /\ Links /\ UNCHANGED <<interrupted, calls, call>>
         /\ pc[t] = "clear" /\ pc'[t] \in {"ret", "dtor"} /\ cur'[t] = Nil
         /\ pc'[t] = "ret" => call[t].fl \in open
         /\ cur[t] \in alloced /\ alloced' = alloced \ {cur[t]}
         /\ abandoned' = (abandoned \/ Outstanding(ctx[cur[t]].ser))
<1>1. /\ Silent /\ Links /\ UNCHANGED <<interrupted, calls, call>>
      /\ pc[t] = "clear" /\ alloced' = alloced \ {cur[t]}
      /\ cur' = [cur EXCEPT ![t] = Nil] /\ ctx' = [ctx EXCEPT ![cur[t]] = Freed]
      /\ abandoned' = (abandoned \/ Outstanding(ctx[cur[t]].ser))
  BY DEF ContextFree, Silent, Links, chanVars, dspVars
<1>2. PICK l \in {"ret", "dtor"} : pc' = [pc EXCEPT ![t] = l] /\ (l = "ret" => call[t].fl \in open)
  BY DEF ContextFree, Goto
<1>3. cur[t] \in alloced
  BY <1>1, Held DEF Holding
<1>4. /\ \A c \in Ctxs : c # cur[t] => ctx'[c] = ctx[c]
      /\ alloced \subseteq Ctxs /\ pc'[t] = l /\ cur'[t] = Nil
      /\ \A u \in Threads \ {t} : pc'[u] = pc[u] /\ cur'[u] = cur[u]
  BY <1>1, <1>2, <1>3 DEF IInv, TypeOK
<1> QED BY <1>1, <1>2, <1>3, <1>4 DEF Alone

\* The return of fastrpc_internal_invoke.
LEMMA EffInvokeReturn ==
  ASSUME IInv, NEW t \in Threads, InvokeReturn(t)
  PROVE  /\ Alone(t) /\ Silent /\ Links
         /\ UNCHANGED <<abandoned, interrupted, calls, alloced, cur, ctx>>
         /\ pc[t] = "ret" /\ cur[t] = Nil
         /\ \/ pc'[t] = "unhook" /\ UNCHANGED call /\ call[t].kind = "release"
            \/ /\ pc'[t] = "idle" /\ call'[t].res \in {call[t].res, "reset"}
               /\ call[t].kind # "release"
<1>1. /\ Silent /\ Links /\ UNCHANGED <<abandoned, interrupted, calls, alloced, cur, ctx>>
      /\ pc[t] = "ret" /\ cur[t] = Nil
  BY DEF InvokeReturn, Silent, Links, chanVars, dspVars, ctxVars, IInv, Struct,
         ContextAccounted, Holding
<1>2. CASE call[t].kind = "release" /\ pc' = [pc EXCEPT ![t] = "unhook"] /\ UNCHANGED call
  BY <1>1, <1>2, AloneMoves
<1>3. ASSUME call[t].kind # "release", pc' = [pc EXCEPT ![t] = "idle"],
             NEW r \in {call[t].res, "reset"},
             call' = [call EXCEPT ![t] = [NoCall EXCEPT !.res = r]]
      PROVE  Alone(t) /\ pc'[t] = "idle" /\ call'[t].res = r
  <2>1. /\ \A u \in Threads \ {t} : call'[u] = call[u]
        /\ call'[t] = [NoCall EXCEPT !.res = r]
    BY <1>3 DEF IInv, TypeOK
  <2>2. call'[t].res = r
    BY <2>1 DEF NoCall
  <2> QED BY <1>1, <1>3, <2>1, <2>2, AloneMoves
<1> QED BY <1>1, <1>2, <1>3 DEF InvokeReturn, Goto

\* The file leaves me->drivers.
LEMMA EffFileUnhook ==
  ASSUME IInv, NEW t \in Threads, FileUnhook(t)
  PROVE  /\ Alone(t) /\ Silent
         /\ UNCHANGED <<abandoned, interrupted, calls, alloced, cur, call, ctx>>
         /\ UNCHANGED <<flssr, ssrcount, chan, notify, pdr, pdrcount, alive>>
         /\ pc[t] = "unhook" /\ pc'[t] = "dtor" /\ open' = open \ {call[t].fl}
<1>1. /\ Silent /\ UNCHANGED <<abandoned, interrupted, calls, alloced, cur, call, ctx>>
      /\ UNCHANGED <<flssr, ssrcount, chan, notify, pdr, pdrcount, alive>>
      /\ pc[t] = "unhook" /\ pc' = [pc EXCEPT ![t] = "dtor"] /\ open' = open \ {call[t].fl}
  BY DEF FileUnhook, Goto, Silent, dspVars, ctxVars
<1> QED BY <1>1, AloneMoves

\* fastrpc_context_list_dtor takes a saved context, or is through: the pending list is
\* empty by then.
LEMMA EffFileDtor ==
  ASSUME IInv, NEW t \in Threads, FileDtor(t)
  PROVE  /\ Alone(t) /\ Silent /\ UNCHANGED <<abandoned, calls, alloced, ctx>>
         /\ UNCHANGED <<open, flssr, ssrcount, notify, pdr, pdrcount, alive>>
         /\ pc[t] = "dtor" /\ cur[t] = Nil
         /\ \/ /\ pc'[t] = "clear" /\ UNCHANGED <<call, chan>>
               /\ cur'[t] \in interrupted /\ ctx[cur'[t]].fl = call[t].fl
               /\ interrupted' = interrupted \ {cur'[t]}
            \/ /\ pc'[t] = "idle" /\ call'[t].res = "none" /\ UNCHANGED <<cur, interrupted>>
               /\ LET d == FileCid[call[t].fl] IN
                  \/ UNCHANGED chan
                  \/ /\ chan' = [chan EXCEPT ![d] = FALSE]
                     /\ \A g \in open : FileCid[g] = d => flssr[g] # ssrcount[d]
<1> DEFINE f == call[t].fl
           InList(list) == {c \in list : ctx[c].fl = f}
<1>1. /\ Silent /\ UNCHANGED <<abandoned, calls, alloced, ctx>>
      /\ UNCHANGED <<open, flssr, ssrcount, notify, pdr, pdrcount, alive>>
      /\ pc[t] = "dtor" /\ cur[t] = Nil
  BY DEF FileDtor, Silent, dspVars, IInv, Struct, ContextAccounted, Holding
<1>2. InList(pending) = {}
  <2>1. ASSUME NEW u \in Threads, pc[u] \in Holding, ctx[cur[u]].fl = f PROVE FALSE
    <3>1. u # t /\ call[u].fl = f /\ call[t].kind = "release" /\ pc[u] # "idle"
      BY <1>1, <2>1 DEF IInv, Struct, HeldIsOwn, Phases, Holding
    <3> QED BY <1>1, <3>1 DEF IInv, Struct, CloserAlone
  <2> QED BY <2>1 DEF IInv, Struct, PendingExact
<1>3. ASSUME NEW c \in InList(interrupted), interrupted' = interrupted \ {c},
             cur' = [cur EXCEPT ![t] = c], pc' = [pc EXCEPT ![t] = "clear"],
             UNCHANGED <<call, chan>>
      PROVE  Alone(t) /\ pc'[t] = "clear" /\ cur'[t] = c
  BY <1>1, <1>3 DEF Alone, IInv, TypeOK
<1>4. ASSUME pc' = [pc EXCEPT ![t] = "idle"], call' = [call EXCEPT ![t] = NoCall],
             UNCHANGED cur
      PROVE  Alone(t) /\ pc'[t] = "idle" /\ call'[t].res = "none"
  <2>1. (\A u \in Threads \ {t} : call'[u] = call[u]) /\ call'[t] = NoCall
    BY <1>4 DEF IInv, TypeOK
  <2>2. call'[t].res = "none"
    BY <2>1 DEF NoCall
  <2> QED BY <1>1, <1>4, <2>1, <2>2, AloneMoves
<1>5. \/ /\ \E c \in InList(interrupted) : /\ interrupted' = interrupted \ {c}
                                           /\ cur' = [cur EXCEPT ![t] = c]
         /\ pc' = [pc EXCEPT ![t] = "clear"] /\ UNCHANGED <<call, chan>>
      \/ /\ pc' = [pc EXCEPT ![t] = "idle"] /\ call' = [call EXCEPT ![t] = NoCall]
         /\ UNCHANGED <<cur, interrupted>>
         /\ \/ UNCHANGED chan
            \/ /\ chan' = [chan EXCEPT ![FileCid[f]] = FALSE]
               /\ \A g \in open : FileCid[g] = FileCid[f] => flssr[g] # ssrcount[FileCid[f]]
  BY <1>2 DEF FileDtor, Goto
<1> QED BY <1>1, <1>3, <1>4, <1>5

-----------------------------------------------------------------------------
(* Each job once: the invariant of the refinement *)

\* Where the call of a thread has no outcome yet, and where its message has not been
\* sent yet.
Running == {"alloc", "slot", "send", "tx", "wait", "woken", "save"}
Unsent == {"slot", "send", "tx"}

\* A call has an outcome only once it is over, and serial numbers start at 1.
Undecided == \A t \in Threads : pc[t] \in Running => call[t].res = "none"
Positive ==
  /\ \A c \in alloced : ctx[c].ser > 0
  /\ \A t \in Threads : pc[t] = "alloc" => call[t].ser > 0

\* A message is sent once and is in one place: with the DSP, on the channel or in the
\* receive callback.
SentOnce == \A t \in Threads : pc[t] \in Unsent => ~Outstanding(ctx[cur[t]].ser)
OnePlace ==
  /\ \A m, n \in dsp : m.ser = n.ser => m = n
  /\ \A r, q \in rsp : r.msg.ser = q.msg.ser => r = q
  /\ \A x, y \in rx : x.msg.ser = y.msg.ser => x = y
  /\ \A m \in dsp : /\ \A r \in rsp : m.ser # r.msg.ser
                    /\ \A x \in rx : m.ser # x.msg.ser
  /\ \A r \in rsp, x \in rx : r.msg.ser # x.msg.ser

\* An answer comes after the message was sent and is the last of it; retval is set by
\* nothing else.
AnsweredOnce ==
  ~abandoned =>
    /\ \A c \in alloced : /\ ctx[c].by # 0 => ~Outstanding(ctx[c].ser)
                          /\ ctx[c].by = 0 => ctx[c].retval = -1
    /\ \A t \in Threads : pc[t] \in Unsent => ctx[cur[t]].by = 0

Jobs == Undecided /\ Positive /\ SentOnce /\ OnePlace /\ AnsweredOnce

\* A call is outstanding when some message carries its number.
LEMMA OutstandingMessages ==
  /\ \A s : Outstanding(s) <=> \E m \in Messages : m.ser = s
  /\ \A s : Outstanding(s)' <=> \E m \in Messages' : m.ser = s
BY DEF Outstanding, Messages

\* A thread that sends nothing keeps the invariant.
LEMMA JobsAlone ==
  ASSUME IInv, IInv', Calls, Jobs, NEW t \in Threads, Alone(t), Silent,
         ~abandoned' => ~abandoned,
         \A c \in alloced' \ alloced :
           /\ pc[t] = "alloc" /\ c = cur'[t] /\ ctx'[c].ser = call[t].ser
           /\ ctx'[c].by = 0 /\ ctx'[c].retval = -1,
         pc'[t] \in Running => call'[t].res = "none",
         pc'[t] = "alloc" => call'[t].ser > 0,
         pc'[t] \in Unsent =>
           \/ pc[t] \in Unsent /\ cur'[t] = cur[t]
           \/ cur'[t] \in alloced' \ alloced
  PROVE  Jobs'
<1>1. /\ \A u \in Threads : pc[u] \in Unsent => cur[u] \in alloced
      /\ \A u \in Threads : pc'[u] \in Unsent => cur'[u] \in alloced'
  BY ConstantsOK DEF IInv, Struct, ContextAccounted, TypeOK, Holding, Unsent
<1>2. \A s : Outstanding(s)' <=> Outstanding(s)
  BY DEF Outstanding, Silent
<1>3. Undecided'
  BY DEF Jobs, Undecided, Alone
<1>4. Positive'
  BY DEF Jobs, Positive, Alone
<1>5. OnePlace'
  BY DEF Jobs, OnePlace, Silent
<1>6. pc[t] = "alloc" => ~Outstanding(call[t].ser)
  BY OutstandingMessages DEF Calls, Serials
<1>7. SentOnce'
  <2> SUFFICES ASSUME NEW u \in Threads, pc'[u] \in Unsent
               PROVE  ~Outstanding(ctx'[cur'[u]].ser)
    BY <1>2 DEF SentOnce
  <2>1. CASE cur'[u] \in alloced' \ alloced
    BY <1>6, <2>1
  <2>2. CASE cur'[u] \in alloced
    <3>1. pc[u] \in Unsent /\ cur'[u] = cur[u]
      BY <2>2 DEF Alone
    <3>2. cur[u] \in alloced \cap alloced'
      BY <1>1, <2>2, <3>1
    <3> QED BY <3>1, <3>2 DEF Jobs, SentOnce, Alone
  <2> QED BY <1>1, <2>1, <2>2
<1>8. AnsweredOnce'
  <2> SUFFICES ASSUME ~abandoned' PROVE AnsweredOnce'
    BY DEF AnsweredOnce
  <2>1. ASSUME NEW c \in alloced'
        PROVE  /\ ctx'[c].by # 0 => ~Outstanding(ctx'[c].ser)
               /\ ctx'[c].by = 0 => ctx'[c].retval = -1
    <3>1. CASE c \notin alloced
      BY <2>1, <3>1
    <3>2. CASE c \in alloced
      BY <2>1, <3>2 DEF Jobs, AnsweredOnce, Alone
    <3> QED BY <3>1, <3>2
  <2>2. ASSUME NEW u \in Threads, pc'[u] \in Unsent
        PROVE  ctx'[cur'[u]].by = 0
    <3>1. CASE cur'[u] \in alloced' \ alloced
      BY <3>1
    <3>2. CASE cur'[u] \in alloced
      <4>1. pc[u] \in Unsent /\ cur'[u] = cur[u]
        BY <2>2, <3>2 DEF Alone
      <4>2. cur[u] \in alloced \cap alloced'
        BY <1>1, <2>2, <3>2, <4>1
      <4> QED BY <4>1, <4>2 DEF Jobs, AnsweredOnce, Alone
    <3> QED BY <1>1, <2>2, <3>1, <3>2
  <2> QED BY <1>2, <2>1, <2>2 DEF AnsweredOnce
<1> QED BY <1>3, <1>4, <1>5, <1>7, <1>8 DEF Jobs

\* A step beside the threads that gives no answer keeps the invariant, if messages stay in
\* one place.
LEMMA JobsBeside ==
  ASSUME IInv, Jobs, Beside, OnePlace',
         \A c \in Ctxs : ctx'[c].by = ctx[c].by /\ ctx'[c].retval = ctx[c].retval
  PROVE  Jobs'
<1>1. /\ alloced \subseteq Ctxs
      /\ \A u \in Threads : pc[u] \in Unsent => cur[u] \in Ctxs
  BY Held DEF IInv, TypeOK, Holding, Unsent
<1>2. \A s : Outstanding(s)' => Outstanding(s)
  BY OutstandingMessages DEF Beside
<1>3. UNCHANGED <<pc, call, cur, alloced, abandoned>>
  BY DEF Beside, threadVars
<1>4. Undecided' /\ Positive'
  BY <1>1, <1>3 DEF Jobs, Undecided, Positive, Beside
<1>5. SentOnce'
  BY <1>1, <1>2, <1>3 DEF Jobs, SentOnce, Beside
<1>6. AnsweredOnce'
  BY <1>1, <1>2, <1>3 DEF Jobs, AnsweredOnce, Beside
<1> QED BY <1>4, <1>5, <1>6 DEF Jobs

\* The start of a call or of a close hands out the next number.
LEMMA JobsStart ==
  ASSUME IInv, IInv', Calls, Jobs, NEW t \in Threads, NEW f \in Files,
         \/ FileFreeStart(t, f)
         \/ \E k \in {"user", "kernel"}, sc \in Scs : InvokeStart(t, f, k, sc)
  PROVE  Jobs'
<1>1. calls \in Nat
  BY DEF IInv, TypeOK
<1>2. CASE FileFreeStart(t, f)
  BY <1>1, <1>2, EffFileFreeStart, JobsAlone DEF Unsent
<1>3. ASSUME NEW k \in {"user", "kernel"}, NEW sc \in Scs, InvokeStart(t, f, k, sc)
      PROVE  Jobs'
  <2>1. /\ Alone(t) /\ Silent /\ UNCHANGED <<alloced, abandoned>>
        /\ call'[t].ser > 0 /\ pc'[t] \in {"wait", "ret", "alloc"}
        /\ pc'[t] # "ret" => call'[t].res = "none"
    BY <1>1, <1>3, EffInvokeStart
  <2> QED BY <2>1, JobsAlone DEF Unsent, Running
<1> QED BY <1>2, <1>3

\* A message is sent at glink_tx, once.
LEMMA JobsGlinkTx ==
  ASSUME IInv, IInv', Calls, Jobs, NEW t \in Threads, GlinkTx(t)
  PROVE  Jobs'
<1>1. /\ Alone(t) /\ UNCHANGED <<abandoned, interrupted, calls, alloced, cur, ctx, rsp, rx>>
      /\ pc[t] = "tx"
  BY EffGlinkTx
<1>2. CASE pc'[t] = "free" /\ Outcome(t, "err") /\ UNCHANGED dsp
  BY <1>1, <1>2, JobsAlone DEF Silent, Unsent, Running
<1>3. CASE pc'[t] = "wait" /\ UNCHANGED call /\ UNCHANGED dsp
  BY <1>1, <1>3, JobsAlone DEF Silent, Unsent, Running, Jobs, Undecided
<1>4. CASE pc'[t] = "wait" /\ UNCHANGED call /\ dsp' = dsp \cup {MsgOf(t)}
  <2> DEFINE s == ctx[cur[t]].ser
  <2>1. MsgOf(t).ser = s
    BY DEF MsgOf
  <2>2. /\ ~Outstanding(s) /\ (~abandoned => ctx[cur[t]].by = 0)
        /\ \A n \in Messages : n.ser # s
    BY <1>1, OutstandingMessages DEF Jobs, SentOnce, AnsweredOnce, Unsent
  <2>3. \A k : Outstanding(k)' => Outstanding(k) \/ k = s
    BY <1>1, <1>4, <2>1 DEF Outstanding
  <2>4. OnePlace'
    BY <1>1, <1>4, <2>1, <2>2 DEF Jobs, OnePlace, Messages
  <2>5. /\ \A u \in Threads : u # t /\ pc[u] \in Unsent => ctx[cur[u]].ser # s
        /\ \A c \in alloced : c # cur[t] => ctx[c].ser # s
    BY <1>1, Held DEF Calls, Serials, Unsent, Holding
  <2>6. \A u \in Threads \ {t} : pc'[u] = pc[u]
    BY <1>1 DEF Alone
  <2>7. Undecided' /\ Positive'
    BY <1>1, <1>4, <2>6 DEF Jobs, Undecided, Positive, Running
  <2>8. SentOnce'
    BY <1>1, <1>4, <2>3, <2>5, <2>6 DEF Jobs, SentOnce, Unsent
  <2>9. AnsweredOnce'
    <3>1. ~abandoned => \A c \in alloced : /\ ctx[c].by # 0 => ~Outstanding(ctx[c].ser)'
                                           /\ ctx[c].by = 0 => ctx[c].retval = -1
      BY <1>1, <2>2, <2>3, <2>5 DEF Jobs, AnsweredOnce
    <3>2. ~abandoned => \A u \in Threads : pc'[u] \in Unsent => ctx[cur[u]].by = 0
      BY <1>4, <2>6 DEF Jobs, AnsweredOnce, Unsent
    <3> QED BY <1>1, <3>1, <3>2 DEF AnsweredOnce
  <2> QED BY <2>4, <2>7, <2>8, <2>9 DEF Jobs
<1> QED BY <1>2, <1>3, <1>4, EffGlinkTx

\* The other steps of a thread send nothing.
LEMMA JobsThread ==
  ASSUME IInv, IInv', Calls, Jobs, NEW t \in Threads, ThreadStep(t) \/ WaitInterrupted(t)
  PROVE  Jobs'
<1>1. pc[t] \in Running => call[t].res = "none"
  BY DEF Jobs, Undecided
<1>2. CASE ContextAlloc(t)
  <2>1. /\ Alone(t) /\ Silent /\ UNCHANGED abandoned
        /\ pc[t] = "alloc" /\ pc'[t] \in {"slot", "ret"}
        /\ pc'[t] = "slot" => /\ call' = call /\ cur'[t] \in alloced' \ alloced
        /\ \A c \in alloced' \ alloced :
             /\ c = cur'[t] /\ ctx'[c].ser = call[t].ser
             /\ ctx'[c].by = 0 /\ ctx'[c].retval = -1
    BY <1>2, EffContextAlloc
  <2> QED BY <1>1, <2>1, JobsAlone DEF Unsent, Running
<1>3. CASE ContextSlot(t)
  <2>1. /\ Alone(t) /\ Silent /\ UNCHANGED <<abandoned, alloced, cur>>
        /\ pc[t] = "slot" /\ pc'[t] \in {"send", "free"}
        /\ pc'[t] = "send" => call' = call
    BY <1>3, EffContextSlot
  <2> QED BY <1>1, <2>1, JobsAlone DEF Unsent, Running
<1>4. CASE InvokeSend(t)
  <2>1. /\ Alone(t) /\ Silent /\ UNCHANGED <<abandoned, alloced, cur>>
        /\ pc[t] = "send" /\ pc'[t] \in {"tx", "free"}
        /\ pc'[t] = "tx" => call' = call
    BY <1>4, EffInvokeSend
  <2> QED BY <1>1, <2>1, JobsAlone DEF Unsent, Running
<1>5. CASE GlinkTx(t)
  BY <1>5, JobsGlinkTx
<1>6. CASE WaitDone(t)
  BY <1>1, <1>6, EffWaitDone, JobsAlone DEF Unsent, Running
<1>7. CASE PutArgs(t)
  BY <1>7, EffPutArgs, JobsAlone DEF Unsent, Running
<1>8. CASE InvokeReturn(t)
  BY <1>8, EffInvokeReturn, JobsAlone DEF Unsent, Running
<1>9. CASE ContextSaveInterrupted(t)
  BY <1>9, EffContextSaveInterrupted, JobsAlone DEF Unsent, Running
<1>10. CASE ContextUnlink(t)
  BY <1>10, EffContextUnlink, JobsAlone DEF Unsent, Running
<1>11. CASE ContextFree(t)
  <2>1. /\ Alone(t) /\ Silent /\ (~abandoned' => ~abandoned) /\ alloced' \subseteq alloced
        /\ pc'[t] \in {"ret", "dtor"}
    BY <1>11, EffContextFree
  <2> QED BY <2>1, JobsAlone DEF Unsent, Running
<1>12. CASE FileUnhook(t)
  BY <1>12, EffFileUnhook, JobsAlone DEF Unsent, Running
<1>13. CASE FileDtor(t)
  <2>1. /\ Alone(t) /\ Silent /\ UNCHANGED <<abandoned, alloced>>
        /\ pc'[t] \in {"clear", "idle"}
    BY <1>13, EffFileDtor
  <2> QED BY <2>1, JobsAlone DEF Unsent, Running
<1>14. CASE WaitInterrupted(t)
  BY <1>1, <1>14, EffWaitInterrupted, JobsAlone DEF Unsent, Running
<1> QED BY <1>2, <1>3, <1>4, <1>5, <1>6, <1>7, <1>8, <1>9, <1>10, <1>11, <1>12, <1>13,
           <1>14 DEF ThreadStep

-----------------------------------------------------------------------------
(* What the steps of the DSP, the callback and the notifiers do *)

SameAnswers == \A c \in Ctxs : ctx'[c].by = ctx[c].by /\ ctx'[c].retval = ctx[c].retval

\* Opening a file or its channel, a restart, and the calls that it wakes.
LEMMA EffAround ==
  ASSUME IInv,
         \/ \E f \in Files : DeviceOpen(f) \/ ChannelOpen(f)
         \/ \E d \in Cids : SsrShutdown(d) \/ NotifyDrivers(d)
         \/ NotifyPdrDrivers
  PROVE  Beside /\ SameAnswers /\ Silent
<1>1. CASE \/ \E f \in Files : DeviceOpen(f) \/ ChannelOpen(f)
           \/ \E d \in Cids : SsrShutdown(d)
  BY <1>1 DEF DeviceOpen, ChannelOpen, SsrShutdown, Beside, SameAnswers, Silent, Messages,
     threadVars, ctxVars, dspVars
<1>2. ASSUME NEW cs, Complete(cs), UNCHANGED <<threadVars, alloced, interrupted, abandoned,
                                               calls, dspVars>>
      PROVE  Beside /\ SameAnswers /\ Silent
  <2>1. \A c \in Ctxs : /\ ctx'[c].fl = ctx[c].fl /\ ctx'[c].kind = ctx[c].kind
                        /\ ctx'[c].slot = ctx[c].slot /\ ctx'[c].ser = ctx[c].ser
                        /\ ctx'[c].mpid = ctx[c].mpid /\ ctx'[c].by = ctx[c].by
                        /\ ctx'[c].pid = ctx[c].pid /\ ctx'[c].retval = ctx[c].retval
    BY <1>2, Completes
  <2> QED BY <1>2, <2>1 DEF Beside, SameAnswers, Silent, Messages, dspVars
<1>3. CASE \E d \in Cids : NotifyDrivers(d)
  BY <1>2, <1>3 DEF NotifyDrivers
<1>4. CASE NotifyPdrDrivers
  BY <1>2, <1>4 DEF NotifyPdrDrivers
<1> QED BY <1>1, <1>2, <1>3, <1>4

\* A crash, a powerup or the end of the PD takes messages away.
LEMMA EffLoss ==
  ASSUME IInv, \/ \E d \in Cids : SsrPowerup(d) \/ DspCrash(d)
               \/ PdrDown
  PROVE  /\ Beside /\ SameAnswers
         /\ dsp' \subseteq dsp /\ rsp' \subseteq rsp /\ rx' = rx /\ ctx' = ctx
<1>1. /\ dsp' \subseteq dsp /\ rsp' \subseteq rsp /\ rx' = rx /\ ctx' = ctx
      /\ UNCHANGED <<threadVars, alloced, interrupted, abandoned, calls>>
  BY DEF SsrPowerup, DspCrash, PdrDown, ctxVars, chanVars
<1> QED BY <1>1 DEF Beside, SameAnswers, Messages

\* The DSP answers a call, and a release ends what came before it.
LEMMA EffDspAnswer ==
  ASSUME IInv, NEW m \in dsp, DspAnswer(m)
  PROVE  /\ Beside /\ SameAnswers /\ Links /\ rx' = rx /\ ctx' = ctx
         /\ dsp' \subseteq dsp \ {m}
         /\ \E v \in {0, 1} : rsp' = rsp \cup {[msg |-> m, retval |-> v]}
         /\ m.kind = "release" =>
              /\ \A n \in dsp' : n.fl = m.fl => ~(n.ser < m.ser)
              /\ \A r \in rsp : r.msg.fl = m.fl => ~(r.msg.ser < m.ser)
<1>1. PICK v \in {0, 1} : rsp' = rsp \cup {[msg |-> m, retval |-> v]}
  BY DEF DspAnswer
<1>2. /\ dsp' \subseteq dsp \ {m} /\ rx' = rx /\ ctx' = ctx /\ Links
      /\ UNCHANGED <<threadVars, alloced, interrupted, abandoned, calls>>
  BY DEF DspAnswer, ctxVars, chanVars, Links
<1>3. m.kind = "release" =>
        /\ \A n \in dsp' : n.fl = m.fl => ~(n.ser < m.ser)
        /\ \A r \in rsp : r.msg.fl = m.fl => ~(r.msg.ser < m.ser)
  BY DEF DspAnswer
<1>4. Messages' \subseteq Messages
  BY <1>1, <1>2 DEF Messages
<1> QED BY <1>1, <1>2, <1>3, <1>4 DEF Beside, SameAnswers

\* The receive callback takes a response from the channel, or drops it.
LEMMA EffRxCheck ==
  ASSUME IInv, NEW r \in rsp, RxCheck(r)
  PROVE  /\ Beside /\ SameAnswers /\ Links /\ dsp' = dsp /\ ctx' = ctx /\ rsp' = rsp \ {r}
         /\ \A x \in rx : x.msg.cid # r.msg.cid
         /\ \/ rx' = rx
            \/ \E c : rx' = rx \cup {[msg |-> r.msg, retval |-> r.retval, c |-> c]}
<1>1. /\ dsp' = dsp /\ ctx' = ctx /\ rsp' = rsp \ {r} /\ Links
      /\ \A x \in rx : x.msg.cid # r.msg.cid
      /\ UNCHANGED <<threadVars, alloced, interrupted, abandoned, calls>>
  BY DEF RxCheck, ctxVars, chanVars, Links
<1>2. \/ rx' = rx
      \/ \E c : rx' = rx \cup {[msg |-> r.msg, retval |-> r.retval, c |-> c]}
  BY DEF RxCheck
<1>3. Messages' \subseteq Messages
  BY <1>1, <1>2 DEF Messages
<1> QED BY <1>1, <1>2, <1>3 DEF Beside, SameAnswers

\* The receive callback completes the context of the call it has the answer to, as long
\* as no context was freed with its answer outstanding.
LEMMA EffRxNotify ==
  ASSUME IInv, Calls, NEW x \in rx, RxNotify(x)
  PROVE  /\ Beside /\ Links /\ dsp' = dsp /\ rsp' = rsp /\ rx' = rx \ {x}
         /\ ~abandoned =>
              /\ x.c \in alloced /\ ctx[x.c].ser = x.msg.ser
              /\ \A c \in Ctxs : c # x.c => ctx'[c] = ctx[c]
              /\ ctx'[x.c].by = x.msg.ser /\ ctx'[x.c].retval = x.retval
<1> USE DEF RxNotify, chanVars
<1>1. x.msg \in Messages /\ x.msg.slot \in Slots /\ x.msg.slot # NoSlot
  BY MessageType DEF Messages
<1>2. PICK e \in {x.c, table[x.msg.slot]} :
        \/ /\ e \in alloced
           /\ ctx' = [ctx EXCEPT ![e].retval = x.retval, ![e].done = @ + 1,
                                 ![e].by = x.msg.ser]
        \/ e \notin alloced /\ UNCHANGED ctx
  OBVIOUS
<1>3. /\ rx' = rx \ {x} /\ dsp' = dsp /\ rsp' = rsp /\ Links
      /\ UNCHANGED <<threadVars, alloced, interrupted, abandoned, calls>>
      /\ alloced \subseteq Ctxs /\ \A c \in Ctxs : ctx[c] \in Ctx
  BY DEF IInv, TypeOK, Links
<1> HIDE DEF RxNotify
<1>4. ASSUME e \in alloced,
             ctx' = [ctx EXCEPT ![e].retval = x.retval, ![e].done = @ + 1,
                                ![e].by = x.msg.ser]
      PROVE  /\ \A c \in Ctxs : c # e => ctx'[c] = ctx[c]
             /\ ctx'[e].by = x.msg.ser /\ ctx'[e].retval = x.retval
             /\ ctx'[e].fl = ctx[e].fl /\ ctx'[e].kind = ctx[e].kind
             /\ ctx'[e].slot = ctx[e].slot /\ ctx'[e].ser = ctx[e].ser
             /\ ctx'[e].mpid = ctx[e].mpid /\ ctx'[e].pid = ctx[e].pid
  <2>1. ctx' = [ctx EXCEPT ![e] = [ctx[e] EXCEPT !.retval = x.retval,
                  !.done = ctx[e].done + 1, !.by = x.msg.ser]]
    BY <1>3, <1>4 DEF IInv, TypeOK
  <2>2. /\ ctx'[e] = [ctx[e] EXCEPT !.retval = x.retval,
                        !.done = ctx[e].done + 1, !.by = x.msg.ser]
        /\ \A c \in Ctxs : c # e => ctx'[c] = ctx[c]
    BY <1>3, <1>4, <2>1 DEF IInv, TypeOK
  <2>3. ctx[e] \in Ctx
    BY <1>3, <1>4
  <2> QED BY <2>2, <2>3 DEF Ctx
<1>5. Beside
  <2>1. Messages' \subseteq Messages
    BY <1>3 DEF Messages
  <2>2. \A c \in Ctxs : /\ ctx'[c].fl = ctx[c].fl /\ ctx'[c].kind = ctx[c].kind
                        /\ ctx'[c].slot = ctx[c].slot /\ ctx'[c].ser = ctx[c].ser
                        /\ ctx'[c].mpid = ctx[c].mpid /\ ctx'[c].pid = ctx[c].pid
    BY <1>2, <1>4
  <2> QED BY <1>3, <2>1, <2>2 DEF Beside
<1>6. ASSUME ~abandoned PROVE x.c \in alloced /\ ctx[x.c].ser = x.msg.ser /\ e = x.c
  <2>1. x.c \in alloced /\ ctx[x.c].ser = x.msg.ser
    BY <1>6 DEF Calls, Answered
  <2>2. table[x.msg.slot] = x.c
    BY <1>1, <2>1 DEF Calls, MessagesMatch, IInv, Struct, TableExact
  <2> QED BY <1>2, <2>1, <2>2
<1> QED BY <1>2, <1>3, <1>4, <1>5, <1>6

\* Only context_free can give a context back early.
LEMMA OnlyFreeAbandons ==
  ASSUME IInv, Calls, [Next]_vars, ~\E t \in Threads : ContextFree(t)
  PROVE  abandoned' = abandoned
<1>1. CASE \E t \in Threads : ThreadStep(t) \/ WaitInterrupted(t)
  BY <1>1, EffContextAlloc, EffContextSlot, EffInvokeSend, EffGlinkTx, EffWaitDone,
     EffPutArgs, EffInvokeReturn, EffContextSaveInterrupted, EffContextUnlink,
     EffFileUnhook, EffFileDtor, EffWaitInterrupted DEF ThreadStep
<1>2. CASE \/ \E t \in Threads, f \in Files, k \in {"user", "kernel"}, sc \in Scs :
                InvokeStart(t, f, k, sc)
           \/ \E t \in Threads, f \in Files : FileFreeStart(t, f)
  BY <1>2, EffInvokeStart, EffFileFreeStart
<1>3. CASE Beside
  BY <1>3 DEF Beside
<1>4. CASE UNCHANGED vars
  BY <1>4 DEF vars, ctxVars
<1> QED BY <1>1, <1>2, <1>3, <1>4, EffAround, EffLoss, EffDspAnswer, EffRxCheck,
           EffRxNotify DEF Next

-----------------------------------------------------------------------------
(* These steps keep each job where it is once *)

\* A message becomes a response.
LEMMA JobsDspAnswer ==
  ASSUME IInv, Jobs, NEW m \in dsp, DspAnswer(m)
  PROVE  Jobs'
<1>1. PICK v \in {0, 1} : rsp' = rsp \cup {[msg |-> m, retval |-> v]}
  BY EffDspAnswer
<1>2. Beside /\ SameAnswers /\ rx' = rx /\ dsp' \subseteq dsp \ {m}
  BY EffDspAnswer
<1>3. OnePlace'
  BY <1>1, <1>2 DEF Jobs, OnePlace
<1> QED BY <1>2, <1>3, JobsBeside DEF SameAnswers

\* A response becomes one that the callback has validated, or is dropped.
LEMMA JobsRxCheck ==
  ASSUME IInv, Jobs, NEW r \in rsp, RxCheck(r)
  PROVE  Jobs'
<1>1. /\ Beside /\ SameAnswers /\ dsp' = dsp /\ rsp' = rsp \ {r}
      /\ \/ rx' = rx
         \/ \E c : rx' = rx \cup {[msg |-> r.msg, retval |-> r.retval, c |-> c]}
  BY EffRxCheck
<1>2. OnePlace'
  BY <1>1 DEF Jobs, OnePlace
<1> QED BY <1>1, <1>2, JobsBeside DEF SameAnswers

\* The answer to a call is the last of it.
LEMMA JobsRxNotify ==
  ASSUME IInv, Calls, Jobs, NEW x \in rx, RxNotify(x)
  PROVE  Jobs'
<1>1. /\ Beside /\ dsp' = dsp /\ rsp' = rsp /\ rx' = rx \ {x}
      /\ UNCHANGED <<pc, call, cur, alloced, abandoned>>
  BY EffRxNotify DEF Beside, threadVars
<1>2. /\ alloced \subseteq Ctxs
      /\ \A u \in Threads : pc[u] \in Unsent => cur[u] \in alloced
  BY Held DEF IInv, TypeOK, Holding, Unsent
<1>3. \A s : Outstanding(s)' => Outstanding(s)
  BY OutstandingMessages, <1>1 DEF Beside
<1>4. Undecided' /\ Positive' /\ SentOnce'
  BY <1>1, <1>2, <1>3 DEF Jobs, Undecided, Positive, SentOnce, Beside
<1>5. OnePlace'
  BY <1>1 DEF Jobs, OnePlace
<1>6. AnsweredOnce'
  <2> SUFFICES ASSUME ~abandoned PROVE AnsweredOnce'
    BY <1>1 DEF AnsweredOnce
  <2>1. /\ x.c \in alloced /\ ctx[x.c].ser = x.msg.ser
        /\ \A c \in Ctxs : c # x.c => ctx'[c] = ctx[c]
        /\ ctx'[x.c].by = x.msg.ser
    BY EffRxNotify
  <2>2. Outstanding(x.msg.ser) /\ ~Outstanding(x.msg.ser)'
    BY <1>1 DEF Jobs, OnePlace, Outstanding
  <2>3. ctx'[x.c].ser = x.msg.ser /\ x.msg.ser # 0
    BY <1>1, <1>2, <2>1 DEF Beside, Jobs, Positive
  <2>4. \A c \in alloced : /\ ctx'[c].by # 0 => ~Outstanding(ctx[c].ser)'
                           /\ ctx'[c].by = 0 => ctx'[c].retval = -1
    <3> SUFFICES ASSUME NEW c \in alloced
                 PROVE  /\ ctx'[c].by # 0 => ~Outstanding(ctx[c].ser)'
                        /\ ctx'[c].by = 0 => ctx'[c].retval = -1
      OBVIOUS
    <3>1. CASE c = x.c
      BY <2>1, <2>2, <2>3, <3>1
    <3>2. CASE c # x.c
      BY <1>2, <1>3, <2>1, <3>2 DEF Jobs, AnsweredOnce
    <3> QED BY <3>1, <3>2
  <2>5. \A u \in Threads : pc[u] \in Unsent => ctx'[cur[u]].by = 0
    <3>1. \A u \in Threads : pc[u] \in Unsent => cur[u] # x.c
      BY <2>1, <2>2 DEF Jobs, SentOnce
    <3> QED BY <1>2, <2>1, <3>1 DEF Jobs, AnsweredOnce
  <2> QED BY <1>1, <2>4, <2>5 DEF AnsweredOnce
<1> QED BY <1>4, <1>5, <1>6 DEF Jobs

\* Every step of the system does.
LEMMA NextJobs == IInv /\ IInv' /\ Calls /\ Jobs /\ [Next]_vars => Jobs'
<1> SUFFICES ASSUME IInv, IInv', Calls, Jobs, [Next]_vars PROVE Jobs'
  OBVIOUS
<1>1. CASE \/ \E f \in Files : DeviceOpen(f) \/ ChannelOpen(f)
           \/ \E d \in Cids : SsrShutdown(d) \/ NotifyDrivers(d)
           \/ NotifyPdrDrivers
  <2>1. Beside /\ SameAnswers /\ Silent
    BY <1>1, EffAround
  <2>2. OnePlace'
    BY <2>1 DEF Silent, Jobs, OnePlace
  <2> QED BY <2>1, <2>2, JobsBeside DEF SameAnswers
<1>2. CASE \/ \E d \in Cids : SsrPowerup(d) \/ DspCrash(d)
           \/ PdrDown
  <2>1. /\ Beside /\ SameAnswers
        /\ dsp' \subseteq dsp /\ rsp' \subseteq rsp /\ rx' = rx
    BY <1>2, EffLoss
  <2>2. OnePlace'
    BY <2>1 DEF Jobs, OnePlace
  <2> QED BY <2>1, <2>2, JobsBeside DEF SameAnswers
<1>3. CASE \E t \in Threads, f \in Files, k \in {"user", "kernel"}, sc \in Scs :
             InvokeStart(t, f, k, sc)
  BY <1>3, JobsStart
<1>4. CASE \E t \in Threads, f \in Files : FileFreeStart(t, f)
  BY <1>4, JobsStart
<1>5. CASE \E t \in Threads : ThreadStep(t) \/ WaitInterrupted(t)
  BY <1>5, JobsThread
<1>6. CASE \/ \E r \in rsp : RxCheck(r)
           \/ \E x \in rx : RxNotify(x)
           \/ \E m \in dsp : DspAnswer(m)
  BY <1>6, JobsRxCheck, JobsRxNotify, JobsDspAnswer
<1>7. CASE UNCHANGED vars
  <2>1. Beside /\ SameAnswers /\ Silent
    BY <1>7 DEF vars, threadVars, ctxVars, dspVars, Beside, SameAnswers, Silent, Messages
  <2>2. OnePlace'
    BY <2>1 DEF Silent, Jobs, OnePlace
  <2> QED BY <2>1, <2>2, JobsBeside DEF SameAnswers
<1> QED BY <1>1, <1>2, <1>3, <1>4, <1>5, <1>6, <1>7 DEF Next

\* Nothing has been sent at first.
LEMMA InitJobs == Init => Jobs
BY DEF Init, Jobs, Undecided, Positive, SentOnce, OnePlace, AnsweredOnce, Running, Unsent

\* A call is sent once, its message is in one place, and its answer is the last of it.
THEOREM JobsInductive == Spec => []Jobs
BY InitJobs, NextJobs, Inductive, CallsInductive, PTL DEF Spec

-----------------------------------------------------------------------------
(* The refinement of RemoteCall: what a step does to the mapped variables *)

Fresh == {"alloc"} \cup Unsent

\* A thread has a job while it allocates or holds a context, and no two have the same.
LEMMA JobOwner ==
  ASSUME IInv, Calls, Jobs
  PROVE  /\ \A t \in Threads : pc[t] = "alloc" => jobBar[t] = call[t].ser /\ jobBar[t] > 0
         /\ \A t \in Threads : pc[t] \in Holding =>
              jobBar[t] = ctx[cur[t]].ser /\ jobBar[t] > 0
         /\ \A t \in Threads : pc[t] \notin {"alloc"} \cup Holding => jobBar[t] = 0
         /\ \A t, u \in Threads : jobBar[t] = jobBar[u] /\ jobBar[t] # 0 => t = u
         /\ \A t \in Threads : jobBar[t] \in Nat
<1>1. \A t \in Threads : pc[t] = "alloc" => jobBar[t] = call[t].ser /\ jobBar[t] > 0
  BY DEF jobBar, Jobs, Positive
<1>2. \A t \in Threads : pc[t] \in Holding => jobBar[t] = ctx[cur[t]].ser /\ jobBar[t] > 0
  BY Held DEF jobBar, Jobs, Positive, Holding
<1>3. \A t \in Threads : pc[t] \notin {"alloc"} \cup Holding => jobBar[t] = 0
  BY DEF jobBar, IInv, Struct, ContextAccounted
<1>4. ASSUME NEW t \in Threads, NEW u \in Threads, jobBar[t] = jobBar[u], jobBar[t] # 0
      PROVE  t = u
  <2>1. /\ pc[t] \in {"alloc"} \cup Holding /\ pc[u] \in {"alloc"} \cup Holding
    BY <1>3, <1>4
  <2>2. CASE pc[t] = "alloc" /\ pc[u] = "alloc"
    BY <1>1, <1>4, <2>2 DEF Calls, Serials
  <2>3. CASE pc[t] \in Holding /\ pc[u] \in Holding
    BY <1>2, <1>4, <2>3, Held DEF Calls, Serials
  <2>4. CASE pc[t] = "alloc" /\ pc[u] \in Holding
    BY <1>1, <1>2, <1>4, <2>4, Held DEF Calls, Serials
  <2>5. CASE pc[u] = "alloc" /\ pc[t] \in Holding
    BY <1>1, <1>2, <1>4, <2>5, Held DEF Calls, Serials
  <2> QED BY <2>1, <2>2, <2>3, <2>4, <2>5
<1>5. \A t \in Threads : call[t].ser \in Nat /\ (cur[t] # Nil => ctx[cur[t]].ser \in Nat)
  BY DEF IInv, TypeOK, Call, Ctx
<1>6. \A t \in Threads : jobBar[t] \in Nat
  BY <1>5 DEF jobBar
<1> QED BY <1>1, <1>2, <1>3, <1>4, <1>6

\* A step of thread t changes the phase, the outcome and the job of t.
LEMMA BarsOfThread ==
  ASSUME IInv, IInv', NEW t \in Threads, Alone(t)
  PROVE  /\ phaseBar' = [phaseBar EXCEPT ![t] = IF pc'[t] = "idle" THEN "out" ELSE "in"]
         /\ phaseBar[t] = IF pc[t] = "idle" THEN "out" ELSE "in"
         /\ resultBar' = [resultBar EXCEPT ![t] = call'[t].res]
         /\ resultBar[t] = call[t].res
         /\ jobBar' = [jobBar EXCEPT ![t] = jobBar'[t]]
         /\ \A u \in Threads \ {t} : jobBar'[u] = jobBar[u]
<1>1. /\ phaseBar' = [phaseBar EXCEPT ![t] = IF pc'[t] = "idle" THEN "out" ELSE "in"]
      /\ phaseBar[t] = IF pc[t] = "idle" THEN "out" ELSE "in"
  BY DEF phaseBar, Alone
<1>2. /\ resultBar' = [resultBar EXCEPT ![t] = call'[t].res]
      /\ resultBar[t] = call[t].res
  BY DEF resultBar, Alone
<1>3. ASSUME NEW u \in Threads \ {t} PROVE jobBar'[u] = jobBar[u]
  <2>1. cur'[u] = cur[u] /\ pc'[u] = pc[u] /\ call'[u] = call[u]
    BY DEF Alone
  <2>2. cur[u] # Nil => cur[u] \in alloced \cap alloced'
    BY <2>1 DEF IInv, Struct, ContextAccounted
  <2>3. cur[u] # Nil => ctx'[cur[u]].ser = ctx[cur[u]].ser
    BY <2>2 DEF Alone
  <2> QED BY <2>1, <2>3 DEF jobBar
<1>4. jobBar' = [jobBar EXCEPT ![t] = jobBar'[t]]
  <2>1. /\ jobBar = [u \in Threads |-> jobBar[u]]
        /\ jobBar' = [u \in Threads |-> jobBar'[u]]
    BY DEF jobBar
  <2> HIDE DEF jobBar
  <2> QED BY <1>3, <2>1
<1> QED BY <1>1, <1>2, <1>3, <1>4

\* A job is fresh until its message is sent or its call fails.
LEMMA BarsFresh ==
  ASSUME IInv, IInv', Calls, Jobs, NEW t \in Threads, Alone(t)
  PROVE  /\ pc[t] \in Fresh /\ pc'[t] \in Fresh /\ jobBar'[t] = jobBar[t] =>
              freshBar' = freshBar
         /\ pc[t] \notin Fresh /\ pc'[t] \in Fresh =>
              freshBar' = freshBar \cup {jobBar'[t]}
         /\ pc'[t] \notin Fresh => freshBar' = freshBar \ {jobBar[t]}
         /\ pc[t] \notin Fresh => jobBar[t] \notin freshBar
<1>1. /\ freshBar = {jobBar[u] : u \in {v \in Threads : pc[v] \in Fresh}}
      /\ freshBar' = {jobBar'[u] : u \in {v \in Threads : pc'[v] \in Fresh}}
  BY DEF freshBar, Fresh, Unsent
<1>2. \A u \in Threads \ {t} : pc'[u] = pc[u] /\ jobBar'[u] = jobBar[u]
  BY BarsOfThread DEF Alone
<1>3. \A u \in Threads : pc[u] \in Fresh => jobBar[u] # 0
  BY JobOwner DEF Fresh, Unsent, Holding
<1>4. \A u \in Threads : u # t /\ pc[u] \in Fresh => jobBar[u] # jobBar[t]
  BY <1>3, JobOwner
<1> HIDE DEF Fresh
<1> QED BY <1>1, <1>2, <1>4

\* A good answer stays with its context.
LEMMA BarsGood ==
  ASSUME IInv, Calls, NEW t \in Threads, Alone(t),
         \A c \in alloced' \ alloced : ctx'[c].retval = -1
  PROVE  /\ alloced \subseteq alloced' => goodBar' = goodBar
         /\ cur[t] \in alloced /\ alloced' = alloced \ {cur[t]} =>
              goodBar' = goodBar \ {ctx[cur[t]].ser}
<1>1. \A c \in alloced \cap alloced' :
        ctx'[c].ser = ctx[c].ser /\ ctx'[c].by = ctx[c].by /\ ctx'[c].retval = ctx[c].retval
  BY DEF Alone
<1>2. \A c, d \in alloced : ctx[c].ser = ctx[d].ser => c = d
  BY DEF Calls, Serials
<1> QED BY <1>1, <1>2 DEF goodBar

\* The jobs left behind are those of the interrupted list.
LEMMA BarsSaved ==
  ASSUME IInv, IInv', Calls, NEW t \in Threads, Alone(t)
  PROVE  /\ interrupted' = interrupted => savedBar' = savedBar
         /\ \A c \in interrupted : interrupted' = interrupted \ {c} =>
              savedBar' = savedBar \ {<<ctx[c].pid, ctx[c].ser>>}
         /\ \A c \in alloced : interrupted' = interrupted \cup {c} =>
              savedBar' = savedBar \cup {<<ctx[c].pid, ctx[c].ser>>}
         /\ \A c \in interrupted : <<ctx[c].pid, ctx[c].ser>> \in savedBar
<1>1. interrupted \subseteq alloced /\ interrupted' \subseteq alloced'
  BY DEF IInv, Struct, ContextAccounted
<1>2. \A c \in alloced \cap alloced' : ctx'[c].ser = ctx[c].ser /\ ctx'[c].pid = ctx[c].pid
  BY DEF Alone
<1>3. \A c, d \in alloced : ctx[c].ser = ctx[d].ser => c = d
  BY DEF Calls, Serials
<1>4. interrupted' = interrupted => savedBar' = savedBar
  BY <1>1, <1>2 DEF savedBar
<1>5. ASSUME NEW c \in interrupted, interrupted' = interrupted \ {c}
      PROVE  savedBar' = savedBar \ {<<ctx[c].pid, ctx[c].ser>>}
  <2>1. savedBar' = {<<ctx[d].pid, ctx[d].ser>> : d \in interrupted \ {c}}
    BY <1>1, <1>2, <1>5 DEF savedBar
  <2>2. \A d \in interrupted \ {c} : <<ctx[d].pid, ctx[d].ser>> # <<ctx[c].pid, ctx[c].ser>>
    BY <1>1, <1>3
  <2> QED BY <2>1, <2>2 DEF savedBar
<1>6. ASSUME NEW c \in alloced, interrupted' = interrupted \cup {c}
      PROVE  savedBar' = savedBar \cup {<<ctx[c].pid, ctx[c].ser>>}
  BY <1>1, <1>2, <1>6 DEF savedBar
<1>7. \A c \in interrupted : <<ctx[c].pid, ctx[c].ser>> \in savedBar
  BY DEF savedBar
<1> QED BY <1>4, <1>5, <1>6, <1>7

\* What is posted is what is outstanding.
LEMMA BarsPosted ==
  /\ postedBar = {m.ser : m \in Messages} /\ postedBar' = {m.ser : m \in Messages'}
  /\ \A s : s \in postedBar <=> Outstanding(s)
  /\ Silent => postedBar' = postedBar
BY DEF postedBar, Messages, Outstanding, Silent

-----------------------------------------------------------------------------
(* Every step is a step of RemoteCall, or changes nothing there *)

PromiseStep == [Promise!Next]_(Promise!vars)

\* The steps of RemoteCall, while the promise stands.
LEMMA Standing ==
  ASSUME ~abandoned, abandoned' = abandoned,
         \/ \E t \in Threads : \/ Promise!Enter(t)  \/ Promise!Post(t)    \/ Promise!Finish(t)
                               \/ Promise!GiveUp(t) \/ Promise!Reclaim(t) \/ Promise!Leave(t)
         \/ \E s \in postedBar : Promise!Answer(s)
         \/ Promise!Lose
  PROVE  PromiseStep
BY Zenon DEF PromiseStep, Promise!Next

\* A thread goes on with its call and its job.
LEMMA SimStutter ==
  ASSUME IInv, IInv', Calls, Jobs, NEW t \in Threads, Alone(t), Silent,
         UNCHANGED <<interrupted, calls, abandoned>>, alloced \subseteq alloced',
         \A c \in alloced' \ alloced : ctx'[c].retval = -1,
         pc[t] # "idle", pc'[t] # "idle", pc[t] \in Fresh <=> pc'[t] \in Fresh,
         call'[t].res = call[t].res, jobBar'[t] = jobBar[t]
  PROVE  PromiseStep
<1>1. phaseBar' = phaseBar
  BY DEF phaseBar, Alone
<1>2. resultBar' = resultBar
  BY DEF resultBar, Alone
<1>3. jobBar' = jobBar
  <2>1. /\ jobBar = [u \in Threads |-> jobBar[u]]
        /\ jobBar' = [u \in Threads |-> jobBar'[u]]
    BY DEF jobBar
  <2> QED BY <2>1, BarsOfThread
<1>4. freshBar' = freshBar
  BY BarsFresh
<1>5. postedBar' = postedBar /\ goodBar' = goodBar /\ savedBar' = savedBar
  BY BarsPosted, BarsGood, BarsSaved
<1> QED BY <1>1, <1>2, <1>3, <1>4, <1>5 DEF PromiseStep, Promise!vars

\* The outcome of a call is known.
LEMMA SimFinish ==
  ASSUME IInv, IInv', Calls, Jobs, NEW t \in Threads, Alone(t), Silent, ~abandoned,
         UNCHANGED <<interrupted, calls, abandoned, alloced>>,
         pc[t] \in Running, pc'[t] \notin Fresh \cup {"idle"},
         NEW r \in {"ok", "err"}, call'[t].res = r, r = "ok" => jobBar[t] \in goodBar,
         jobBar'[t] \in {jobBar[t], 0}
  PROVE  PromiseStep
<1>1. phaseBar[t] = "in" /\ phaseBar' = phaseBar
  BY DEF phaseBar, Alone, Running
<1>2. resultBar[t] = "none" /\ resultBar' = [resultBar EXCEPT ![t] = r]
  BY BarsOfThread DEF Jobs, Undecided
<1>3. jobBar[t] # 0
  BY JobOwner DEF Running, Holding
<1>4. jobBar' \in {jobBar, [jobBar EXCEPT ![t] = 0]}
  <2>1. jobBar' = [jobBar EXCEPT ![t] = jobBar'[t]] /\ jobBar = [u \in Threads |-> jobBar[u]]
    BY BarsOfThread DEF jobBar
  <2> QED BY <2>1
<1>5. freshBar' = freshBar \ {jobBar[t]}
  BY BarsFresh
<1>6. postedBar' = postedBar /\ goodBar' = goodBar /\ savedBar' = savedBar
  BY BarsPosted, BarsGood, BarsSaved
<1>7. Promise!Finish(t)
  BY <1>1, <1>2, <1>3, <1>4, <1>5, <1>6 DEF Promise!Finish
<1> QED BY <1>7, Standing

\* The start of a call or of a close.
LEMMA SimInvokeStart ==
  ASSUME IInv, IInv', Calls, Jobs, ~abandoned, NEW t \in Threads, NEW f \in Files,
         NEW k \in {"user", "kernel"}, NEW sc \in Scs, InvokeStart(t, f, k, sc)
  PROVE  PromiseStep
<1>1. /\ Alone(t) /\ Silent /\ UNCHANGED <<alloced, abandoned>> /\ pc[t] = "idle"
      /\ cur[t] = Nil /\ calls' = calls + 1 /\ call'[t].ser = calls + 1
  BY EffInvokeStart
<1>2. /\ phaseBar[t] = "out" /\ resultBar' = [resultBar EXCEPT ![t] = call'[t].res]
      /\ jobBar' = [jobBar EXCEPT ![t] = jobBar'[t]] /\ jobBar = [u \in Threads |-> jobBar[u]]
      /\ jobBar[t] = 0
      /\ pc'[t] # "idle" => phaseBar' = [phaseBar EXCEPT ![t] = "in"]
  BY <1>1, BarsOfThread DEF jobBar
<1>3. postedBar' = postedBar /\ goodBar' = goodBar
  BY <1>1, BarsPosted, BarsGood
<1>4. CASE /\ pc'[t] = "wait" /\ call'[t].res = "none"
           /\ \E c \in interrupted : /\ ctx[c].pid = t
                                     /\ cur'[t] = c /\ interrupted' = interrupted \ {c}
  <2>1. PICK c \in interrupted : /\ ctx[c].pid = t
                                 /\ cur'[t] = c /\ interrupted' = interrupted \ {c}
    BY <1>4
  <2>2. savedBar' = savedBar \ {<<t, ctx[c].ser>>} /\ <<t, ctx[c].ser>> \in savedBar
    BY <1>1, <2>1, BarsSaved
  <2>3. jobBar'[t] = ctx[c].ser
    <3>1. c \in alloced \cap alloced' /\ c # Nil
      BY <1>1, <2>1, ConstantsOK DEF IInv, Struct, ContextAccounted, TypeOK
    <3> QED BY <1>1, <1>4, <2>1, <3>1 DEF jobBar, Alone
  <2>4. freshBar' = freshBar
    <3>1. pc[t] \notin Fresh /\ pc'[t] \notin Fresh
      BY <1>1, <1>4 DEF Fresh, Unsent
    <3>2. freshBar' = freshBar \ {jobBar[t]} /\ jobBar[t] \notin freshBar
      BY <1>1, <3>1, BarsFresh
    <3> QED BY <3>2
  <2>5. ctx[c].ser \in {p[2] : p \in {q \in savedBar : q[1] = t}}
    BY <2>2
  <2>6. Promise!Enter(t)
    BY <1>1, <1>2, <1>3, <1>4, <2>2, <2>3, <2>4, <2>5 DEF Promise!Enter
  <2> QED BY <1>1, <2>6, Standing
<1>5. CASE /\ pc'[t] = "ret" /\ call'[t].res = "err" /\ cur'[t] = Nil /\ UNCHANGED interrupted
  <2>1. jobBar'[t] = 0
    BY <1>5 DEF jobBar
  <2>2. jobBar' = jobBar /\ freshBar' = freshBar /\ savedBar' = savedBar
    BY <1>1, <1>2, <1>5, <2>1, BarsFresh, BarsSaved DEF Fresh, Unsent
  <2>3. Promise!Enter(t)
    BY <1>1, <1>2, <1>3, <1>5, <2>2 DEF Promise!Enter
  <2> QED BY <1>1, <2>3, Standing
<1>6. CASE /\ pc'[t] = "alloc" /\ call'[t].res = "none" /\ cur'[t] = Nil
           /\ UNCHANGED interrupted
  <2>1. jobBar'[t] = calls + 1
    BY <1>1, <1>6 DEF jobBar
  <2>2. freshBar' = freshBar \cup {calls + 1} /\ savedBar' = savedBar
    BY <1>1, <1>6, <2>1, BarsFresh, BarsSaved DEF Fresh, Unsent
  <2>3. Promise!Enter(t)
    BY <1>1, <1>2, <1>3, <1>6, <2>1, <2>2 DEF Promise!Enter
  <2> QED BY <1>1, <2>3, Standing
<1> QED BY <1>4, <1>5, <1>6, EffInvokeStart

\* The close of a file is a job of its own, unless there is no channel.
LEMMA SimFileFreeStart ==
  ASSUME IInv, IInv', Calls, Jobs, ~abandoned, NEW t \in Threads, NEW f \in Files,
         FileFreeStart(t, f)
  PROVE  PromiseStep
<1>1. /\ Alone(t) /\ Silent /\ UNCHANGED <<alloced, abandoned, interrupted, cur>>
      /\ pc[t] = "idle" /\ cur[t] = Nil /\ calls' = calls + 1 /\ call'[t].ser = calls + 1
      /\ call'[t].res = "none" /\ pc'[t] \in {"alloc", "unhook"}
  BY EffFileFreeStart
<1>2. /\ phaseBar[t] = "out" /\ resultBar' = [resultBar EXCEPT ![t] = "none"]
      /\ jobBar' = [jobBar EXCEPT ![t] = jobBar'[t]] /\ jobBar = [u \in Threads |-> jobBar[u]]
      /\ jobBar[t] = 0
      /\ phaseBar' = [phaseBar EXCEPT ![t] = "in"]
  BY <1>1, BarsOfThread DEF jobBar
<1>3. postedBar' = postedBar /\ goodBar' = goodBar /\ savedBar' = savedBar
  BY <1>1, BarsPosted, BarsGood, BarsSaved
<1>4. CASE pc'[t] = "unhook"
  <2>1. jobBar'[t] = 0
    BY <1>1, <1>4 DEF jobBar
  <2>2. jobBar' = jobBar /\ freshBar' = freshBar
    BY <1>1, <1>2, <1>4, <2>1, BarsFresh DEF Fresh, Unsent
  <2>3. Promise!Enter(t)
    BY <1>1, <1>2, <1>3, <2>2 DEF Promise!Enter
  <2> QED BY <1>1, <2>3, Standing
<1>5. CASE pc'[t] = "alloc"
  <2>1. jobBar'[t] = calls + 1
    BY <1>1, <1>5 DEF jobBar
  <2>2. freshBar' = freshBar \cup {calls + 1}
    BY <1>1, <1>5, <2>1, BarsFresh DEF Fresh, Unsent
  <2>3. Promise!Enter(t)
    BY <1>1, <1>2, <1>3, <2>1, <2>2 DEF Promise!Enter
  <2> QED BY <1>1, <2>3, Standing
<1> QED BY <1>1, <1>4, <1>5

\* Preparing a call: the job stays fresh until the message is sent, or the call fails.
LEMMA SimPrepare ==
  ASSUME IInv, IInv', Calls, Jobs, ~abandoned, NEW t \in Threads,
         ContextAlloc(t) \/ ContextSlot(t) \/ InvokeSend(t)
  PROVE  PromiseStep
<1>1. CASE ContextAlloc(t)
  <2>1. /\ Alone(t) /\ Silent /\ UNCHANGED <<abandoned, interrupted, calls>>
        /\ pc[t] = "alloc" /\ cur[t] = Nil
    BY <1>1, EffContextAlloc
  <2>2. CASE pc'[t] = "ret" /\ Outcome(t, "err") /\ UNCHANGED <<alloced, cur>>
    <3>1. jobBar'[t] = 0
      BY <2>1, <2>2 DEF jobBar
    <3> QED BY <2>1, <2>2, <3>1, SimFinish DEF Outcome, Running, Fresh, Unsent
  <2>3. CASE /\ pc'[t] = "slot" /\ UNCHANGED call /\ cur'[t] \in Ctxs \ alloced
             /\ alloced' = alloced \cup {cur'[t]}
             /\ ctx'[cur'[t]].ser = call[t].ser /\ ctx'[cur'[t]].retval = -1
    <3>1. jobBar'[t] = jobBar[t]
      BY <2>1, <2>3, ConstantsOK DEF jobBar
    <3> QED BY <2>1, <2>3, <3>1, SimStutter DEF Fresh, Unsent
  <2> QED BY <1>1, <2>2, <2>3, EffContextAlloc
<1>2. ASSUME Alone(t), Silent, UNCHANGED <<abandoned, interrupted, calls, alloced, cur>>,
             pc[t] \in {"slot", "send"},
             \/ pc'[t] \in {"send", "tx"} /\ UNCHANGED call
             \/ pc'[t] = "free" /\ Outcome(t, "err")
      PROVE  PromiseStep
  <2>1. jobBar'[t] = jobBar[t]
    <3>1. cur[t] \in alloced \cap alloced' /\ cur[t] # Nil
      BY <1>2, Held DEF Holding
    <3>2. ctx'[cur[t]].ser = ctx[cur[t]].ser
      BY <1>2, <3>1 DEF Alone
    <3> QED BY <1>2, <3>1, <3>2 DEF jobBar
  <2>2. CASE pc'[t] \in {"send", "tx"} /\ UNCHANGED call
    BY <1>2, <2>1, <2>2, SimStutter DEF Fresh, Unsent
  <2>3. CASE pc'[t] = "free" /\ Outcome(t, "err")
    BY <1>2, <2>1, <2>3, SimFinish DEF Outcome, Running, Fresh, Unsent
  <2> QED BY <1>2, <2>2, <2>3
<1>3. CASE ContextSlot(t)
  BY <1>2, <1>3, EffContextSlot
<1>4. CASE InvokeSend(t)
  BY <1>2, <1>4, EffInvokeSend
<1> QED BY <1>1, <1>3, <1>4

\* The message is posted, or the call fails.
LEMMA SimGlinkTx ==
  ASSUME IInv, IInv', Calls, Jobs, ~abandoned, NEW t \in Threads, GlinkTx(t)
  PROVE  PromiseStep
<1>1. /\ Alone(t) /\ UNCHANGED <<abandoned, interrupted, calls, alloced, cur, ctx, rsp, rx>>
      /\ pc[t] = "tx"
  BY EffGlinkTx
<1>2. jobBar[t] = ctx[cur[t]].ser /\ jobBar[t] > 0
  BY <1>1, JobOwner DEF Holding
<1>3. cur[t] # Nil
  BY <1>1, Held DEF Holding
<1>4. CASE pc'[t] = "free" /\ Outcome(t, "err") /\ UNCHANGED dsp
  <2>1. jobBar'[t] = jobBar[t]
    BY <1>1, <1>3, <1>4 DEF jobBar
  <2> QED BY <1>1, <1>4, <2>1, SimFinish DEF Outcome, Running, Fresh, Unsent, Silent
<1>5. CASE pc'[t] = "wait" /\ UNCHANGED call /\ dsp' \in {dsp, dsp \cup {MsgOf(t)}}
  <2>1. phaseBar' = phaseBar
    BY <1>1, <1>5 DEF phaseBar, Alone
  <2>2. resultBar[t] = "none" /\ resultBar' = resultBar
    BY <1>1, <1>5 DEF resultBar, Jobs, Undecided, Running
  <2>3. jobBar' = jobBar
    <3>1. /\ jobBar = [u \in Threads |-> jobBar[u]]
          /\ jobBar' = [u \in Threads |-> jobBar'[u]]
      BY DEF jobBar
    <3>2. jobBar'[t] = jobBar[t]
      BY <1>1, <1>3, <1>5 DEF jobBar
    <3> QED BY <1>1, <3>1, <3>2, BarsOfThread
  <2>4. freshBar' = freshBar \ {jobBar[t]} /\ jobBar[t] \in freshBar
    <3>1. jobBar[t] \in freshBar
      BY <1>1 DEF freshBar
    <3> QED BY <1>1, <1>5, <3>1, BarsFresh DEF Fresh, Unsent
  <2>5. postedBar' \in {postedBar, postedBar \cup {jobBar[t]}}
    <3>1. MsgOf(t).ser = jobBar[t]
      BY <1>2 DEF MsgOf
    <3> QED BY <1>1, <1>5, <3>1 DEF postedBar
  <2>6. goodBar' = goodBar /\ savedBar' = savedBar
    BY <1>1, BarsGood, BarsSaved
  <2>7. Promise!Post(t)
    BY <1>1, <2>1, <2>2, <2>3, <2>4, <2>5, <2>6 DEF Promise!Post
  <2> QED BY <1>1, <2>7, Standing
<1> QED BY <1>4, <1>5, EffGlinkTx

\* The wait ends with an answer, a wakeup or a signal, and the context is unlinked.
LEMMA SimWait ==
  ASSUME IInv, IInv', Calls, Jobs, ~abandoned, NEW t \in Threads,
         WaitDone(t) \/ WaitInterrupted(t) \/ ContextUnlink(t)
  PROVE  PromiseStep
<1>1. /\ Alone(t) /\ Silent /\ UNCHANGED <<abandoned, interrupted, calls, alloced, cur, call>>
      /\ pc[t] \in {"wait", "free"} /\ pc'[t] \in {"woken", "save", "clear"}
  BY EffWaitDone, EffWaitInterrupted, EffContextUnlink
<1>2. jobBar'[t] = jobBar[t]
  <2>1. cur[t] \in alloced \cap alloced' /\ cur[t] # Nil
    BY <1>1, Held DEF Holding
  <2>2. ctx'[cur[t]].ser = ctx[cur[t]].ser
    BY <1>1, <2>1 DEF Alone
  <2> QED BY <1>1, <2>1, <2>2 DEF jobBar
<1> QED BY <1>1, <1>2, SimStutter DEF Fresh, Unsent

\* Success takes a good answer: retval is 0 only through the answer to this very call.
LEMMA SimPutArgs ==
  ASSUME IInv, IInv', Calls, Jobs, ~abandoned, NEW t \in Threads, PutArgs(t)
  PROVE  PromiseStep
<1>1. /\ Alone(t) /\ Silent /\ UNCHANGED <<abandoned, interrupted, calls, alloced, cur, ctx>>
      /\ pc[t] = "woken" /\ pc'[t] = "free"
  BY EffPutArgs
<1>2. /\ jobBar[t] = ctx[cur[t]].ser /\ cur[t] \in alloced /\ cur[t] # Nil
  BY <1>1, JobOwner, Held DEF Holding
<1>3. jobBar'[t] = jobBar[t]
  BY <1>1, <1>2 DEF jobBar
<1>4. ctx[cur[t]].retval = 0 => jobBar[t] \in goodBar
  <2>1. ctx[cur[t]].by \in {0, ctx[cur[t]].ser}
    BY <1>2 DEF Calls, OwnAnswerUnlessAbandoned, OwnAnswer
  <2>2. ctx[cur[t]].by = 0 => ctx[cur[t]].retval = -1
    BY <1>2 DEF Jobs, AnsweredOnce
  <2> QED BY <1>2, <2>1, <2>2 DEF goodBar
<1>5. CASE Outcome(t, "ok") /\ ctx[cur[t]].retval = 0
  BY <1>1, <1>3, <1>4, <1>5, SimFinish DEF Outcome, Running, Fresh, Unsent
<1>6. CASE Outcome(t, "err")
  BY <1>1, <1>3, <1>6, SimFinish DEF Outcome, Running, Fresh, Unsent
<1> QED BY <1>5, <1>6, EffPutArgs

\* A signal leaves the job behind, under the thread's name.
LEMMA SimContextSaveInterrupted ==
  ASSUME IInv, IInv', Calls, Jobs, ~abandoned, NEW t \in Threads, ContextSaveInterrupted(t)
  PROVE  PromiseStep
<1>1. /\ Alone(t) /\ Silent /\ UNCHANGED <<abandoned, calls, alloced, ctx>>
      /\ pc[t] = "save" /\ pc'[t] = "ret" /\ call'[t].res = "intr"
      /\ cur'[t] = Nil /\ interrupted' = interrupted \cup {cur[t]}
  BY EffContextSaveInterrupted DEF Outcome
<1>2. /\ jobBar[t] = ctx[cur[t]].ser /\ jobBar[t] # 0 /\ cur[t] \in alloced
      /\ ctx[cur[t]].pid = t
  BY <1>1, JobOwner, Held DEF Holding, IInv, Struct, HeldIsOwn
<1>3. phaseBar[t] = "in" /\ phaseBar' = phaseBar
  BY <1>1 DEF phaseBar, Alone
<1>4. resultBar[t] = "none" /\ resultBar' = [resultBar EXCEPT ![t] = "intr"]
  BY <1>1, BarsOfThread DEF Jobs, Undecided, Running
<1>5. jobBar' = [jobBar EXCEPT ![t] = 0]
  <2>1. jobBar'[t] = 0
    BY <1>1 DEF jobBar
  <2> QED BY <1>1, <2>1, BarsOfThread
<1>6. freshBar' = freshBar \ {jobBar[t]}
  BY <1>1, BarsFresh DEF Fresh, Unsent
<1>7. /\ postedBar' = postedBar /\ goodBar' = goodBar
      /\ savedBar' = savedBar \cup {<<t, jobBar[t]>>}
  BY <1>1, <1>2, BarsPosted, BarsGood, BarsSaved
<1>8. Promise!Finish(t)
  BY <1>1, <1>2, <1>3, <1>4, <1>5, <1>6, <1>7 DEF Promise!Finish
<1> QED BY <1>1, <1>8, Standing

\* A context freed with no answer outstanding gives up a job the DSP is through with.
LEMMA SimContextFree ==
  ASSUME IInv, IInv', Calls, Jobs, ~abandoned, NEW t \in Threads, ContextFree(t)
  PROVE  PromiseStep
<1>1. /\ Alone(t) /\ Silent /\ UNCHANGED <<interrupted, calls, call>>
      /\ pc[t] = "clear" /\ pc'[t] \in {"ret", "dtor"} /\ cur'[t] = Nil
      /\ cur[t] \in alloced /\ alloced' = alloced \ {cur[t]}
      /\ abandoned' = (abandoned \/ Outstanding(ctx[cur[t]].ser))
  BY EffContextFree
<1>2. jobBar[t] = ctx[cur[t]].ser /\ jobBar[t] # 0
  BY <1>1, JobOwner DEF Holding
<1>3. CASE Outstanding(ctx[cur[t]].ser)
  <2>1. abandoned'
    BY <1>1, <1>3
  <2> QED BY <2>1, Zenon DEF PromiseStep, Promise!Next
<1>4. CASE ~Outstanding(ctx[cur[t]].ser)
  <2>1. abandoned' = abandoned
    <3>1. ~abandoned' /\ abandoned \in BOOLEAN /\ abandoned' \in BOOLEAN
      BY <1>1, <1>4, Zenon DEF IInv, TypeOK
    <3> QED BY <3>1
  <2>2. phaseBar' = phaseBar /\ resultBar' = resultBar
    BY <1>1 DEF phaseBar, resultBar, Alone
  <2>3. jobBar' = [jobBar EXCEPT ![t] = 0]
    <3>1. jobBar'[t] = 0
      BY <1>1 DEF jobBar
    <3> QED BY <1>1, <3>1, BarsOfThread
  <2>4. freshBar' = freshBar /\ jobBar[t] \notin freshBar
    <3>1. pc[t] \notin Fresh /\ pc'[t] \notin Fresh
      BY <1>1 DEF Fresh, Unsent
    <3>2. freshBar' = freshBar \ {jobBar[t]} /\ jobBar[t] \notin freshBar
      BY <1>1, <3>1, BarsFresh
    <3> QED BY <3>2
  <2>5. postedBar' = postedBar /\ jobBar[t] \notin postedBar
    BY <1>1, <1>2, <1>4, BarsPosted
  <2>6. goodBar' = goodBar \ {jobBar[t]} /\ savedBar' = savedBar
    BY <1>1, <1>2, BarsGood, BarsSaved
  <2>7. Promise!GiveUp(t)
    BY <1>1, <1>2, <2>2, <2>3, <2>4, <2>5, <2>6 DEF Promise!GiveUp
  <2> QED BY <2>1, <2>7, Standing
<1> QED BY <1>3, <1>4

\* A thread without a job leaves the driver.
LEMMA SimLeave ==
  ASSUME IInv, IInv', Calls, Jobs, NEW t \in Threads, Alone(t), Silent, ~abandoned,
         UNCHANGED <<interrupted, calls, abandoned, alloced, cur>>,
         pc[t] \in {"ret", "dtor"}, pc'[t] = "idle", cur[t] = Nil,
         call'[t].res \in {call[t].res, "reset", "none"}
  PROVE  PromiseStep
<1>1. /\ phaseBar[t] = "in" /\ phaseBar' = [phaseBar EXCEPT ![t] = "out"]
      /\ resultBar' = [resultBar EXCEPT ![t] = call'[t].res] /\ resultBar[t] = call[t].res
  BY BarsOfThread
<1>2. jobBar[t] = 0 /\ jobBar'[t] = 0
  BY DEF jobBar
<1>3. jobBar' = jobBar
  <2>1. jobBar' = [jobBar EXCEPT ![t] = jobBar'[t]] /\ jobBar = [u \in Threads |-> jobBar[u]]
    BY BarsOfThread DEF jobBar
  <2> QED BY <1>2, <2>1
<1>4. freshBar' = freshBar
  <2>1. pc[t] \notin Fresh /\ pc'[t] \notin Fresh
    BY DEF Fresh, Unsent
  <2>2. freshBar' = freshBar \ {jobBar[t]} /\ jobBar[t] \notin freshBar
    BY <2>1, BarsFresh
  <2> QED BY <2>2
<1>5. postedBar' = postedBar /\ goodBar' = goodBar /\ savedBar' = savedBar
  BY BarsPosted, BarsGood, BarsSaved
<1>6. Promise!Leave(t)
  BY <1>1, <1>2, <1>3, <1>4, <1>5 DEF Promise!Leave
<1> QED BY <1>6, Standing

\* fastrpc_internal_invoke returns to the user, or to the close of the file.
LEMMA SimInvokeReturn ==
  ASSUME IInv, IInv', Calls, Jobs, ~abandoned, NEW t \in Threads, InvokeReturn(t)
  PROVE  PromiseStep
<1>1. /\ Alone(t) /\ Silent /\ UNCHANGED <<abandoned, interrupted, calls, alloced, cur>>
      /\ pc[t] = "ret" /\ cur[t] = Nil
  BY EffInvokeReturn
<1>2. CASE pc'[t] = "unhook" /\ UNCHANGED call
  <2>1. jobBar'[t] = jobBar[t]
    BY <1>1, <1>2 DEF jobBar
  <2> QED BY <1>1, <1>2, <2>1, SimStutter DEF Fresh, Unsent
<1>3. CASE pc'[t] = "idle" /\ call'[t].res \in {call[t].res, "reset"}
  BY <1>1, <1>3, SimLeave
<1> QED BY <1>2, <1>3, EffInvokeReturn

\* The close of a file takes up the jobs left behind, then leaves.
LEMMA SimClose ==
  ASSUME IInv, IInv', Calls, Jobs, ~abandoned, NEW t \in Threads, FileUnhook(t) \/ FileDtor(t)
  PROVE  PromiseStep
<1>1. CASE FileUnhook(t)
  <2>1. /\ Alone(t) /\ Silent
        /\ UNCHANGED <<abandoned, interrupted, calls, alloced, cur, call>>
        /\ pc[t] = "unhook" /\ pc'[t] = "dtor"
    BY <1>1, EffFileUnhook
  <2>2. cur[t] = Nil
    BY <2>1 DEF IInv, Struct, ContextAccounted, Holding
  <2>3. jobBar'[t] = jobBar[t]
    BY <2>1, <2>2 DEF jobBar
  <2> QED BY <2>1, <2>3, SimStutter DEF Fresh, Unsent
<1>2. CASE FileDtor(t)
  <2>1. /\ Alone(t) /\ Silent /\ UNCHANGED <<abandoned, calls, alloced, ctx>>
        /\ pc[t] = "dtor" /\ cur[t] = Nil
    BY <1>2, EffFileDtor
  <2>2. CASE pc'[t] = "idle" /\ call'[t].res = "none" /\ UNCHANGED <<cur, interrupted>>
    BY <2>1, <2>2, SimLeave
  <2>3. CASE /\ pc'[t] = "clear" /\ UNCHANGED call /\ cur'[t] \in interrupted
             /\ interrupted' = interrupted \ {cur'[t]}
    <3> DEFINE c == cur'[t]
    <3>1. phaseBar[t] = "in" /\ phaseBar' = phaseBar /\ resultBar' = resultBar
      BY <2>1, <2>3 DEF phaseBar, resultBar, Alone
    <3>2. c \in interrupted /\ c # Nil
      BY <2>3, ConstantsOK DEF IInv, TypeOK
    <3>3. jobBar[t] = 0 /\ jobBar'[t] = ctx[c].ser
      BY <2>1, <2>3, <3>2 DEF jobBar
    <3>4. jobBar' = [jobBar EXCEPT ![t] = ctx[c].ser]
      BY <2>1, <3>3, BarsOfThread
    <3>5. freshBar' = freshBar
      <4>1. pc[t] \notin Fresh /\ pc'[t] \notin Fresh
        BY <2>1, <2>3 DEF Fresh, Unsent
      <4>2. freshBar' = freshBar \ {jobBar[t]} /\ jobBar[t] \notin freshBar
        BY <2>1, <4>1, BarsFresh
      <4> QED BY <4>2
    <3>6. /\ savedBar' = savedBar \ {<<ctx[c].pid, ctx[c].ser>>}
          /\ <<ctx[c].pid, ctx[c].ser>> \in savedBar
      BY <2>1, <2>3, <3>2, BarsSaved
    <3>7. postedBar' = postedBar /\ goodBar' = goodBar
      BY <2>1, BarsPosted, BarsGood
    <3> HIDE DEF c
    <3>8. Promise!Reclaim(t)
      <4>1. <<ctx[c].pid, ctx[c].ser>>[2] = ctx[c].ser
        OBVIOUS
      <4>2. \E p \in savedBar : /\ jobBar' = [jobBar EXCEPT ![t] = p[2]]
                                /\ savedBar' = savedBar \ {p}
        BY <3>4, <3>6, <4>1
      <4> QED BY <2>1, <3>1, <3>3, <3>5, <3>7, <4>2 DEF Promise!Reclaim
    <3> QED BY <2>1, <3>8, Standing
  <2> QED BY <1>2, <2>2, <2>3, EffFileDtor
<1> QED BY <1>1, <1>2

\* Beside the threads, only what is posted and what is good can change.
LEMMA BarsBeside ==
  ASSUME IInv, Beside
  PROVE  /\ UNCHANGED <<phaseBar, resultBar, jobBar, freshBar, savedBar, calls, abandoned>>
         /\ postedBar' \subseteq postedBar
         /\ SameAnswers => goodBar' = goodBar
<1>1. /\ UNCHANGED <<pc, call, cur, alloced, interrupted, calls, abandoned>>
      /\ \A c \in Ctxs : ctx'[c].ser = ctx[c].ser /\ ctx'[c].pid = ctx[c].pid
      /\ alloced \subseteq Ctxs /\ interrupted \subseteq Ctxs
      /\ \A t \in Threads : cur[t] # Nil => cur[t] \in Ctxs
  BY DEF Beside, threadVars, IInv, TypeOK
<1>2. phaseBar' = phaseBar /\ resultBar' = resultBar
  BY <1>1 DEF phaseBar, resultBar
<1>3. jobBar' = jobBar
  BY <1>1 DEF jobBar
<1>4. freshBar' = freshBar
  BY <1>1, <1>3 DEF freshBar
<1>5. savedBar' = savedBar
  BY <1>1 DEF savedBar
<1>6. postedBar' \subseteq postedBar
  BY BarsPosted DEF Beside
<1>7. SameAnswers => goodBar' = goodBar
  BY <1>1 DEF goodBar, SameAnswers
<1> QED BY <1>1, <1>2, <1>3, <1>4, <1>5, <1>6, <1>7

\* A step that answers nothing can only lose what was posted.
LEMMA SimBeside ==
  ASSUME IInv, ~abandoned, Beside, SameAnswers
  PROVE  PromiseStep
<1>1. Promise!Lose
  BY BarsBeside DEF Promise!Lose
<1> QED BY <1>1, BarsBeside, Standing

\* The receive callback answers the one job its response is for.
LEMMA SimRxNotify ==
  ASSUME IInv, Calls, Jobs, ~abandoned, NEW x \in rx, RxNotify(x)
  PROVE  PromiseStep
<1> DEFINE s == x.msg.ser
<1>1. /\ Beside /\ dsp' = dsp /\ rsp' = rsp /\ rx' = rx \ {x}
      /\ x.c \in alloced /\ ctx[x.c].ser = s
      /\ \A c \in Ctxs : c # x.c => ctx'[c] = ctx[c]
      /\ ctx'[x.c].by = s /\ ctx'[x.c].retval = x.retval
  BY EffRxNotify
<1>2. /\ s \in postedBar /\ postedBar' = postedBar \ {s} /\ Outstanding(s)
  <2>1. \A m \in dsp : m.ser # s
    BY DEF Jobs, OnePlace
  <2>2. \A r \in rsp : r.msg.ser # s
    BY DEF Jobs, OnePlace
  <2>3. \A y \in rx : y # x => y.msg.ser # s
    BY DEF Jobs, OnePlace
  <2> QED BY <1>1, <2>1, <2>2, <2>3 DEF postedBar, Outstanding
<1>3. ctx[x.c].by = 0 /\ s > 0 /\ alloced \subseteq Ctxs
  BY <1>1, <1>2 DEF Jobs, AnsweredOnce, Positive, IInv, TypeOK
<1>4. goodBar' \in {goodBar, goodBar \cup {s}}
  <2>1. alloced' = alloced /\ \A c \in Ctxs : ctx'[c].ser = ctx[c].ser
    BY <1>1 DEF Beside
  <2>2. \A c \in alloced : c # x.c =>
          (ctx'[c].by = ctx'[c].ser /\ ctx'[c].retval = 0
             <=> ctx[c].by = ctx[c].ser /\ ctx[c].retval = 0)
    BY <1>1, <1>3
  <2>3. ~(ctx[x.c].by = ctx[x.c].ser)
    BY <1>1, <1>3
  <2>4. CASE x.retval = 0
    <3>1. goodBar' = goodBar \cup {s}
      BY <1>1, <1>3, <2>1, <2>2, <2>3, <2>4 DEF goodBar
    <3> QED BY <3>1
  <2>5. CASE x.retval # 0
    <3>1. goodBar' = goodBar
      BY <1>1, <1>3, <2>1, <2>2, <2>3, <2>5 DEF goodBar
    <3> QED BY <3>1
  <2> QED BY <2>4, <2>5
<1> HIDE DEF s
<1>5. Promise!Answer(s)
  BY <1>1, <1>2, <1>4, BarsBeside DEF Promise!Answer
<1> QED BY <1>1, <1>2, <1>5, BarsBeside, Standing

\* Every step of the driver is a step of RemoteCall, or one that RemoteCall does not see.
LEMMA NextPromise ==
  IInv /\ IInv' /\ Calls /\ Jobs /\ [Next]_vars => [Promise!Next]_(Promise!vars)
<1> SUFFICES ASSUME IInv, IInv', Calls, Jobs, [Next]_vars PROVE PromiseStep
  BY DEF PromiseStep
<1>1. CASE abandoned
  <2>1. abandoned'
    <3>1. abandoned' = abandoned \/ \E t \in Threads : ContextFree(t)
      BY OnlyFreeAbandons
    <3>2. ASSUME NEW t \in Threads, ContextFree(t) PROVE abandoned'
      BY <1>1, <3>2 DEF ContextFree
    <3> QED BY <1>1, <3>1, <3>2
  <2> QED BY <2>1, Zenon DEF PromiseStep, Promise!Next
<1>2. CASE ~abandoned
  <2>1. CASE \/ \E f \in Files : DeviceOpen(f) \/ ChannelOpen(f)
             \/ \E d \in Cids : SsrShutdown(d) \/ NotifyDrivers(d)
             \/ NotifyPdrDrivers
    BY <1>2, <2>1, EffAround, SimBeside
  <2>2. CASE \/ \E d \in Cids : SsrPowerup(d) \/ DspCrash(d)
             \/ PdrDown
    BY <1>2, <2>2, EffLoss, SimBeside
  <2>3. CASE \E t \in Threads, f \in Files, k \in {"user", "kernel"}, sc \in Scs :
               InvokeStart(t, f, k, sc)
    BY <1>2, <2>3, SimInvokeStart
  <2>4. CASE \E t \in Threads, f \in Files : FileFreeStart(t, f)
    BY <1>2, <2>4, SimFileFreeStart
  <2>5. CASE \E t \in Threads : ThreadStep(t) \/ WaitInterrupted(t)
    BY <1>2, <2>5, SimPrepare, SimGlinkTx, SimWait, SimPutArgs, SimContextSaveInterrupted,
       SimContextFree, SimInvokeReturn, SimClose DEF ThreadStep
  <2>6. CASE \/ \E r \in rsp : RxCheck(r)
             \/ \E m \in dsp : DspAnswer(m)
    BY <1>2, <2>6, EffRxCheck, EffDspAnswer, SimBeside
  <2>7. CASE \E x \in rx : RxNotify(x)
    BY <1>2, <2>7, SimRxNotify
  <2>8. CASE UNCHANGED vars
    <3>1. Beside /\ SameAnswers
      BY <2>8 DEF vars, threadVars, ctxVars, dspVars, Beside, SameAnswers, Messages
    <3> QED BY <1>2, <3>1, SimBeside
  <2> QED BY <2>1, <2>2, <2>3, <2>4, <2>5, <2>6, <2>7, <2>8 DEF Next
<1> QED BY <1>1, <1>2

\* At first nobody is in the driver and no job has been given out.
LEMMA InitPromise == Init => Promise!Init
BY DEF Init, Promise!Init, phaseBar, resultBar, jobBar, freshBar, postedBar, goodBar,
   savedBar, NoCall

\* The driver implements RemoteCall: for any number of threads, files, DSPs and contexts, a
\* job is posted once at most and answered once at most, a call reports success only on
\* the strength of its own answer, an interrupted call is picked up by the same thread, and
\* a job is given up only when the DSP is through with it, until a context is freed early.
THEOREM KeepsPromiseHolds == Spec => KeepsPromise
BY InitPromise, NextPromise, Inductive, CallsInductive, JobsInductive, PTL
DEF Spec, KeepsPromise, Promise!Spec

-----------------------------------------------------------------------------
(* The ordinary paths: a context is freed early only after a restart or a failed release *)

\* Nothing has been restarted, and no context freed early.
Ordinary ==
  /\ ~abandoned /\ pdrcount = 0
  /\ \A d \in Cids : ssrcount[d] = 0 /\ alive[d]

\* What the notifiers work on is there only after a restart.
Counted ==
  /\ pdr => pdrcount > 0
  /\ \A d \in Cids : d \in notify \/ ~up[d] => ssrcount[d] > 0
  /\ \A f \in Files : flssr[f] <= ssrcount[FileCid[f]]

\* A caller is woken by the answer to its call alone, and frees its context with no
\* answer outstanding.
WokenByAnswer ==
  /\ \A c \in alloced : ctx[c].done > 0 => ctx[c].by # 0
  /\ \A t \in Threads : pc[t] = "woken" => ctx[cur[t]].by # 0
  /\ \A t \in Threads : pc[t] \in {"free", "clear"} /\ call[t].kind # "release" =>
       ~Outstanding(ctx[cur[t]].ser)

\* A file with messages in flight has its channel, until it leaves me->drivers.
ChannelThere == \A m \in Messages : m.fl \in open => chan[FileCid[m.fl]]

\* The release of the process is the youngest call of its file ...
ReleaseYoungest ==
  /\ \A t \in Threads : call[t].kind = "release" =>
       /\ pc[t] \in {"alloc"} \cup Unsent =>
            \A c \in interrupted : ctx[c].fl = call[t].fl => ctx[c].ser < call[t].ser
       /\ pc[t] \in Unsent => ctx[cur[t]].ser = call[t].ser
  /\ \A m, n \in Messages : m.kind = "release" /\ n.fl = m.fl => n.ser <= m.ser

\* ... its answer is behind all the others of the file ...
ReleaseBehind ==
  /\ \A r \in rsp : r.msg.kind = "release" =>
       /\ \A n \in dsp : n.fl # r.msg.fl
       /\ \A q \in rsp : q.msg.fl = r.msg.fl => q = r
  /\ \A x \in rx : x.msg.kind = "release" =>
       /\ \A n \in dsp : n.fl # x.msg.fl
       /\ \A q \in rsp : q.msg.fl # x.msg.fl
       /\ \A y \in rx : y.msg.fl = x.msg.fl => y = x

\* ... so that a release that succeeded leaves nothing of the file in flight.
Gone(f) == \A m \in Messages : m.fl # f
ReleasedClean ==
  \A t \in Threads : call[t].kind = "release" =>
    /\ pc[t] \in {"wait", "woken"} /\ ctx[cur[t]].retval = 0 => Gone(call[t].fl)
    /\ pc[t] \in {"free", "clear", "ret", "unhook", "dtor"} /\ call[t].res # "err" =>
         Gone(call[t].fl)

InOrder ==
  WokenByAnswer /\ ChannelThere /\ ReleaseYoungest /\ ReleaseBehind /\ ReleasedClean

Orderly == Counted /\ (Ordinary => InOrder)

\* The counters of restarts never go back, and what the notifiers do follows one.
LEMMA CountedStep ==
  ASSUME IInv, Counted, [Next]_vars
  PROVE  /\ Counted'
         /\ Ordinary' => Ordinary
         /\ Ordinary' => ~ \/ \E d \in Cids : \/ SsrShutdown(d) \/ NotifyDrivers(d)
                                              \/ SsrPowerup(d) \/ DspCrash(d)
                           \/ PdrDown \/ NotifyPdrDrivers
<1> DEFINE Same == /\ UNCHANGED <<ssrcount, alive, pdr, pdrcount, notify, up>>
                   /\ abandoned => abandoned'
                   /\ flssr' = flssr \/ \E f \in Files :
                        flssr' = [flssr EXCEPT ![f] = ssrcount[FileCid[f]]]
           Restart == \/ \E d \in Cids : \/ SsrShutdown(d) \/ NotifyDrivers(d)
                                         \/ SsrPowerup(d) \/ DspCrash(d)
                      \/ PdrDown \/ NotifyPdrDrivers
<1>1. /\ ssrcount \in [Cids -> Nat] /\ flssr \in [Files -> Nat] /\ pdrcount \in Nat
      /\ alive \in [Cids -> BOOLEAN] /\ up \in [Cids -> BOOLEAN]
      /\ \A f \in Files : FileCid[f] \in Cids
  BY ConstantsOK DEF IInv, TypeOK
<1>2. ASSUME Same PROVE Counted' /\ (Ordinary' => Ordinary)
  <2>1. Counted'
    BY <1>1, <1>2 DEF Counted
  <2>2. Ordinary' => Ordinary
    BY <1>2 DEF Ordinary
  <2> QED BY <2>1, <2>2
<1>3. CASE \E d \in Cids : SsrShutdown(d)
  <2>1. PICK d \in Cids : SsrShutdown(d)
    BY <1>3
  <2>2. /\ ssrcount' = [ssrcount EXCEPT ![d] = @ + 1] /\ notify' = notify \cup {d}
        /\ up' = [up EXCEPT ![d] = FALSE] /\ UNCHANGED <<flssr, pdr, pdrcount>>
    BY <2>1 DEF SsrShutdown
  <2>3. \A e \in Cids : /\ ssrcount'[e] >= ssrcount[e] /\ ssrcount'[e] \in Nat
                        /\ ssrcount'[e] # ssrcount[e] => ssrcount'[e] > 0
    BY <1>1, <2>2
  <2>4. ssrcount'[d] > 0 /\ \A e \in Cids : e # d => up'[e] = up[e]
    BY <1>1, <2>2
  <2>5. Counted'
    <3>1. \A e \in Cids : e \in notify' \/ ~up'[e] => ssrcount'[e] > 0
      BY <1>1, <2>2, <2>3, <2>4 DEF Counted
    <3>2. \A f \in Files : flssr'[f] <= ssrcount'[FileCid[f]]
      BY <1>1, <2>2, <2>3 DEF Counted
    <3> QED BY <2>2, <3>1, <3>2 DEF Counted
  <2> QED BY <2>4, <2>5 DEF Ordinary
<1>4. ASSUME NEW d \in Cids, SsrPowerup(d) \/ NotifyDrivers(d)
      PROVE  Counted' /\ ~Ordinary'
  <2>1. /\ UNCHANGED <<ssrcount, flssr, pdr, pdrcount>> /\ (~up[d] \/ d \in notify)
        /\ notify' \subseteq notify /\ \A e \in Cids : up[e] => up'[e]
    BY <1>1, <1>4 DEF SsrPowerup, NotifyDrivers
  <2>2. ssrcount[d] > 0
    BY <2>1 DEF Counted
  <2>3. Counted'
    BY <1>1, <2>1 DEF Counted
  <2> QED BY <2>1, <2>2, <2>3 DEF Ordinary
<1>5. ASSUME NEW d \in Cids, DspCrash(d)
      PROVE  Counted' /\ ~Ordinary'
  <2>1. ~alive'[d] /\ UNCHANGED <<ssrcount, flssr, pdr, pdrcount, notify, up>>
    BY <1>1, <1>5 DEF DspCrash, chanVars
  <2> QED BY <2>1 DEF Counted, Ordinary
<1>6. CASE PdrDown \/ NotifyPdrDrivers
  <2>1. /\ pdrcount' > 0 /\ pdrcount' \in Nat
        /\ UNCHANGED <<ssrcount, flssr, notify, up>>
    BY <1>1, <1>6 DEF PdrDown, NotifyPdrDrivers, Counted
  <2> QED BY <2>1 DEF Counted, Ordinary
<1>7. CASE Restart
  BY <1>3, <1>4, <1>5, <1>6, <1>7
<1>8. ASSUME NEW f \in Files, DeviceOpen(f) \/ ChannelOpen(f) PROVE Same
  BY <1>8 DEF DeviceOpen, ChannelOpen, ctxVars, dspVars
<1>9. ASSUME \/ \E t \in Threads, f \in Files, k \in {"user", "kernel"}, sc \in Scs :
                  InvokeStart(t, f, k, sc)
             \/ \E t \in Threads, f \in Files : FileFreeStart(t, f)
             \/ \E t \in Threads : ThreadStep(t) \/ WaitInterrupted(t)
             \/ \E r \in rsp : RxCheck(r)
             \/ \E x \in rx : RxNotify(x)
             \/ \E m \in dsp : DspAnswer(m)
             \/ UNCHANGED vars
      PROVE  Same
  <2> USE DEF chanVars, dspVars, ctxVars
  <2>1. CASE \E t \in Threads, f \in Files, k \in {"user", "kernel"}, sc \in Scs :
               InvokeStart(t, f, k, sc)
    BY <2>1 DEF InvokeStart
  <2>2. CASE \E t \in Threads, f \in Files : FileFreeStart(t, f)
    BY <2>2 DEF FileFreeStart
  <2>3. CASE \E r \in rsp : RxCheck(r)
    BY <2>3 DEF RxCheck
  <2>4. CASE \E x \in rx : RxNotify(x)
    BY <2>4 DEF RxNotify
  <2>5. CASE \E m \in dsp : DspAnswer(m)
    BY <2>5 DEF DspAnswer
  <2>6. CASE UNCHANGED vars
    BY <2>6 DEF vars
  <2>7. ASSUME NEW t \in Threads, ThreadStep(t) \/ WaitInterrupted(t) PROVE Same
    <3>1. CASE ContextAlloc(t) \/ ContextSlot(t) \/ InvokeSend(t) \/ GlinkTx(t)
      BY <3>1 DEF ContextAlloc, ContextSlot, InvokeSend, GlinkTx
    <3>2. CASE WaitDone(t) \/ PutArgs(t) \/ InvokeReturn(t) \/ WaitInterrupted(t)
      BY <3>2 DEF WaitDone, PutArgs, InvokeReturn, WaitInterrupted
    <3>3. CASE ContextSaveInterrupted(t) \/ ContextUnlink(t)
      BY <3>3 DEF ContextSaveInterrupted, ContextUnlink
    <3>5. CASE ContextFree(t)
      <4>1. UNCHANGED <<ssrcount, alive, pdr, pdrcount, notify, up, flssr>>
        BY <3>5 DEF ContextFree
      <4>2. abandoned => abandoned'
        BY <3>5, EffContextFree, Zenon
      <4> QED BY <4>1, <4>2
    <3>4. CASE FileUnhook(t) \/ FileDtor(t)
      BY <3>4 DEF FileUnhook, FileDtor
    <3> QED BY <2>7, <3>1, <3>2, <3>3, <3>4, <3>5 DEF ThreadStep
  <2> QED BY <1>9, <2>1, <2>2, <2>3, <2>4, <2>5, <2>6, <2>7
<1>10. CASE ~Restart
  <2>1. Same
    BY <1>8, <1>9, <1>10 DEF Next
  <2> QED BY <1>2, <1>10, <2>1
<1> QED BY <1>7, <1>10

\* What is in flight belongs to a context, saved or held by a thread in the same file.
LEMMA MessageOwner ==
  ASSUME IInv, Calls, ~abandoned, NEW m \in Messages
  PROVE  \E c \in alloced :
           /\ ctx[c].ser = m.ser /\ ctx[c].fl = m.fl /\ ctx[c].kind = m.kind
           /\ \/ c \in interrupted
              \/ \E u \in Threads : pc[u] \in Holding /\ cur[u] = c /\ call[u].fl = m.fl
<1>1. PICK c \in alloced : ctx[c].ser = m.ser
  BY DEF Calls, Answered
<1>2. ctx[c].fl = m.fl /\ ctx[c].kind = m.kind
  BY <1>1 DEF Calls, MessagesMatch
<1>3. \/ c \in interrupted
      \/ \E u \in Threads : pc[u] \in Holding /\ cur[u] = c
  BY ConstantsOK DEF IInv, TypeOK, Struct, ContextAccounted
<1> QED BY <1>1, <1>2, <1>3 DEF IInv, Struct, HeldIsOwn

\* A release in flight is that of a thread that is closing the file.
LEMMA ReleaseOwner ==
  ASSUME IInv, Calls, ~abandoned, WokenByAnswer, NEW m \in Messages, m.kind = "release"
  PROVE  \E u \in Threads : /\ pc[u] \in Holding /\ call[u].kind = "release"
                            /\ call[u].fl = m.fl /\ ctx[cur[u]].ser = m.ser
<1>1. PICK c \in alloced :
        /\ ctx[c].ser = m.ser /\ ctx[c].kind = "release"
        /\ \/ c \in interrupted
           \/ \E u \in Threads : pc[u] \in Holding /\ cur[u] = c /\ call[u].fl = m.fl
  BY MessageOwner
<1>2. PICK u \in Threads : pc[u] \in Holding /\ cur[u] = c /\ call[u].fl = m.fl
  BY <1>1 DEF IInv, Struct, OneSavedCall
<1>3. CASE pc[u] = "clear"
  <2>1. Outstanding(ctx[cur[u]].ser)
    BY <1>1, <1>2, OutstandingMessages
  <2> QED BY <1>1, <1>2, <1>3, <2>1 DEF WokenByAnswer
<1>4. CASE pc[u] # "clear"
  BY <1>1, <1>2, <1>4 DEF IInv, Struct, HeldIsOwn
<1> QED BY <1>3, <1>4

\* A thread that is about to send finds no release of its file in flight.
LEMMA NoReleaseAhead ==
  ASSUME IInv, Calls, Jobs, ~abandoned, WokenByAnswer, NEW t \in Threads, pc[t] \in Unsent,
         NEW m \in Messages, m.kind = "release"
  PROVE  m.fl # call[t].fl
<1> SUFFICES ASSUME m.fl = call[t].fl PROVE FALSE
  OBVIOUS
<1>1. PICK u \in Threads : /\ pc[u] \in Holding /\ call[u].kind = "release"
                           /\ call[u].fl = m.fl /\ ctx[cur[u]].ser = m.ser
  BY ReleaseOwner
<1>2. u # t
  BY <1>1, OutstandingMessages DEF Jobs, SentOnce
<1>3. pc[u] # "idle" /\ pc[t] # "idle"
  BY <1>1 DEF Holding, Unsent
<1> QED BY <1>1, <1>2, <1>3 DEF IInv, Struct, CloserAlone

\* A thread that closes a file is alone in it, and finds only saved calls of it in flight.
LEMMA CloserFinds ==
  ASSUME IInv, Calls, Jobs, ~abandoned, NEW t \in Threads, pc[t] \in Unsent,
         call[t].kind = "release", NEW m \in Messages, m.fl = call[t].fl
  PROVE  \E c \in interrupted : ctx[c].fl = call[t].fl /\ ctx[c].ser = m.ser
<1>1. PICK c \in alloced :
        /\ ctx[c].ser = m.ser /\ ctx[c].fl = m.fl
        /\ \/ c \in interrupted
           \/ \E u \in Threads : pc[u] \in Holding /\ cur[u] = c /\ call[u].fl = m.fl
  BY MessageOwner
<1>2. ASSUME NEW u \in Threads, pc[u] \in Holding, cur[u] = c, call[u].fl = m.fl
      PROVE  FALSE
  <2>1. u # t
    BY <1>1, <1>2, OutstandingMessages DEF Jobs, SentOnce
  <2>2. pc[u] # "idle" /\ pc[t] # "idle"
    BY <1>2 DEF Holding, Unsent
  <2> QED BY <1>2, <2>1, <2>2 DEF IInv, Struct, CloserAlone
<1> QED BY <1>1, <1>2

\* What thread t has to see to for the invariant, when it sends nothing: it is woken or
\* done by an answer, and its release comes last and ends clean.
Careful(t) ==
  /\ pc'[t] = "woken" => cur'[t] = cur[t] /\ ctx[cur[t]].done > 0
  /\ pc'[t] \in {"free", "clear"} /\ call'[t].kind # "release" =>
       cur'[t] = cur[t] /\ ~Outstanding(ctx[cur[t]].ser)
  /\ call'[t].kind = "release" =>
       /\ pc'[t] \in {"alloc"} \cup Unsent =>
            \A c \in interrupted' : ctx'[c].fl = call'[t].fl => ctx'[c].ser < call'[t].ser
       /\ pc'[t] \in Unsent => ctx'[cur'[t]].ser = call'[t].ser
       /\ pc'[t] \in {"wait", "woken"} /\ ctx'[cur'[t]].retval = 0 => Gone(call'[t].fl)
       /\ pc'[t] \in {"free", "clear", "ret", "unhook", "dtor"} /\ call'[t].res # "err" =>
            Gone(call'[t].fl)

\* Then the invariant is kept.
LEMMA OrderAlone ==
  ASSUME IInv, IInv', Calls, Jobs, ~abandoned, InOrder, NEW t \in Threads, Alone(t), Silent,
         \A c \in alloced' \ alloced : ctx'[c].done = 0,
         \A c \in interrupted' \ interrupted : pc[t] = "save" /\ c = cur[t],
         ChannelThere', Careful(t),
         pc'[t] \in {"woken", "free"} => pc[t] \in Holding,
         pc'[t] = "clear" => pc[t] \in Holding \/ call'[t].kind = "release"
  PROVE  InOrder'
<1>1. \A u \in Threads : u # t =>
        /\ pc'[u] = pc[u] /\ cur'[u] = cur[u] /\ call'[u] = call[u]
        /\ pc[u] \in Holding =>
             /\ cur[u] \in alloced \cap alloced'
             /\ ctx'[cur[u]].ser = ctx[cur[u]].ser /\ ctx'[cur[u]].by = ctx[cur[u]].by
             /\ ctx'[cur[u]].retval = ctx[cur[u]].retval
  <2>1. \A u \in Threads : /\ pc[u] \in Holding => cur[u] \in alloced
                           /\ pc'[u] \in Holding => cur'[u] \in alloced'
    BY ConstantsOK DEF IInv, TypeOK, Struct, ContextAccounted
  <2> QED BY <2>1 DEF Alone
<1>2. Messages' = Messages /\ \A s : Outstanding(s)' <=> Outstanding(s)
  BY DEF Silent, Messages, Outstanding
<1>3. \A f : Gone(f)' <=> Gone(f)
  BY <1>2 DEF Gone
<1>4. /\ interrupted' \cap interrupted \subseteq alloced \cap alloced'
      /\ (pc[t] \in Holding => cur[t] \in alloced)
      /\ \A u \in Threads : pc'[u] \in Holding => cur'[u] \in alloced'
  BY ConstantsOK DEF IInv, TypeOK, Struct, ContextAccounted
<1>5. WokenByAnswer'
  <2>1. \A c \in alloced' : ctx'[c].done > 0 => ctx'[c].by # 0
    BY DEF InOrder, WokenByAnswer, Alone
  <2>2. ASSUME NEW u \in Threads, pc'[u] = "woken" PROVE ctx'[cur'[u]].by # 0
    <3>1. CASE u = t
      BY <1>4, <2>2, <3>1 DEF InOrder, WokenByAnswer, Alone, Careful, Holding
    <3>2. CASE u # t
      BY <1>1, <2>2, <3>2 DEF InOrder, WokenByAnswer, Holding
    <3> QED BY <3>1, <3>2
  <2>3. ASSUME NEW u \in Threads, pc'[u] \in {"free", "clear"}, call'[u].kind # "release"
        PROVE  ~Outstanding(ctx'[cur'[u]].ser)
    <3>1. CASE u = t
      <4>1. cur[t] \in alloced \cap alloced' /\ cur'[t] = cur[t]
        BY <1>4, <2>3, <3>1 DEF Careful, Holding
      <4> QED BY <2>3, <3>1, <4>1 DEF Careful, Alone
    <3>2. CASE u # t
      BY <1>1, <2>3, <3>2 DEF InOrder, WokenByAnswer, Holding
    <3> QED BY <3>1, <3>2
  <2> QED BY <1>2, <2>1, <2>2, <2>3 DEF WokenByAnswer
<1>6. ReleaseYoungest'
  <2> SUFFICES ASSUME NEW u \in Threads, call'[u].kind = "release"
               PROVE  /\ pc'[u] \in {"alloc"} \cup Unsent =>
                           \A c \in interrupted' :
                             ctx'[c].fl = call'[u].fl => ctx'[c].ser < call'[u].ser
                      /\ pc'[u] \in Unsent => ctx'[cur'[u]].ser = call'[u].ser
    BY <1>2 DEF InOrder, ReleaseYoungest
  <2>1. CASE u = t
    BY <2>1 DEF Careful
  <2>2. CASE u # t
    <3>1. ASSUME pc'[u] \in {"alloc"} \cup Unsent, NEW c \in interrupted',
                 ctx'[c].fl = call'[u].fl
          PROVE  ctx'[c].ser < call'[u].ser
      <4>1. CASE c \in interrupted
        BY <1>1, <1>4, <2>2, <3>1, <4>1 DEF InOrder, ReleaseYoungest, Alone
      <4>2. CASE c \notin interrupted
        <5>1. pc[t] = "save" /\ c = cur[t] /\ c \in alloced'
          BY <4>2 DEF IInv, Struct, ContextAccounted
        <5>2. ctx[c].fl = call[u].fl
          BY <1>1, <1>4, <2>2, <3>1, <5>1 DEF Alone, Holding
        <5>3. call[t].fl = call[u].fl /\ pc[t] # "idle" /\ pc[u] # "idle"
          BY <1>1, <2>2, <3>1, <5>1, <5>2 DEF IInv, Struct, HeldIsOwn, Holding, Unsent
        <5> QED BY <1>1, <2>2, <5>3 DEF IInv, Struct, CloserAlone
      <4> QED BY <4>1, <4>2
    <3>2. pc'[u] \in Unsent => ctx'[cur'[u]].ser = call'[u].ser
      BY <1>1, <2>2 DEF InOrder, ReleaseYoungest, Holding, Unsent
    <3> QED BY <3>1, <3>2
  <2> QED BY <2>1, <2>2
<1>7. ReleaseBehind'
  BY DEF InOrder, ReleaseBehind, Silent
<1>8. ReleasedClean'
  <2> SUFFICES ASSUME NEW u \in Threads, call'[u].kind = "release"
               PROVE  /\ pc'[u] \in {"wait", "woken"} /\ ctx'[cur'[u]].retval = 0 =>
                           Gone(call'[u].fl)
                      /\ /\ pc'[u] \in {"free", "clear", "ret", "unhook", "dtor"}
                         /\ call'[u].res # "err"
                         => Gone(call'[u].fl)
    BY <1>3 DEF ReleasedClean
  <2>1. CASE u = t
    BY <2>1 DEF Careful
  <2>2. CASE u # t
    BY <1>1, <2>2 DEF InOrder, ReleasedClean, Holding
  <2> QED BY <2>1, <2>2
<1> QED BY <1>5, <1>6, <1>7, <1>8 DEF InOrder

\* The start of a call is not the start of a release, which is younger than every call of
\* its file and needs none of it in flight when there is no channel.
LEMMA OrderStart ==
  ASSUME IInv, IInv', Calls, Jobs, ~abandoned, InOrder, NEW t \in Threads, NEW f \in Files,
         \/ FileFreeStart(t, f)
         \/ \E k \in {"user", "kernel"}, sc \in Scs : InvokeStart(t, f, k, sc)
  PROVE  InOrder'
<1>1. calls \in Nat /\ interrupted \subseteq alloced /\ \A c \in alloced : ctx[c].ser \in Nat
  BY DEF IInv, TypeOK, Struct, ContextAccounted, Ctx
<1>2. CASE FileFreeStart(t, f)
  <2>1. /\ Alone(t) /\ Silent /\ Links /\ UNCHANGED <<alloced, interrupted, cur, ctx>>
        /\ f \in open /\ call'[t].fl = f /\ call'[t].ser = calls + 1
        /\ pc'[t] = "alloc" \/ (pc'[t] = "unhook" /\ ~chan[FileCid[f]])
    BY <1>2, EffFileFreeStart
  <2>2. ChannelThere'
    BY <2>1 DEF InOrder, ChannelThere, Messages, Silent, Links
  <2>3. \A c \in interrupted' : ctx'[c].ser < call'[t].ser
    BY <1>1, <2>1 DEF Calls, Serials
  <2>4. pc'[t] = "unhook" => Gone(f)
    BY <2>1 DEF InOrder, ChannelThere, Gone
  <2>5. Careful(t)
    BY <2>1, <2>3, <2>4 DEF Careful, Unsent
  <2> QED BY <2>1, <2>2, <2>5, OrderAlone
<1>3. ASSUME NEW k \in {"user", "kernel"}, NEW sc \in Scs, InvokeStart(t, f, k, sc)
      PROVE  InOrder'
  <2>1. /\ Alone(t) /\ Silent /\ Links /\ UNCHANGED alloced /\ interrupted' \subseteq interrupted
        /\ call'[t].kind = k /\ pc'[t] \in {"wait", "ret", "alloc"}
    BY <1>3, EffInvokeStart
  <2>2. ChannelThere'
    BY <2>1 DEF InOrder, ChannelThere, Messages, Silent, Links
  <2>3. Careful(t)
    BY <2>1 DEF Careful
  <2> QED BY <2>1, <2>2, <2>3, OrderAlone
<1> QED BY <1>2, <1>3

\* glink_tx: no message goes out behind a release of the same file, and a release goes out
\* behind all the others.
LEMMA OrderGlinkTx ==
  ASSUME IInv, IInv', Calls, Jobs, ~abandoned, InOrder, NEW t \in Threads, GlinkTx(t)
  PROVE  InOrder'
<1> DEFINE m == MsgOf(t)
           s == ctx[cur[t]].ser
<1>1. /\ Alone(t) /\ Links /\ UNCHANGED <<interrupted, alloced, cur, ctx, rsp, rx>>
      /\ pc[t] = "tx"
  BY EffGlinkTx
<1>2. /\ ~Outstanding(s) /\ ctx[cur[t]].retval = -1 /\ cur[t] \in alloced
  BY <1>1, Held DEF Jobs, SentOnce, AnsweredOnce, Unsent, Holding
<1>3. CASE pc'[t] = "free" /\ Outcome(t, "err") /\ UNCHANGED dsp
  <2>1. ChannelThere'
    BY <1>1, <1>3 DEF InOrder, ChannelThere, Messages, Links
  <2>2. Careful(t)
    BY <1>1, <1>2, <1>3 DEF Careful, Outcome, Unsent
  <2> QED BY <1>1, <1>3, <2>1, <2>2, OrderAlone DEF Silent, Holding
<1>4. CASE pc'[t] = "wait" /\ UNCHANGED call /\ UNCHANGED dsp
  <2>1. ChannelThere'
    BY <1>1, <1>4 DEF InOrder, ChannelThere, Messages, Links
  <2>2. Careful(t)
    BY <1>1, <1>2, <1>4 DEF Careful, Unsent
  <2> QED BY <1>1, <1>4, <2>1, <2>2, OrderAlone DEF Silent, Holding
<1>5. CASE /\ pc'[t] = "wait" /\ UNCHANGED call /\ chan[FileCid[call[t].fl]]
           /\ dsp' = dsp \cup {m}
  <2>1. /\ m.ser = s /\ m.fl = call[t].fl /\ m.kind = call[t].kind
        /\ Messages' = Messages \cup {m}
    BY <1>1, <1>5 DEF MsgOf, Messages
  <2>2. \A u \in Threads \ {t} : pc'[u] = pc[u]
    BY <1>1 DEF Alone
  <2>3. \A n \in Messages : n.kind = "release" => n.fl # m.fl
    BY <1>1, <2>1, NoReleaseAhead DEF InOrder, Unsent
  <2>4. ChannelThere'
    BY <1>1, <1>5, <2>1 DEF InOrder, ChannelThere, Links
  <2>5. WokenByAnswer'
    <3>1. \A u \in Threads : u # t /\ pc[u] \in Holding => ctx[cur[u]].ser # s
      BY <1>2, Held DEF Calls, Serials
    <3>2. \A k : Outstanding(k)' => Outstanding(k) \/ k = s
      BY <1>1, <1>5, <2>1 DEF Outstanding
    <3>3. \A u \in Threads : pc'[u] \in {"woken", "free", "clear"} => u # t /\ pc[u] = pc'[u]
      BY <1>5, <2>2
    <3>4. \A u \in Threads : pc[u] = "woken" => ctx[cur[u]].by # 0
      BY DEF InOrder, WokenByAnswer
    <3>5. \A u \in Threads : pc'[u] \in {"free", "clear"} /\ call[u].kind # "release" =>
            ~Outstanding(ctx[cur[u]].ser)'
      BY <1>1, <3>1, <3>2, <3>3 DEF InOrder, WokenByAnswer, Holding
    <3> QED BY <1>1, <1>5, <3>3, <3>4, <3>5 DEF InOrder, WokenByAnswer
  <2>6. ReleaseYoungest'
    <3>1. \A u \in Threads : pc'[u] \in {"alloc"} \cup Unsent => pc[u] = pc'[u]
      BY <1>5, <2>2 DEF Unsent
    <3>2. \A u \in Threads : call'[u].kind = "release" =>
            /\ pc'[u] \in {"alloc"} \cup Unsent =>
                 \A c \in interrupted' : ctx'[c].fl = call'[u].fl => ctx'[c].ser < call'[u].ser
            /\ pc'[u] \in Unsent => ctx'[cur'[u]].ser = call'[u].ser
      BY <1>1, <1>5, <3>1 DEF InOrder, ReleaseYoungest
    <3>3. ASSUME m.kind = "release", NEW n \in Messages, n.fl = m.fl PROVE n.ser <= m.ser
      <4>1. PICK c \in interrupted : ctx[c].fl = call[t].fl /\ ctx[c].ser = n.ser
        BY <1>1, <2>1, <3>3, CloserFinds DEF Unsent
      <4>2. ctx[c].ser < call[t].ser /\ s = call[t].ser
        BY <1>1, <2>1, <3>3, <4>1 DEF InOrder, ReleaseYoungest, Unsent
      <4>3. s \in Nat /\ ctx[c].ser \in Nat
        BY <1>2 DEF IInv, TypeOK, Ctx
      <4> QED BY <2>1, <4>1, <4>2, <4>3
    <3>4. m.ser <= m.ser
      BY <1>2, <2>1 DEF IInv, TypeOK, Ctx
    <3>5. \A n, k \in Messages' : n.kind = "release" /\ k.fl = n.fl => k.ser <= n.ser
      BY <2>1, <2>3, <3>3, <3>4 DEF InOrder, ReleaseYoungest
    <3> QED BY <3>2, <3>5 DEF ReleaseYoungest
  <2>7. ReleaseBehind'
    BY <1>1, <1>5, <2>3 DEF InOrder, ReleaseBehind, Messages
  <2>8. ReleasedClean'
    <3> SUFFICES ASSUME NEW u \in Threads, call[u].kind = "release",
                        \/ pc'[u] \in {"wait", "woken"} /\ ctx[cur[u]].retval = 0
                        \/ /\ pc'[u] \in {"free", "clear", "ret", "unhook", "dtor"}
                           /\ call[u].res # "err"
                 PROVE  Gone(call[u].fl)'
      BY <1>1, <1>5 DEF ReleasedClean
    <3>1. u # t
      BY <1>2, <1>5
    <3>2. Gone(call[u].fl)
      BY <2>2, <3>1 DEF InOrder, ReleasedClean
    <3>3. m.fl # call[u].fl
      BY <1>1, <2>1, <2>2, <3>1 DEF IInv, Struct, CloserAlone
    <3> QED BY <1>5, <2>1, <3>2, <3>3 DEF Gone
  <2> QED BY <2>4, <2>5, <2>6, <2>7, <2>8 DEF InOrder
<1> QED BY <1>3, <1>4, <1>5, EffGlinkTx

\* The closer lets the channel go when no open file of it is left: without a restart, all
\* of them are of the current incarnation.
LEMMA OrderClose ==
  ASSUME IInv, IInv', Calls, Jobs, Ordinary, Counted, InOrder, NEW t \in Threads,
         FileUnhook(t) \/ FileDtor(t)
  PROVE  InOrder'
<1>1. ~abandoned
  BY DEF Ordinary
<1>2. CASE FileUnhook(t)
  <2>1. /\ Alone(t) /\ Silent /\ UNCHANGED <<interrupted, alloced, call, chan>>
        /\ pc[t] = "unhook" /\ pc'[t] = "dtor" /\ open' \subseteq open
    BY <1>2, EffFileUnhook
  <2>2. ChannelThere'
    BY <2>1 DEF InOrder, ChannelThere, Messages, Silent
  <2>3. Careful(t)
    BY <2>1 DEF Careful, InOrder, ReleasedClean, Unsent
  <2> QED BY <1>1, <2>1, <2>2, <2>3, OrderAlone
<1>3. CASE FileDtor(t)
  <2>1. /\ Alone(t) /\ Silent /\ UNCHANGED <<alloced, open>> /\ interrupted' \subseteq interrupted
        /\ pc[t] = "dtor" /\ pc'[t] \in {"clear", "idle"}
        /\ pc'[t] = "clear" => UNCHANGED <<call, chan>>
    BY <1>3, EffFileDtor
  <2>2. call[t].kind = "release"
    BY <2>1 DEF IInv, Struct, Phases
  <2>3. ChannelThere'
    <3> DEFINE d == FileCid[call[t].fl]
    <3>1. CASE UNCHANGED chan
      BY <2>1, <3>1 DEF InOrder, ChannelThere, Messages, Silent
    <3>2. CASE /\ chan' = [chan EXCEPT ![d] = FALSE]
               /\ \A g \in open : FileCid[g] = d => flssr[g] # ssrcount[d]
      <4>1. \A g \in open : /\ flssr[g] \in Nat /\ flssr[g] <= ssrcount[FileCid[g]]
                            /\ FileCid[g] \in Cids
        BY ConstantsOK DEF IInv, TypeOK, Counted
      <4>2. \A g \in open : FileCid[g] # d
        BY <3>2, <4>1 DEF Ordinary
      <4>3. \A g \in open : chan'[FileCid[g]] = chan[FileCid[g]]
        BY <3>2, <4>1, <4>2 DEF IInv, TypeOK
      <4> QED BY <2>1, <4>3 DEF InOrder, ChannelThere, Messages, Silent
    <3> QED BY <1>3, <3>1, <3>2, EffFileDtor
  <2>4. pc'[t] = "clear" => Careful(t)
    BY <2>1, <2>2 DEF Careful, InOrder, ReleasedClean, Unsent
  <2>5. pc'[t] = "idle" => Careful(t)
    BY DEF Careful, Unsent
  <2> QED BY <1>1, <2>1, <2>2, <2>3, <2>4, <2>5, OrderAlone
<1> QED BY <1>2, <1>3

\* The other steps of a thread.
LEMMA OrderThread ==
  ASSUME IInv, IInv', Calls, Jobs, Ordinary, Counted, InOrder, NEW t \in Threads,
         ThreadStep(t) \/ WaitInterrupted(t)
  PROVE  InOrder'
<1>1. ~abandoned
  BY DEF Ordinary
<1>2. ASSUME Silent, Links PROVE ChannelThere'
  BY <1>2 DEF InOrder, ChannelThere, Messages, Silent, Links
<1>3. pc[t] \in Unsent => cur[t] \in alloced /\ ~Outstanding(ctx[cur[t]].ser)
  BY Held DEF Jobs, SentOnce, Unsent, Holding
<1>4. CASE ContextAlloc(t)
  <2>1. /\ Alone(t) /\ Silent /\ Links /\ UNCHANGED interrupted /\ pc[t] = "alloc"
        /\ \/ /\ pc'[t] = "slot" /\ UNCHANGED call /\ alloced' = alloced \cup {cur'[t]}
              /\ cur'[t] \notin alloced
              /\ ctx'[cur'[t]].ser = call[t].ser /\ ctx'[cur'[t]].done = 0
           \/ pc'[t] = "ret" /\ Outcome(t, "err") /\ UNCHANGED alloced
    BY <1>4, EffContextAlloc
  <2>2. \A c \in interrupted : ctx'[c].ser = ctx[c].ser /\ ctx'[c].fl = ctx[c].fl
    BY <2>1 DEF Alone, IInv, Struct, ContextAccounted
  <2>3. Careful(t)
    BY <2>1, <2>2 DEF Careful, InOrder, ReleaseYoungest, Outcome, Unsent
  <2> QED BY <1>1, <1>2, <2>1, <2>3, OrderAlone
<1>5. CASE ContextSlot(t) \/ InvokeSend(t)
  <2>1. /\ Alone(t) /\ Silent /\ Links /\ UNCHANGED <<interrupted, alloced, cur>>
        /\ pc[t] \in {"slot", "send"}
        /\ \/ pc'[t] \in {"send", "tx"} /\ UNCHANGED call
           \/ pc'[t] = "free" /\ Outcome(t, "err")
    BY <1>5, EffContextSlot, EffInvokeSend
  <2>2. /\ \A c \in interrupted : ctx'[c].ser = ctx[c].ser /\ ctx'[c].fl = ctx[c].fl
        /\ ctx'[cur[t]].ser = ctx[cur[t]].ser
    BY <1>3, <2>1 DEF Alone, IInv, Struct, ContextAccounted, Unsent
  <2>3. Careful(t)
    BY <1>3, <2>1, <2>2 DEF Careful, InOrder, ReleaseYoungest, Outcome, Unsent
  <2> QED BY <1>1, <1>2, <2>1, <2>3, OrderAlone DEF Holding
<1>6. CASE GlinkTx(t)
  BY <1>1, <1>6, OrderGlinkTx
<1>7. CASE WaitDone(t)
  <2>1. /\ Alone(t) /\ Silent /\ Links /\ UNCHANGED <<interrupted, alloced, cur, call>>
        /\ pc[t] = "wait" /\ pc'[t] = "woken" /\ ctx[cur[t]].done > 0
    BY <1>7, EffWaitDone
  <2>2. ctx'[cur[t]].retval = ctx[cur[t]].retval
    BY <2>1, Held DEF Alone, Holding
  <2>3. Careful(t)
    BY <2>1, <2>2 DEF Careful, InOrder, ReleasedClean, Unsent
  <2> QED BY <1>1, <1>2, <2>1, <2>3, OrderAlone DEF Holding
<1>8. CASE PutArgs(t)
  <2>1. /\ Alone(t) /\ Silent /\ Links /\ UNCHANGED <<interrupted, alloced, cur, ctx>>
        /\ pc[t] = "woken" /\ pc'[t] = "free"
        /\ \/ Outcome(t, "ok") /\ ctx[cur[t]].retval = 0
           \/ Outcome(t, "err")
    BY <1>8, EffPutArgs
  <2>2. ~Outstanding(ctx[cur[t]].ser)
    BY <1>1, <2>1, Held DEF InOrder, WokenByAnswer, Jobs, AnsweredOnce, Holding
  <2>3. Careful(t)
    BY <2>1, <2>2 DEF Careful, InOrder, ReleasedClean, Outcome, Unsent
  <2> QED BY <1>1, <1>2, <2>1, <2>3, OrderAlone DEF Holding
<1>9. CASE InvokeReturn(t)
  <2>1. /\ Alone(t) /\ Silent /\ Links /\ UNCHANGED <<interrupted, alloced, cur>>
        /\ pc[t] = "ret"
        /\ \/ pc'[t] = "unhook" /\ UNCHANGED call
           \/ pc'[t] = "idle"
    BY <1>9, EffInvokeReturn
  <2>2. Careful(t)
    BY <2>1 DEF Careful, InOrder, ReleasedClean, Unsent
  <2> QED BY <1>1, <1>2, <2>1, <2>2, OrderAlone
<1>10. CASE ContextSaveInterrupted(t)
  <2>1. /\ Alone(t) /\ Silent /\ Links /\ UNCHANGED alloced
        /\ pc[t] = "save" /\ pc'[t] = "ret" /\ Outcome(t, "intr")
        /\ interrupted' = interrupted \cup {cur[t]}
    BY <1>10, EffContextSaveInterrupted
  <2>2. call[t].kind = "user"
    BY <2>1 DEF IInv, Struct, WaiterIsUser
  <2>3. Careful(t)
    BY <2>1, <2>2 DEF Careful, Outcome
  <2> QED BY <1>1, <1>2, <2>1, <2>3, OrderAlone
<1>11. CASE ContextUnlink(t)
  <2>1. /\ Alone(t) /\ Silent /\ Links /\ UNCHANGED <<interrupted, alloced, cur, call>>
        /\ pc[t] = "free" /\ pc'[t] = "clear"
    BY <1>11, EffContextUnlink
  <2>2. Careful(t)
    BY <2>1 DEF Careful, InOrder, WokenByAnswer, ReleasedClean, Unsent
  <2> QED BY <1>1, <1>2, <2>1, <2>2, OrderAlone DEF Holding
<1>12. CASE ContextFree(t)
  <2>1. /\ Alone(t) /\ Silent /\ Links /\ UNCHANGED <<interrupted, call>>
        /\ pc[t] = "clear" /\ pc'[t] \in {"ret", "dtor"} /\ alloced' \subseteq alloced
    BY <1>12, EffContextFree
  <2>2. Careful(t)
    BY <2>1 DEF Careful, InOrder, ReleasedClean, Unsent
  <2> QED BY <1>1, <1>2, <2>1, <2>2, OrderAlone
<1>13. CASE FileUnhook(t) \/ FileDtor(t)
  BY <1>13, OrderClose
<1>14. CASE WaitInterrupted(t)
  <2>1. /\ Alone(t) /\ Silent /\ Links /\ UNCHANGED <<interrupted, alloced, call>>
        /\ pc'[t] = "save"
    BY <1>14, EffWaitInterrupted
  <2>2. Careful(t)
    BY <2>1 DEF Careful, Unsent
  <2> QED BY <1>1, <1>2, <2>1, <2>2, OrderAlone
<1> QED BY <1>4, <1>5, <1>6, <1>7, <1>8, <1>9, <1>10, <1>11, <1>12, <1>13, <1>14
        DEF ThreadStep

\* A step beside the threads that leaves the contexts alone and moves messages in order.
LEMMA OrderBeside ==
  ASSUME IInv, InOrder, Beside, ctx' = ctx, ChannelThere', ReleaseBehind'
  PROVE  InOrder'
<1>1. UNCHANGED <<pc, call, cur, alloced, interrupted>> /\ Messages' \subseteq Messages
  BY DEF Beside, threadVars
<1>2. \A s : Outstanding(s)' => Outstanding(s)
  BY <1>1, OutstandingMessages
<1>3. WokenByAnswer'
  BY <1>1, <1>2 DEF InOrder, WokenByAnswer
<1>4. ReleaseYoungest'
  BY <1>1 DEF InOrder, ReleaseYoungest
<1>5. ReleasedClean'
  BY <1>1 DEF InOrder, ReleasedClean, Gone
<1> QED BY <1>3, <1>4, <1>5 DEF InOrder

\* Opening a file: nothing of its previous life is in flight. Opening the channel takes no
\* channel away.
LEMMA OrderOpen ==
  ASSUME IInv, Calls, ~abandoned, InOrder, NEW f \in Files, DeviceOpen(f) \/ ChannelOpen(f)
  PROVE  InOrder'
<1>1. Beside /\ Silent /\ ctx' = ctx
  BY EffAround DEF DeviceOpen, ChannelOpen, ctxVars
<1>2. ReleaseBehind'
  BY <1>1 DEF InOrder, ReleaseBehind, Silent
<1>3. Messages' = Messages
  BY <1>1 DEF Silent, Messages
<1>4. CASE DeviceOpen(f)
  <2>1. f \notin open /\ ~Busy(f) /\ open' = open \cup {f} /\ chan' = chan
    BY <1>4 DEF DeviceOpen
  <2>2. ClosedFileClean
    BY NothingLeft
  <2>3. \A m \in Messages : m.fl # f
    BY <2>1, <2>2, MessageOwner DEF ClosedFileClean
  <2>4. ChannelThere'
    BY <1>3, <2>1, <2>3 DEF InOrder, ChannelThere
  <2> QED BY <1>1, <1>2, <2>4, OrderBeside
<1>5. CASE ChannelOpen(f)
  <2>1. open' = open /\ \A d \in Cids : chan[d] => chan'[d]
    BY <1>5 DEF ChannelOpen, IInv, TypeOK
  <2>2. \A m \in Messages : FileCid[m.fl] \in Cids
    BY ConstantsOK, MessageType
  <2>3. ChannelThere'
    BY <1>3, <2>1, <2>2 DEF InOrder, ChannelThere
  <2> QED BY <1>1, <1>2, <2>3, OrderBeside
<1> QED BY <1>4, <1>5

\* The answer to a release comes when everything before it has been delivered, and nothing
\* is behind it.
LEMMA OrderDspAnswer ==
  ASSUME IInv, Jobs, InOrder, NEW m \in dsp, DspAnswer(m)
  PROVE  InOrder'
<1>1. PICK v \in {0, 1} : rsp' = rsp \cup {[msg |-> m, retval |-> v]}
  BY EffDspAnswer
<1>2. /\ Beside /\ ctx' = ctx /\ Links /\ rx' = rx /\ dsp' \subseteq dsp \ {m}
      /\ m.kind = "release" =>
           /\ \A n \in dsp' : n.fl = m.fl => ~(n.ser < m.ser)
           /\ \A r \in rsp : r.msg.fl = m.fl => ~(r.msg.ser < m.ser)
  BY EffDspAnswer
<1>3. ChannelThere'
  BY <1>2 DEF Beside, Links, InOrder, ChannelThere
<1>4. m \in Messages /\ \A n \in dsp : n \in Messages /\ \A r \in rsp : r.msg \in Messages
  BY DEF Messages
<1>5. \A n \in Messages : n.ser \in Nat
  BY MessageType
<1>6. ASSUME m.kind = "release"
      PROVE  /\ \A n \in dsp' : n.fl # m.fl
             /\ \A r \in rsp : r.msg.fl # m.fl
  <2>1. \A n \in Messages : n.fl = m.fl => n.ser <= m.ser
    BY <1>4, <1>6 DEF InOrder, ReleaseYoungest
  <2>2. ASSUME NEW n \in dsp', n.fl = m.fl PROVE FALSE
    <3>1. n \in dsp /\ n # m /\ ~(n.ser < m.ser) /\ n.ser <= m.ser
      BY <1>2, <1>4, <1>6, <2>1, <2>2
    <3>2. n.ser = m.ser
      BY <1>4, <1>5, <3>1
    <3> QED BY <3>1, <3>2 DEF Jobs, OnePlace
  <2>3. ASSUME NEW r \in rsp, r.msg.fl = m.fl PROVE FALSE
    <3>1. ~(r.msg.ser < m.ser) /\ r.msg.ser <= m.ser /\ r.msg.ser \in Nat /\ m.ser \in Nat
      BY <1>2, <1>4, <1>5, <1>6, <2>1, <2>3
    <3>2. r.msg.ser = m.ser
      BY <3>1
    <3> QED BY <3>2 DEF Jobs, OnePlace
  <2> QED BY <2>2, <2>3
<1>7. ReleaseBehind'
  <2> DEFINE a == [msg |-> m, retval |-> v]
  <2>1. a.msg = m /\ rsp' = rsp \cup {a} /\ dsp' \subseteq dsp
    BY <1>1, <1>2
  <2> HIDE DEF a
  <2>2. ASSUME NEW r \in rsp', r.msg.kind = "release"
        PROVE  /\ \A n \in dsp' : n.fl # r.msg.fl
               /\ \A q \in rsp' : q.msg.fl = r.msg.fl => q = r
    <3>1. CASE r = a
      BY <1>6, <2>1, <2>2, <3>1
    <3>2. CASE r \in rsp
      BY <2>1, <2>2, <3>2 DEF InOrder, ReleaseBehind
    <3> QED BY <2>1, <3>1, <3>2
  <2>3. ASSUME NEW x \in rx, x.msg.kind = "release"
        PROVE  /\ \A n \in dsp' : n.fl # x.msg.fl
               /\ \A q \in rsp' : q.msg.fl # x.msg.fl
               /\ \A y \in rx : y.msg.fl = x.msg.fl => y = x
    BY <2>1, <2>3 DEF InOrder, ReleaseBehind
  <2> QED BY <1>2, <2>2, <2>3 DEF ReleaseBehind
<1> QED BY <1>2, <1>3, <1>7, OrderBeside

\* Callbacks of one channel do not overlap.
LEMMA OrderRxCheck ==
  ASSUME IInv, Calls, InOrder, NEW r \in rsp, RxCheck(r)
  PROVE  InOrder'
<1>1. /\ Beside /\ ctx' = ctx /\ Links /\ dsp' = dsp /\ rsp' = rsp \ {r}
      /\ \A x \in rx : x.msg.cid # r.msg.cid
      /\ \/ rx' = rx
         \/ \E c : rx' = rx \cup {[msg |-> r.msg, retval |-> r.retval, c |-> c]}
  BY EffRxCheck
<1>2. ChannelThere'
  BY <1>1 DEF Beside, Links, InOrder, ChannelThere
<1>3. \A x \in rx : x.msg.fl # r.msg.fl
  BY <1>1 DEF Calls, MessagesMatch, Messages
<1>4. CASE rx' = rx
  <2>1. ReleaseBehind'
    BY <1>1, <1>4 DEF InOrder, ReleaseBehind
  <2> QED BY <1>1, <1>2, <2>1, OrderBeside
<1>5. ASSUME NEW c, rx' = rx \cup {[msg |-> r.msg, retval |-> r.retval, c |-> c]}
      PROVE  InOrder'
  <2> DEFINE a == [msg |-> r.msg, retval |-> r.retval, c |-> c]
  <2>1. a.msg = r.msg /\ rx' = rx \cup {a}
    BY <1>5
  <2> HIDE DEF a
  <2>2. ASSUME NEW x \in rx', x.msg.kind = "release"
        PROVE  /\ \A n \in dsp : n.fl # x.msg.fl
               /\ \A q \in rsp \ {r} : q.msg.fl # x.msg.fl
               /\ \A y \in rx' : y.msg.fl = x.msg.fl => y = x
    <3>1. CASE x = a
      BY <1>3, <2>1, <2>2, <3>1 DEF InOrder, ReleaseBehind
    <3>2. CASE x \in rx
      BY <1>3, <2>1, <2>2, <3>2 DEF InOrder, ReleaseBehind
    <3> QED BY <2>1, <3>1, <3>2
  <2>3. ReleaseBehind'
    BY <1>1, <2>2 DEF InOrder, ReleaseBehind
  <2> QED BY <1>1, <1>2, <2>3, OrderBeside
<1> QED BY <1>1, <1>4, <1>5

\* The callback of a release finds nothing else of the file in flight.
LEMMA OrderRxNotify ==
  ASSUME IInv, Calls, Jobs, ~abandoned, InOrder, NEW x \in rx, RxNotify(x)
  PROVE  InOrder'
<1>1. /\ Beside /\ Links /\ dsp' = dsp /\ rsp' = rsp /\ rx' = rx \ {x}
      /\ x.c \in alloced /\ ctx[x.c].ser = x.msg.ser
      /\ \A c \in Ctxs : c # x.c => ctx'[c] = ctx[c]
      /\ ctx'[x.c].by = x.msg.ser
  BY EffRxNotify
<1>2. UNCHANGED <<pc, call, cur, alloced, interrupted>> /\ Messages' \subseteq Messages
  BY <1>1 DEF Beside, threadVars
<1>3. /\ alloced \subseteq Ctxs /\ interrupted \subseteq Ctxs
      /\ \A u \in Threads : pc[u] \in Holding => cur[u] \in Ctxs
  BY Held DEF IInv, TypeOK
<1>4. \A c \in Ctxs : ctx'[c].ser = ctx[c].ser /\ ctx'[c].fl = ctx[c].fl
  BY <1>1 DEF Beside
<1>5. x.msg.ser # 0
  BY <1>1 DEF Jobs, Positive
<1>6. \A c \in Ctxs : ctx[c].by # 0 => ctx'[c].by # 0
  BY <1>1, <1>5
<1>7. \A s : Outstanding(s)' => Outstanding(s)
  BY <1>2, OutstandingMessages
<1>8. ChannelThere'
  BY <1>1, <1>2 DEF Links, InOrder, ChannelThere
<1>9. WokenByAnswer'
  <2>1. \A c \in alloced : ctx'[c].done > 0 => ctx'[c].by # 0
    BY <1>1, <1>3, <1>5 DEF InOrder, WokenByAnswer
  <2>2. \A u \in Threads : pc[u] = "woken" => ctx'[cur[u]].by # 0
    BY <1>3, <1>6 DEF InOrder, WokenByAnswer, Holding
  <2>3. \A u \in Threads : pc[u] \in {"free", "clear"} /\ call[u].kind # "release" =>
          ~Outstanding(ctx[cur[u]].ser)
    BY DEF InOrder, WokenByAnswer
  <2>4. \A u \in Threads : pc[u] \in {"free", "clear"} => ctx'[cur[u]].ser = ctx[cur[u]].ser
    BY <1>3, <1>4 DEF Holding
  <2> QED BY <1>2, <1>7, <2>1, <2>2, <2>3, <2>4 DEF WokenByAnswer
<1>10. ReleaseYoungest'
  <2>1. \A u \in Threads : pc[u] \in Unsent => cur[u] \in Ctxs
    BY <1>3 DEF Unsent, Holding
  <2> QED BY <1>2, <1>3, <1>4, <2>1 DEF InOrder, ReleaseYoungest
<1>11. ReleaseBehind'
  BY <1>1 DEF InOrder, ReleaseBehind
<1>12. ReleasedClean'
  <2>1. \A f : Gone(f) => Gone(f)'
    BY <1>2 DEF Gone
  <2> SUFFICES ASSUME NEW u \in Threads, call[u].kind = "release",
                      pc[u] \in {"wait", "woken"}, ctx'[cur[u]].retval = 0
               PROVE  Gone(call[u].fl)'
    BY <1>2, <2>1 DEF InOrder, ReleasedClean
  <2>2. cur[u] \in Ctxs
    BY <1>3 DEF Holding
  <2>3. CASE cur[u] # x.c
    BY <1>1, <1>2, <2>1, <2>2, <2>3 DEF InOrder, ReleasedClean
  <2>4. CASE cur[u] = x.c
    <3>1. /\ ctx[x.c].fl = call[u].fl /\ ctx[x.c].kind = "release"
      BY <2>4 DEF IInv, Struct, HeldIsOwn, Holding
    <3>2. x.msg.kind = "release" /\ x.msg.fl = call[u].fl
      BY <1>1, <3>1 DEF Calls, MessagesMatch, Messages
    <3> QED BY <1>1, <1>2, <3>2 DEF InOrder, ReleaseBehind, Gone, Messages
  <2> QED BY <2>3, <2>4
<1> QED BY <1>8, <1>9, <1>10, <1>11, <1>12 DEF InOrder

\* Every step keeps the order as long as nothing is restarted.
LEMMA NextOrderly ==
  IInv /\ IInv' /\ Calls /\ Jobs /\ Orderly /\ [Next]_vars => Orderly'
<1> SUFFICES ASSUME IInv, IInv', Calls, Jobs, Orderly, [Next]_vars, Ordinary'
             PROVE  InOrder'
  BY CountedStep DEF Orderly
<1>1. /\ Counted /\ Ordinary /\ InOrder /\ ~abandoned
      /\ ~ \/ \E d \in Cids : \/ SsrShutdown(d) \/ NotifyDrivers(d)
                              \/ SsrPowerup(d) \/ DspCrash(d)
           \/ PdrDown \/ NotifyPdrDrivers
  BY CountedStep DEF Orderly, Ordinary
<1>2. CASE \E f \in Files : DeviceOpen(f) \/ ChannelOpen(f)
  BY <1>1, <1>2, OrderOpen
<1>3. CASE \E t \in Threads, f \in Files, k \in {"user", "kernel"}, sc \in Scs :
             InvokeStart(t, f, k, sc)
  BY <1>1, <1>3, OrderStart
<1>4. CASE \E t \in Threads, f \in Files : FileFreeStart(t, f)
  BY <1>1, <1>4, OrderStart
<1>5. CASE \E t \in Threads : ThreadStep(t) \/ WaitInterrupted(t)
  BY <1>1, <1>5, OrderThread
<1>6. CASE \/ \E r \in rsp : RxCheck(r)
           \/ \E x \in rx : RxNotify(x)
           \/ \E m \in dsp : DspAnswer(m)
  BY <1>1, <1>6, OrderRxCheck, OrderRxNotify, OrderDspAnswer
<1>7. CASE UNCHANGED vars
  <2>1. Beside /\ Silent /\ Links /\ ctx' = ctx
    BY <1>7 DEF vars, threadVars, ctxVars, chanVars, dspVars, Beside, Silent, Links, Messages
  <2>2. ChannelThere' /\ ReleaseBehind'
    BY <1>1, <2>1 DEF InOrder, ChannelThere, ReleaseBehind, Messages, Silent, Links
  <2> QED BY <1>1, <2>1, <2>2, OrderBeside
<1> QED BY <1>1, <1>2, <1>3, <1>4, <1>5, <1>6, <1>7 DEF Next

\* At first nothing has been restarted and nothing is in flight.
LEMMA InitOrderly == Init => Orderly
<1> SUFFICES ASSUME Init PROVE Orderly
  OBVIOUS
<1>1. Counted
  BY ConstantsOK DEF Init, Counted
<1>2. Messages = {}
  BY DEF Init, Messages
<1>3. WokenByAnswer /\ ChannelThere /\ ReleaseYoungest /\ ReleaseBehind
  BY <1>2 DEF Init, WokenByAnswer, ChannelThere, ReleaseYoungest, ReleaseBehind, Unsent
<1>4. ReleasedClean
  BY DEF Init, ReleasedClean
<1> QED BY <1>1, <1>3, <1>4 DEF Orderly, InOrder

\* A thread frees a context whose answer is outstanding only after a restart, or when it
\* closes a file whose release failed.
LEMMA FreesLate ==
  ASSUME IInv, Calls, Orderly, [Next]_vars, ~abandoned, abandoned'
  PROVE  \/ \E d \in Cids : ssrcount[d] > 0 \/ ~alive[d]
         \/ pdrcount > 0
         \/ \E t \in Threads : /\ pc[t] = "clear" /\ call[t].kind = "release"
                               /\ call[t].res = "err"
<1>1. PICK t \in Threads : ContextFree(t)
  BY OnlyFreeAbandons, Zenon
<1>2. pc[t] = "clear" /\ cur[t] \in alloced /\ Outstanding(ctx[cur[t]].ser)
  BY <1>1, EffContextFree
<1>3. CASE ~Ordinary
  BY <1>3 DEF Ordinary, IInv, TypeOK
<1>4. CASE Ordinary
  <2>1. InOrder
    BY <1>4 DEF Orderly
  <2>2. PICK m \in Messages : m.ser = ctx[cur[t]].ser
    BY <1>2, OutstandingMessages
  <2>3. m.fl = call[t].fl
    BY <1>2, <2>2 DEF Calls, MessagesMatch, IInv, Struct, HeldIsOwn, Holding
  <2>4. call[t].kind = "release"
    BY <1>2, <2>1 DEF InOrder, WokenByAnswer
  <2>5. call[t].res = "err"
    BY <1>2, <2>1, <2>3, <2>4 DEF InOrder, ReleasedClean, Gone
  <2> QED BY <1>2, <2>4, <2>5
<1> QED BY <1>3, <1>4

\* On the ordinary paths callers are woken by their own answers, and the release of a
\* process is the last of its file to be sent and the last to be answered.
THEOREM OrderlyInductive == Spec => []Orderly
BY InitOrderly, NextOrderly, Inductive, CallsInductive, JobsInductive, PTL DEF Spec

\* context_free never gives back a context whose answer the DSP, the channel or the receive
\* callback still has, unless a DSP or the PD has been restarted or the file is closed after
\* its release call failed.
THEOREM NoEarlyFreeHolds == Spec => NoEarlyFree
<1>1. IInv /\ Calls /\ Orderly /\ [Next]_vars =>
        [ ~abandoned /\ abandoned' =>
            \/ \E d \in Cids : ssrcount[d] > 0 \/ ~alive[d]
            \/ pdrcount > 0
            \/ \E t \in Threads : pc[t] = "clear" /\ call[t].kind = "release"
                                                  /\ call[t].res = "err" ]_vars
  BY FreesLate
<1> QED BY <1>1, Inductive, CallsInductive, OrderlyInductive, PTL DEF Spec, NoEarlyFree

=============================================================================
