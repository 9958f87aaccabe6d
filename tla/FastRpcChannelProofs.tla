------------------------ MODULE FastRpcChannelProofs ------------------------
(***************************************************************************)
(* What FastRpcChannel promises, proved for every set of files and every   *)
(* number of restarts, opens and mappings of the remote heap.              *)
(***************************************************************************)
EXTENDS FastRpcChannel, FiniteSetTheorems, TLAPS

\* Where a thread of fastrpc_channel_open opens the port, and where it has it.
Opening == {"link", "glink", "port"}
Unmapping == {"heap", "reply"}

\* smd_mutex is held exactly by the thread that opens the channel.
MutexOwner == \A f \in Files : pc[f] \in Opening \cup Unmapping <=> mutex = f

\* port_state follows what glink does.
PortMatches ==
  /\ port.state = "disconnected"  <=> gl = "closed"
  /\ port.state = "connecting"    <=> gl = "opening"
  /\ port.state = "connected"     <=> gl = "open"
  /\ port.state = "disconnecting" <=> gl = "closing"

\* Until an open times out, workport is completed at most once, for the thread that
\* waits for it, and a port that glink has open is the one the handle stands for.
HandshakeFresh ==
  /\ ~misput => ~timedout
  /\ ~timedout =>
       /\ port.work = 0 \/ (port.work = 1 /\ gl = "open" /\ \E f \in Files : pc[f] = "port")
       /\ gl = "opening" => port.work = 0 /\ \E f \in Files : pc[f] = "port"
       /\ gl \in {"opening", "open"} => chan

\* A file that has joined the channel, or opens it, says so in fl->refcount and
\* fl->ssrcount; unless an open has failed, no other file does.
JoinedHolds ==
  /\ \A f \in joined : /\ pc[f] \in {"open", "lock"} \cup Unmapping
                       /\ refcount[f] = 1 /\ flssr[f] = ssrcount
  /\ \A f \in Files : /\ pc[f] \in Unmapping => f \in joined
                      /\ pc[f] \in Opening => refcount[f] = 1 /\ flssr[f] = ssrcount
                      /\ flssr[f] <= ssrcount
  /\ ~misput => \A f \in Files :
       pc[f] \in {"open", "lock"} /\ refcount[f] = 1 /\ flssr[f] = ssrcount => f \in joined

\* The files that hold a reference.
Owed == joined \cup Putting

\* The count covers them while there is a channel; without one, and while one is being
\* opened, there are none.
Covered ==
  /\ IsFiniteSet(Owed)
  /\ ~misput => IF chan /\ \A f \in Files : pc[f] \notin Opening
                THEN kref >= Cardinality(Owed)
                ELSE Owed = {}

\* A mapping that is on its way out of me->maps can be put back.
HeapBounded == \A f \in Files : pc[f] = "reply" => heap < MaxHeap

IInv ==
  /\ TypeOK /\ MutexOwner /\ PortMatches /\ HandleLive /\ HandshakeFresh /\ JoinedHolds
  /\ Covered /\ HeapBounded

-----------------------------------------------------------------------------
(* Lemmas *)

Labels == {"none", "open", "lock", "link", "glink", "port", "heap", "reply", "put", "close"}

\* What an assignment to one thread's program counter leaves alone.
LEMMA LabelAssigned ==
  ASSUME TypeOK, NEW f \in Files, NEW l \in Labels, pc' = [pc EXCEPT ![f] = l]
  PROVE  /\ pc'[f] = l /\ \A g \in Files \ {f} : pc'[g] = pc[g]
         /\ pc' \in [Files -> Labels]
BY DEF TypeOK, Labels

\* ... and to its fl->refcount and fl->ssrcount.
LEMMA CountAssigned ==
  ASSUME TypeOK, NEW f \in Files, NEW r \in {0, 1}, NEW n \in Nat,
         refcount' = [refcount EXCEPT ![f] = r], flssr' = [flssr EXCEPT ![f] = n]
  PROVE  /\ refcount'[f] = r /\ flssr'[f] = n
         /\ \A g \in Files \ {f} : refcount'[g] = refcount[g] /\ flssr'[g] = flssr[g]
         /\ refcount' \in [Files -> {0, 1}] /\ flssr' \in [Files -> Nat]
BY DEF TypeOK

\* A free mutex means that nobody is opening the channel.
LEMMA MutexFree ==
  ASSUME MutexOwner, mutex = Nil
  PROVE  \A f \in Files : pc[f] \notin Opening \cup Unmapping
BY ConstantsOK DEF MutexOwner, ConstantsOK

\* Closes under way do not change when a thread moves elsewhere.
LEMMA PuttingKept ==
  ASSUME NEW f \in Files, \A g \in Files \ {f} : pc'[g] = pc[g],
         pc[f] \in {"put", "close"} <=> pc'[f] \in {"put", "close"}
  PROVE  Putting' = Putting
BY DEF Putting

\* Removing one of the files that hold a reference.
LEMMA OwedLess ==
  ASSUME NEW S, IsFiniteSet(S), NEW f \in S
  PROVE  /\ IsFiniteSet(S \ {f}) /\ Cardinality(S \ {f}) = Cardinality(S) - 1
         /\ Cardinality(S) \in Nat
         /\ Cardinality(S) <= 1 => S \ {f} = {}
<1>1. IsFiniteSet(S \ {f}) /\ Cardinality(S \ {f}) = Cardinality(S) - 1
  BY FS_RemoveElement
<1>2. Cardinality(S) \in Nat /\ Cardinality(S \ {f}) \in Nat
  BY <1>1, FS_CardinalityType
<1>3. Cardinality(S) <= 1 => Cardinality(S \ {f}) = 0
  BY <1>1, <1>2
<1>4. Cardinality(S \ {f}) = 0 => S \ {f} = {}
  BY <1>1, FS_EmptySet
<1> QED BY <1>1, <1>2, <1>3, <1>4

\* Adding one that may be there already.
LEMMA OwedMore ==
  ASSUME NEW S, IsFiniteSet(S), NEW f
  PROVE  /\ IsFiniteSet(S \cup {f}) /\ Cardinality(S) \in Nat
         /\ Cardinality(S \cup {f}) \in Nat /\ Cardinality(S \cup {f}) <= Cardinality(S) + 1
<1>1. IsFiniteSet(S \cup {f})
      /\ (Cardinality(S \cup {f}) = Cardinality(S) \/ Cardinality(S \cup {f}) = Cardinality(S) + 1)
  BY FS_AddElement
<1>2. Cardinality(S) \in Nat /\ Cardinality(S \cup {f}) \in Nat
  BY <1>1, FS_CardinalityType
<1> QED BY <1>1, <1>2

-----------------------------------------------------------------------------
(* The invariant is inductive *)

\* Before the first open there is no channel and nobody holds a reference.
LEMMA InitIInv ==
  ASSUME Init
  PROVE  IInv
<1>1. /\ pc = [f \in Files |-> "none"] /\ joined = {} /\ mutex = Nil /\ gl = "closed" /\ ~chan
      /\ port.state = "disconnected" /\ port.work = 0 /\ ~timedout
      /\ flssr = [f \in Files |-> 0] /\ ssrcount = 0
  BY DEF Init
<1>11. link \in [registered : BOOLEAN, up : BOOLEAN, work : Nat]
  BY DEF Init
<1>12. port \in [state : PortStates, work : Nat]
  BY DEF Init, PortStates
<1>13. 0 \in 0 .. MaxHeap
  BY ConstantsOK DEF ConstantsOK
<1>2. TypeOK
  <2>1. pc \in [Files -> Labels] /\ refcount \in [Files -> {0, 1}] /\ flssr \in [Files -> Nat]
    BY DEF Init, Labels
  <2>2. /\ chan \in BOOLEAN /\ up \in BOOLEAN /\ alive \in BOOLEAN
        /\ misput \in BOOLEAN /\ timedout \in BOOLEAN
    BY DEF Init
  <2>3. /\ mutex = Nil /\ kref = 0 /\ gl = "closed" /\ ssrcount = 0 /\ prev = 0 /\ boot = 0
        /\ heap = 0 /\ joined = {} /\ ops = 0
    BY DEF Init
  <2> QED BY ONLY <1>11, <1>12, <1>13, <2>1, <2>2, <2>3 DEF TypeOK, Labels
<1>3. MutexOwner BY <1>1, ConstantsOK DEF MutexOwner, Opening, Unmapping, ConstantsOK
<1>4. PortMatches BY <1>1 DEF PortMatches
<1>5. HandleLive BY <1>1 DEF HandleLive
<1>6. HandshakeFresh BY <1>1 DEF HandshakeFresh
<1>7. JoinedHolds BY <1>1 DEF JoinedHolds, Opening, Unmapping, Init
<1>8. Owed = {} BY <1>1 DEF Owed, Putting
<1>9. Covered BY <1>1, <1>8, FS_EmptySet DEF Covered
<1>10. HeapBounded BY <1>1 DEF HeapBounded
<1> QED BY <1>2, <1>3, <1>4, <1>5, <1>6, <1>7, <1>9, <1>10 DEF IInv

\* The DSP, its power-up notifier and the link state touch none of the counts.
LEMMA StepDsp ==
  ASSUME IInv, DspStop \/ DspBoot \/ SsrPowerup \/ LinkState \/ UNCHANGED vars
  PROVE  IInv'
<1>1. UNCHANGED <<pc, refcount, flssr, mutex, kref, chan, port, gl, ssrcount, prev, heap,
                  joined, misput, timedout, ops>>
  BY DEF DspStop, DspBoot, SsrPowerup, LinkState, vars, fileVars, portVars, dspVars, history
<1>2. link' \in [registered : BOOLEAN, up : BOOLEAN, work : Nat]
  <2>1. CASE LinkState
    <3> DEFINE n == IF alive THEN link.work + 1 ELSE link.work
    <3>1. n \in Nat /\ alive \in BOOLEAN /\ link \in [registered : BOOLEAN, up : BOOLEAN, work : Nat]
      BY DEF IInv, TypeOK
    <3>2. link' = [link EXCEPT !.up = alive, !.work = n]
      BY <2>1, <3>1 DEF LinkState
    <3> HIDE DEF n
    <3> QED BY <3>1, <3>2
  <2>2. CASE ~LinkState
    BY <2>2 DEF DspStop, DspBoot, SsrPowerup, vars, portVars, IInv, TypeOK
  <2> QED BY <2>1, <2>2
<1>3. up' \in BOOLEAN /\ alive' \in BOOLEAN /\ boot' \in Nat
  BY DEF DspStop, DspBoot, SsrPowerup, LinkState, vars, dspVars, IInv, TypeOK
<1>4. TypeOK' BY <1>1, <1>2, <1>3 DEF IInv, TypeOK
<1>5. MutexOwner' BY <1>1 DEF IInv, MutexOwner
<1>6. PortMatches' BY <1>1 DEF IInv, PortMatches
<1>7. HandleLive' BY <1>1 DEF IInv, HandleLive
<1>8. HandshakeFresh' BY <1>1 DEF IInv, HandshakeFresh
<1>9. JoinedHolds' BY <1>1 DEF IInv, JoinedHolds
<1>10. Covered' BY <1>1 DEF IInv, Covered, Owed, Putting
<1>11. HeapBounded' BY <1>1 DEF IInv, HeapBounded
<1> QED BY <1>4, <1>5, <1>6, <1>7, <1>8, <1>9, <1>10, <1>11 DEF IInv

\* fastrpc_device_open gives the file a fresh structure.
LEMMA StepDeviceOpen ==
  ASSUME IInv, NEW f \in Files, DeviceOpen(f)
  PROVE  IInv'
<1>1. /\ TypeOK /\ pc[f] = "none" /\ pc' = [pc EXCEPT ![f] = "open"]
      /\ refcount' = [refcount EXCEPT ![f] = 0] /\ flssr' = [flssr EXCEPT ![f] = ssrcount]
      /\ UNCHANGED <<mutex, kref, chan, link, port, gl, ssrcount, prev, up, alive, boot, heap,
                     joined, misput, timedout, ops>>
  BY DEF DeviceOpen, Goto, portVars, dspVars, history, IInv
<1>2. /\ pc'[f] = "open" /\ \A g \in Files \ {f} : pc'[g] = pc[g]
      /\ pc' \in [Files -> Labels]
  BY <1>1, LabelAssigned DEF Labels
<1>3. /\ refcount'[f] = 0 /\ flssr'[f] = ssrcount
      /\ \A g \in Files \ {f} : refcount'[g] = refcount[g] /\ flssr'[g] = flssr[g]
      /\ refcount' \in [Files -> {0, 1}] /\ flssr' \in [Files -> Nat]
  BY <1>1, CountAssigned DEF TypeOK
<1>4. TypeOK' BY <1>1, <1>2, <1>3 DEF TypeOK, Labels
<1>5. MutexOwner' BY <1>1, <1>2 DEF IInv, MutexOwner, Opening, Unmapping
<1>6. PortMatches' BY <1>1 DEF IInv, PortMatches
<1>7. HandleLive' BY <1>1 DEF IInv, HandleLive
<1>8. HandshakeFresh'
  BY <1>1, <1>2 DEF IInv, HandshakeFresh
<1>9. JoinedHolds'
  BY <1>1, <1>2, <1>3 DEF IInv, JoinedHolds, Opening, Unmapping, TypeOK
<1>10. Owed' = Owed
  BY <1>1, <1>2, PuttingKept DEF Owed
<1>11. Covered' BY <1>1, <1>2, <1>10 DEF IInv, Covered, Opening
<1>12. HeapBounded' BY <1>1, <1>2 DEF IInv, HeapBounded
<1> QED BY <1>4, <1>5, <1>6, <1>7, <1>8, <1>9, <1>11, <1>12 DEF IInv

\* FASTRPC_IOCTL_INIT has only begun.
LEMMA StepInitStart ==
  ASSUME IInv, NEW f \in Files, InitStart(f)
  PROVE  IInv'
<1>1. /\ TypeOK /\ pc[f] = "open" /\ pc' = [pc EXCEPT ![f] = "lock"] /\ ops' = ops + 1
      /\ UNCHANGED <<refcount, flssr, mutex, kref, chan, link, port, gl, ssrcount, prev, up, alive,
                     boot, heap, joined, misput, timedout>>
  BY DEF InitStart, Goto, portVars, dspVars, history, IInv
<1>2. /\ pc'[f] = "lock" /\ \A g \in Files \ {f} : pc'[g] = pc[g]
      /\ pc' \in [Files -> Labels]
  BY <1>1, LabelAssigned DEF Labels
<1>4. TypeOK' BY <1>1, <1>2 DEF TypeOK, Labels
<1>5. MutexOwner' BY <1>1, <1>2 DEF IInv, MutexOwner, Opening, Unmapping
<1>6. PortMatches' BY <1>1 DEF IInv, PortMatches
<1>7. HandleLive' BY <1>1 DEF IInv, HandleLive
<1>8. HandshakeFresh'
  BY <1>1, <1>2 DEF IInv, HandshakeFresh
<1>9. JoinedHolds'
  BY <1>1, <1>2 DEF IInv, JoinedHolds, Opening, Unmapping, TypeOK
<1>10. Owed' = Owed
  BY <1>1, <1>2, PuttingKept DEF Owed
<1>11. Covered' BY <1>1, <1>2, <1>10 DEF IInv, Covered, Opening
<1>12. HeapBounded' BY <1>1, <1>2 DEF IInv, HeapBounded
<1> QED BY <1>4, <1>5, <1>6, <1>7, <1>8, <1>9, <1>11, <1>12 DEF IInv

\* fastrpc_channel_open turned away because the DSP is down.
LEMMA StepEnterDown ==
  ASSUME IInv, NEW f \in Files, pc[f] = "lock", pc' = [pc EXCEPT ![f] = "open"],
         UNCHANGED <<refcount, flssr, mutex, kref, chan, link, port, gl, ssrcount, prev, up, alive,
                     boot, heap, joined, misput, timedout, ops>>
  PROVE  IInv'
<1>2. /\ pc'[f] = "open" /\ \A g \in Files \ {f} : pc'[g] = pc[g]
      /\ pc' \in [Files -> Labels]
  BY LabelAssigned DEF Labels, IInv
<1>4. TypeOK' BY <1>2 DEF TypeOK, Labels, IInv
<1>5. MutexOwner' BY <1>2 DEF IInv, MutexOwner, Opening, Unmapping
<1>6. PortMatches' BY DEF IInv, PortMatches
<1>7. HandleLive' BY DEF IInv, HandleLive
<1>8. HandshakeFresh'
  BY <1>2 DEF IInv, HandshakeFresh
<1>9. JoinedHolds'
  BY <1>2 DEF IInv, JoinedHolds, Opening, Unmapping, TypeOK
<1>10. Owed' = Owed
  BY <1>2, PuttingKept DEF Owed
<1>11. Covered' BY <1>2, <1>10 DEF IInv, Covered, Opening
<1>12. HeapBounded' BY <1>2 DEF IInv, HeapBounded
<1> QED BY <1>4, <1>5, <1>6, <1>7, <1>8, <1>9, <1>11, <1>12 DEF IInv

\* fastrpc_channel_open takes a reference on the open channel, or begins to open one
\* while nobody holds a reference.
LEMMA StepEnter ==
  ASSUME IInv, NEW f \in Files, ChannelOpenEnter(f)
  PROVE  IInv'
<1>1. /\ TypeOK /\ pc[f] = "lock" /\ mutex = Nil
      /\ UNCHANGED <<chan, link, port, gl, ssrcount, prev, up, alive, boot, heap, misput, timedout,
                     ops>>
  BY DEF ChannelOpenEnter, portVars, dspVars, IInv
<1>2. CASE pc' = [pc EXCEPT ![f] = "open"] /\ UNCHANGED <<refcount, flssr, mutex, kref, joined>>
  BY <1>1, <1>2, StepEnterDown
<1>3. CASE /\ flssr' = [flssr EXCEPT ![f] = ssrcount]
           /\ refcount' = [refcount EXCEPT ![f] = 1]
           /\ kref # 0 /\ chan /\ kref' = kref + 1
           /\ pc' = [pc EXCEPT ![f] = "open"]
           /\ joined' = joined \cup {f} /\ UNCHANGED mutex
  <2>2. /\ pc'[f] = "open" /\ \A g \in Files \ {f} : pc'[g] = pc[g]
        /\ pc' \in [Files -> Labels]
    BY <1>1, <1>3, LabelAssigned DEF Labels
  <2>3. /\ refcount'[f] = 1 /\ flssr'[f] = ssrcount
        /\ \A g \in Files \ {f} : refcount'[g] = refcount[g] /\ flssr'[g] = flssr[g]
        /\ refcount' \in [Files -> {0, 1}] /\ flssr' \in [Files -> Nat]
    BY <1>1, <1>3, CountAssigned DEF TypeOK
  <2>4. TypeOK' BY <1>1, <1>3, <2>2, <2>3 DEF TypeOK, Labels
  <2>5. MutexOwner' BY <1>1, <1>3, <2>2 DEF IInv, MutexOwner, Opening, Unmapping
  <2>6. PortMatches' BY <1>1 DEF IInv, PortMatches
  <2>7. HandleLive' BY <1>1 DEF IInv, HandleLive
  <2>8. HandshakeFresh' BY <1>1, <2>2 DEF IInv, HandshakeFresh
  <2>9. JoinedHolds' BY <1>1, <1>3, <2>2, <2>3 DEF IInv, JoinedHolds, Opening, Unmapping, TypeOK
  <2>10. Owed' = Owed \cup {f}
    BY <1>1, <1>3, <2>2, PuttingKept DEF Owed
  <2>11. /\ IsFiniteSet(Owed') /\ Cardinality(Owed) \in Nat
         /\ Cardinality(Owed') \in Nat /\ Cardinality(Owed') <= Cardinality(Owed) + 1
    BY <2>10, OwedMore DEF IInv, Covered
  <2>12. \A g \in Files : pc[g] \notin Opening
    BY <1>1, MutexFree DEF IInv
  <2>13. ~misput => kref' >= Cardinality(Owed')
    BY <1>1, <1>3, <2>11, <2>12 DEF IInv, Covered, TypeOK
  <2>14. \A g \in Files : pc'[g] \notin Opening
    BY <2>2, <2>12 DEF Opening
  <2>15. Covered' BY <1>1, <1>3, <2>11, <2>13, <2>14 DEF Covered
  <2>16. HeapBounded' BY <1>1, <2>2 DEF IInv, HeapBounded
  <2> QED BY <2>4, <2>5, <2>6, <2>7, <2>8, <2>9, <2>15, <2>16 DEF IInv
<1>4. CASE /\ flssr' = [flssr EXCEPT ![f] = ssrcount]
           /\ refcount' = [refcount EXCEPT ![f] = 1]
           /\ kref' \in Int /\ (kref = 0 \/ ~chan)
           /\ pc' = [pc EXCEPT ![f] = IF link.registered THEN "glink" ELSE "link"]
           /\ mutex' = f /\ joined' = joined \ {f}
  <2> DEFINE l == IF link.registered THEN "glink" ELSE "link"
  <2>1. l \in {"glink", "link"} /\ l \in Labels /\ pc' = [pc EXCEPT ![f] = l]
    BY <1>4 DEF Labels
  <2> HIDE DEF l
  <2>2. /\ pc'[f] \in {"glink", "link"} /\ \A g \in Files \ {f} : pc'[g] = pc[g]
        /\ pc' \in [Files -> Labels]
    BY <1>1, <2>1, LabelAssigned
  <2>3. /\ refcount'[f] = 1 /\ flssr'[f] = ssrcount
        /\ \A g \in Files \ {f} : refcount'[g] = refcount[g] /\ flssr'[g] = flssr[g]
        /\ refcount' \in [Files -> {0, 1}] /\ flssr' \in [Files -> Nat]
    BY <1>1, <1>4, CountAssigned DEF TypeOK
  <2>4. TypeOK' BY <1>1, <1>4, <2>2, <2>3 DEF TypeOK, Labels
  <2>12. \A g \in Files : pc[g] \notin Opening \cup Unmapping
    BY <1>1, MutexFree DEF IInv
  <2>5. MutexOwner' BY <1>1, <1>4, <2>2, <2>12 DEF MutexOwner, Opening, Unmapping
  <2>6. PortMatches' BY <1>1 DEF IInv, PortMatches
  <2>7. HandleLive' BY <1>1 DEF IInv, HandleLive
  <2>8. HandshakeFresh' BY <1>1, <2>2 DEF IInv, HandshakeFresh
  <2>9. JoinedHolds' BY <1>1, <1>4, <2>2, <2>3 DEF IInv, JoinedHolds, Opening, Unmapping, TypeOK
  <2>10. Owed' \subseteq Owed
    BY <1>1, <1>4, <2>2, PuttingKept DEF Owed
  <2>11. IsFiniteSet(Owed')
    BY <2>10, FS_Subset DEF IInv, Covered
  <2>13. ~misput /\ chan => kref = 0 /\ kref >= Cardinality(Owed)
    BY <1>4, <2>12 DEF IInv, Covered
  <2>14. Cardinality(Owed) \in Nat /\ (Cardinality(Owed) = 0 => Owed = {})
    BY FS_CardinalityType, FS_EmptySet DEF IInv, Covered
  <2>15. ~misput => Owed = {}
    BY <2>13, <2>14, <2>12 DEF IInv, Covered
  <2>17. Covered' BY <1>1, <2>2, <2>10, <2>11, <2>15 DEF Covered, Opening
  <2>16. HeapBounded' BY <1>1, <2>2 DEF IInv, HeapBounded
  <2> QED BY <2>4, <2>5, <2>6, <2>7, <2>8, <2>9, <2>17, <2>16 DEF IInv
<1> QED BY <1>1, <1>2, <1>3, <1>4 DEF ChannelOpenEnter, Goto, KrefGet, TypeOK

\* A thread leaves or advances within the opening of the channel: what has to be
\* looked at apart from its program counter, the mutex and the port.
LEMMA StepRegister ==
  ASSUME IInv, NEW f \in Files, GlinkRegister(f)
  PROVE  IInv'
<1>1. /\ TypeOK /\ pc[f] = "link"
      /\ UNCHANGED <<refcount, flssr, kref, chan, port, gl, ssrcount, prev, up, alive, boot, heap,
                     joined, timedout, ops>>
  BY DEF GlinkRegister, dspVars, IInv
<1>2. link' \in [registered : BOOLEAN, up : BOOLEAN, work : Nat]
  <2>1. link \in [registered : BOOLEAN, up : BOOLEAN, work : Nat]
    BY <1>1 DEF TypeOK
  <2>2. CASE link' = [link EXCEPT !.registered = TRUE]
    BY ONLY <2>1, <2>2
  <2>3. CASE link.work > 0 /\ link' = [link EXCEPT !.work = @ - 1]
    <3>1. link.work - 1 \in Nat BY <2>1, <2>3
    <3>2. link' = [link EXCEPT !.work = link.work - 1] BY <2>3
    <3> QED BY ONLY <2>1, <3>1, <3>2
  <2> QED BY <2>1, <2>2, <2>3 DEF GlinkRegister
<1>3. CASE UNCHANGED <<pc, mutex, misput>>
  <2>1. TypeOK' BY <1>1, <1>2, <1>3 DEF TypeOK
  <2>2. MutexOwner' BY <1>3 DEF IInv, MutexOwner
  <2>3. PortMatches' BY <1>1 DEF IInv, PortMatches
  <2>4. HandleLive' BY <1>1 DEF IInv, HandleLive
  <2>5. HandshakeFresh' BY <1>1, <1>3 DEF IInv, HandshakeFresh
  <2>6. JoinedHolds' BY <1>1, <1>3 DEF IInv, JoinedHolds
  <2>7. Covered' BY <1>1, <1>3 DEF IInv, Covered, Owed, Putting
  <2>8. HeapBounded' BY <1>1, <1>3 DEF IInv, HeapBounded
  <2> QED BY <2>1, <2>2, <2>3, <2>4, <2>5, <2>6, <2>7, <2>8 DEF IInv
<1>4. CASE \/ pc' = [pc EXCEPT ![f] = "glink"] /\ UNCHANGED <<mutex, misput>>
           \/ pc' = [pc EXCEPT ![f] = "open"] /\ mutex' = Nil /\ misput'
  <2>1. /\ pc'[f] \in {"glink", "open"} /\ \A g \in Files \ {f} : pc'[g] = pc[g]
        /\ pc' \in [Files -> Labels]
    BY <1>1, <1>4, LabelAssigned DEF Labels
  <2>2. \/ pc'[f] = "glink" /\ UNCHANGED <<mutex, misput>>
        \/ pc'[f] = "open" /\ mutex' = Nil /\ misput'
    BY <1>1, <1>4, LabelAssigned DEF Labels
  <2>3. TypeOK'
    BY <1>1, <1>2, <1>4, <2>1 DEF TypeOK, Labels
  <2>4. MutexOwner'
    BY <1>1, <2>1, <2>2, ConstantsOK DEF IInv, MutexOwner, Opening, Unmapping, ConstantsOK
  <2>5. PortMatches' BY <1>1 DEF IInv, PortMatches
  <2>6. HandleLive' BY <1>1 DEF IInv, HandleLive
  <2>7. HandshakeFresh' BY <1>1, <2>1, <2>2 DEF IInv, HandshakeFresh
  <2>8. JoinedHolds' BY <1>1, <2>1, <2>2 DEF IInv, JoinedHolds, Opening, Unmapping, TypeOK
  <2>9. Owed' = Owed
    BY <1>1, <2>1, PuttingKept DEF Owed
  <2>10. Covered' BY <1>1, <2>1, <2>2, <2>9 DEF IInv, Covered, Opening
  <2>11. HeapBounded' BY <1>1, <2>1 DEF IInv, HeapBounded
  <2> QED BY <2>3, <2>4, <2>5, <2>6, <2>7, <2>8, <2>10, <2>11 DEF IInv
<1> QED BY <1>3, <1>4 DEF GlinkRegister, OpenFails, Unlock, Goto

\* fastrpc_glink_open: only a port that glink has closed is opened.
LEMMA StepGlinkOpen ==
  ASSUME IInv, NEW f \in Files, GlinkOpen(f)
  PROVE  IInv'
<1>1. /\ TypeOK /\ pc[f] = "glink" /\ pc' = [pc EXCEPT ![f] = "port"]
      /\ UNCHANGED <<refcount, flssr, mutex, kref, link, ssrcount, prev, up, alive, boot, heap,
                     joined, misput, timedout, ops>>
  BY DEF GlinkOpen, Goto, dspVars, history, IInv
<1>2. /\ pc'[f] = "port" /\ \A g \in Files \ {f} : pc'[g] = pc[g]
      /\ pc' \in [Files -> Labels]
  BY <1>1, LabelAssigned DEF Labels
<1>3. \/ /\ port.state = "disconnected" /\ port'.state = "connecting" /\ port'.work = port.work
         /\ port' \in [state : PortStates, work : Nat]
         /\ gl = "closed" /\ gl' = "opening" /\ chan'
      \/ UNCHANGED <<port, gl, chan>>
  <2>1. port \in [state : PortStates, work : Nat] /\ "connecting" \in PortStates
    BY <1>1 DEF TypeOK, PortStates
  <2>2. CASE port.state = "disconnected" /\ port' = [port EXCEPT !.state = "connecting"]
    <3>1. /\ port'.state = "connecting" /\ port'.work = port.work
          /\ port' \in [state : PortStates, work : Nat]
      BY ONLY <2>1, <2>2
    <3> QED BY <2>2, <3>1 DEF GlinkOpen, IInv, PortMatches
  <2> QED BY <2>2 DEF GlinkOpen
<1>4. TypeOK' BY <1>1, <1>2, <1>3 DEF TypeOK, Labels
<1>5. MutexOwner' BY <1>1, <1>2 DEF IInv, MutexOwner, Opening, Unmapping
<1>6. PortMatches' BY <1>3 DEF IInv, PortMatches
<1>7. HandleLive' BY <1>3 DEF IInv, HandleLive
<1>8. HandshakeFresh' BY <1>1, <1>2, <1>3 DEF IInv, HandshakeFresh
<1>9. JoinedHolds' BY <1>1, <1>2 DEF IInv, JoinedHolds, Opening, Unmapping, TypeOK
<1>10. Owed' = Owed
  BY <1>1, <1>2, PuttingKept DEF Owed
<1>11. Covered' BY <1>1, <1>2, <1>10 DEF IInv, Covered, Opening
<1>12. HeapBounded' BY <1>1, <1>2 DEF IInv, HeapBounded
<1> QED BY <1>4, <1>5, <1>6, <1>7, <1>8, <1>9, <1>11, <1>12 DEF IInv

\* The wait for workport ends with the first reference, or times out.
LEMMA StepPortWait ==
  ASSUME IInv, NEW f \in Files, PortWait(f)
  PROVE  IInv'
<1>1. /\ TypeOK /\ pc[f] = "port"
      /\ UNCHANGED <<refcount, flssr, link, gl, ssrcount, prev, up, alive, boot, heap, ops>>
  BY DEF PortWait, dspVars, IInv
<1>2. CASE /\ port.work > 0 /\ port' = [port EXCEPT !.work = port.work - 1] /\ kref' = 1
           /\ joined' = joined \cup {f} /\ UNCHANGED <<chan, misput, timedout>>
           /\ \/ pc' = [pc EXCEPT ![f] = "heap"] /\ UNCHANGED mutex
              \/ pc' = [pc EXCEPT ![f] = "open"] /\ mutex' = Nil
  <2>1. /\ port \in [state : PortStates, work : Nat] /\ port.work - 1 \in Nat
    BY <1>1, <1>2 DEF TypeOK
  <2>2. /\ port' \in [state : PortStates, work : Nat] /\ port'.state = port.state
        /\ port'.work = port.work - 1
    BY ONLY <1>2, <2>1
  <2>3. /\ \A g \in Files \ {f} : pc'[g] = pc[g]
        /\ pc' \in [Files -> Labels]
        /\ (pc'[f] = "heap" /\ UNCHANGED mutex) \/ (pc'[f] = "open" /\ mutex' = Nil)
    BY <1>1, <1>2, LabelAssigned DEF Labels
  <2>4. TypeOK' BY <1>1, <1>2, <2>2, <2>3 DEF TypeOK, Labels
  <2>5. MutexOwner'
    BY <1>1, <2>3, ConstantsOK DEF IInv, MutexOwner, Opening, Unmapping, ConstantsOK
  <2>6. PortMatches' BY <1>1, <2>2 DEF IInv, PortMatches
  <2>7. HandleLive' BY <1>1, <1>2 DEF IInv, HandleLive
  <2>8. ~timedout => port.work = 1 /\ gl = "open" /\ chan
    BY <1>2 DEF IInv, HandshakeFresh
  <2>9. HandshakeFresh' BY <1>1, <1>2, <2>2, <2>8 DEF IInv, HandshakeFresh
  <2>10. refcount[f] = 1 /\ flssr[f] = ssrcount
    BY <1>1 DEF IInv, JoinedHolds, Opening
  <2>11. JoinedHolds' BY <1>1, <1>2, <2>3, <2>10 DEF IInv, JoinedHolds, Opening, Unmapping, TypeOK
  <2>12. Owed' = Owed \cup {f}
    BY <1>1, <1>2, <2>3, PuttingKept DEF Owed
  <2>13. ~misput => Owed = {}
    BY <1>1 DEF IInv, Covered, Opening
  <2>14. IsFiniteSet(Owed')
    BY <2>12, OwedMore DEF IInv, Covered
  <2>15. Cardinality({f}) = 1
    BY FS_Singleton
  <2>16. ~misput => kref' >= Cardinality(Owed')
    BY <1>2, <2>12, <2>13, <2>15
  <2>17. \A g \in Files : pc'[g] \notin Opening
    BY <1>1, <2>3, ConstantsOK DEF IInv, MutexOwner, Opening, ConstantsOK
  <2>18. ~misput => chan
    BY <2>8 DEF IInv, HandshakeFresh
  <2>19. Covered' BY <1>2, <2>14, <2>16, <2>17, <2>18 DEF Covered
  <2>20. HeapBounded' BY <1>1, <2>3 DEF IInv, HeapBounded
  <2> QED BY <2>4, <2>5, <2>6, <2>7, <2>9, <2>11, <2>19, <2>20 DEF IInv
<1>3. CASE /\ ~chan' /\ pc' = [pc EXCEPT ![f] = "open"] /\ mutex' = Nil /\ misput' /\ timedout'
           /\ UNCHANGED <<port, kref, joined>>
           /\ chan' \in BOOLEAN /\ misput' \in BOOLEAN /\ timedout' \in BOOLEAN
  <2>3. /\ \A g \in Files \ {f} : pc'[g] = pc[g]
        /\ pc' \in [Files -> Labels] /\ pc'[f] = "open"
    BY <1>1, <1>3, LabelAssigned DEF Labels
  <2>4. TypeOK' BY <1>1, <1>3, <2>3 DEF TypeOK, Labels
  <2>5. MutexOwner'
    BY <1>1, <1>3, <2>3, ConstantsOK DEF IInv, MutexOwner, Opening, Unmapping, ConstantsOK
  <2>6. PortMatches' BY <1>1, <1>3 DEF IInv, PortMatches
  <2>7. HandleLive' BY <1>3 DEF HandleLive
  <2>9. HandshakeFresh' BY <1>3 DEF HandshakeFresh
  <2>11. JoinedHolds' BY <1>1, <1>3, <2>3 DEF IInv, JoinedHolds, Opening, Unmapping, TypeOK
  <2>12. Owed' = Owed
    BY <1>1, <1>3, <2>3, PuttingKept DEF Owed
  <2>19. Covered' BY <1>3, <2>12 DEF IInv, Covered
  <2>20. HeapBounded' BY <1>1, <2>3 DEF IInv, HeapBounded
  <2> QED BY <2>4, <2>5, <2>6, <2>7, <2>9, <2>11, <2>19, <2>20 DEF IInv
<1> QED BY <1>2, <1>3 DEF PortWait, OpenFails, Unlock, Goto

\* A thread that unmaps the remote heap keeps the mutex, the reference and the channel
\* until it leaves.
LEMMA StepUnmap ==
  ASSUME IInv, NEW f \in Files, HeapRemove(f) \/ HeapReply(f)
  PROVE  IInv'
<1>1. /\ TypeOK /\ pc[f] \in Unmapping
      /\ UNCHANGED <<refcount, flssr, kref, chan, link, port, gl, ssrcount, up, alive, boot,
                     joined, misput, timedout, ops>>
  BY DEF HeapRemove, HeapReply, portVars, history, IInv, Unmapping
<1>2. /\ heap \in Int /\ 0 <= heap /\ heap <= MaxHeap /\ MaxHeap \in Nat
      /\ pc[f] = "reply" => heap < MaxHeap
  BY <1>1, ConstantsOK DEF IInv, HeapBounded, TypeOK, ConstantsOK
<1>3. /\ heap' \in 0 .. MaxHeap
      /\ \/ pc' = [pc EXCEPT ![f] = "reply"] /\ heap' < MaxHeap /\ UNCHANGED <<mutex, prev>>
         \/ pc' = [pc EXCEPT ![f] = "heap"] /\ UNCHANGED <<mutex, prev>>
         \/ pc' = [pc EXCEPT ![f] = "open"] /\ mutex' = Nil /\ prev' = ssrcount
  BY <1>1, <1>2 DEF HeapRemove, HeapReply, Goto, Unlock
<1>4. /\ \A g \in Files \ {f} : pc'[g] = pc[g]
      /\ pc' \in [Files -> Labels]
      /\ \/ pc'[f] = "reply" /\ heap' < MaxHeap /\ UNCHANGED <<mutex, prev>>
         \/ pc'[f] = "heap" /\ UNCHANGED <<mutex, prev>>
         \/ pc'[f] = "open" /\ mutex' = Nil /\ prev' = ssrcount
  BY <1>1, <1>3, LabelAssigned DEF Labels
<1>5. \A g \in Files \ {f} : pc[g] \notin Opening \cup Unmapping
  BY <1>1 DEF IInv, MutexOwner
<1>6. TypeOK' BY <1>1, <1>3, <1>4 DEF TypeOK, Labels
<1>7. MutexOwner'
  BY <1>1, <1>4, ConstantsOK DEF IInv, MutexOwner, Opening, Unmapping, ConstantsOK
<1>8. PortMatches' BY <1>1 DEF IInv, PortMatches
<1>9. HandleLive' BY <1>1 DEF IInv, HandleLive
<1>10. HandshakeFresh' BY <1>1, <1>4 DEF IInv, HandshakeFresh, Unmapping
<1>11. JoinedHolds' BY <1>1, <1>4 DEF IInv, JoinedHolds, Opening, Unmapping, TypeOK
<1>12. Owed' = Owed
  BY <1>1, <1>4, PuttingKept DEF Owed, Unmapping
<1>13. (\A g \in Files : pc'[g] \notin Opening) <=> (\A g \in Files : pc[g] \notin Opening)
  BY <1>1, <1>4 DEF Opening, Unmapping
<1>14. Covered' BY <1>1, <1>12, <1>13 DEF IInv, Covered
<1>15. HeapBounded' BY <1>4, <1>5 DEF HeapBounded, Unmapping
<1> QED BY <1>6, <1>7, <1>8, <1>9, <1>10, <1>11, <1>14, <1>15 DEF IInv

\* A mapping of the remote heap leaves room for the one that may be put back.
LEMMA StepHeapMap ==
  ASSUME IInv, NEW f \in Files, HeapMap(f)
  PROVE  IInv'
<1> DEFINE R == {g \in Files : pc[g] = "reply"}
<1>1. /\ TypeOK /\ heap + Cardinality(R) < MaxHeap /\ heap' = heap + 1 /\ ops' = ops + 1
      /\ UNCHANGED <<pc, refcount, flssr, mutex, kref, chan, link, port, gl, ssrcount, prev, up,
                     alive, boot, joined, misput, timedout>>
  BY DEF HeapMap, fileVars, portVars, dspVars, history, IInv
<1>2. R = {} \/ R = {mutex}
  BY DEF IInv, MutexOwner, Unmapping
<1> HIDE DEF R
<1>3. Cardinality(R) \in {0, 1} /\ (Cardinality(R) = 0 => R = {})
  <2>1. CASE R = {} BY <2>1, FS_EmptySet
  <2>2. CASE R = {mutex} BY <2>2, FS_Singleton
  <2> QED BY <1>2, <2>1, <2>2
<1>4. heap' \in 0 .. MaxHeap /\ (R # {} => heap' < MaxHeap)
  BY <1>1, <1>3, ConstantsOK DEF TypeOK, ConstantsOK
<1>5. TypeOK' BY <1>1, <1>4 DEF TypeOK
<1>6. MutexOwner' BY <1>1 DEF IInv, MutexOwner
<1>7. PortMatches' BY <1>1 DEF IInv, PortMatches
<1>8. HandleLive' BY <1>1 DEF IInv, HandleLive
<1>9. HandshakeFresh' BY <1>1 DEF IInv, HandshakeFresh
<1>10. JoinedHolds' BY <1>1 DEF IInv, JoinedHolds
<1>11. Covered' BY <1>1 DEF IInv, Covered, Owed, Putting
<1>12. HeapBounded' BY <1>1, <1>4 DEF HeapBounded, R
<1> QED BY <1>5, <1>6, <1>7, <1>8, <1>9, <1>10, <1>11, <1>12 DEF IInv

\* fastrpc_file_free: the file no longer uses the channel; it drops a reference only if
\* it holds one.
LEMMA StepFileFree ==
  ASSUME IInv, NEW f \in Files, FileFree(f)
  PROVE  IInv'
<1>1. /\ TypeOK /\ pc[f] = "open" /\ joined' = joined \ {f}
      /\ \/ pc' = [pc EXCEPT ![f] = "put"] /\ refcount[f] = 1 /\ flssr[f] = ssrcount
         \/ pc' = [pc EXCEPT ![f] = "none"]
      /\ UNCHANGED <<refcount, flssr, mutex, kref, chan, link, port, gl, ssrcount, prev, up, alive,
                     boot, heap, misput, timedout, ops>>
  BY DEF FileFree, Goto, portVars, dspVars, IInv
<1>2. /\ \A g \in Files \ {f} : pc'[g] = pc[g]
      /\ pc' \in [Files -> Labels]
      /\ \/ pc'[f] = "put" /\ refcount[f] = 1 /\ flssr[f] = ssrcount
         \/ pc'[f] = "none"
  BY <1>1, LabelAssigned DEF Labels
<1>4. TypeOK' BY <1>1, <1>2 DEF TypeOK, Labels
<1>5. MutexOwner' BY <1>1, <1>2 DEF IInv, MutexOwner, Opening, Unmapping
<1>6. PortMatches' BY <1>1 DEF IInv, PortMatches
<1>7. HandleLive' BY <1>1 DEF IInv, HandleLive
<1>8. HandshakeFresh' BY <1>1, <1>2 DEF IInv, HandshakeFresh
<1>9. JoinedHolds' BY <1>1, <1>2 DEF IInv, JoinedHolds, Opening, Unmapping, TypeOK
<1>10. Owed' \subseteq Owed \cup {f} /\ (~misput => Owed' \subseteq Owed)
  BY <1>1, <1>2 DEF Owed, Putting, IInv, JoinedHolds
<1>11. /\ IsFiniteSet(Owed') /\ Cardinality(Owed) \in Nat /\ Cardinality(Owed') \in Nat
       /\ ~misput => Cardinality(Owed') <= Cardinality(Owed)
  <2>1. IsFiniteSet(Owed) BY DEF IInv, Covered
  <2>2. IsFiniteSet(Owed \cup {f}) BY <2>1, OwedMore
  <2>3. IsFiniteSet(Owed') BY <1>10, <2>2, FS_Subset
  <2>4. ~misput => Cardinality(Owed') <= Cardinality(Owed) BY <1>10, <2>1, FS_Subset
  <2> QED BY <2>1, <2>3, <2>4, FS_CardinalityType
<1>12. (\A g \in Files : pc'[g] \notin Opening) <=> (\A g \in Files : pc[g] \notin Opening)
  BY <1>1, <1>2 DEF Opening
<1>13. ~misput => IF chan' /\ \A g \in Files : pc'[g] \notin Opening
                  THEN kref' >= Cardinality(Owed') ELSE Owed' = {}
  BY <1>1, <1>10, <1>11, <1>12 DEF IInv, Covered, TypeOK
<1>14. Covered' BY <1>1, <1>11, <1>13 DEF Covered
<1>15. HeapBounded' BY <1>1, <1>2 DEF IInv, HeapBounded
<1> QED BY <1>4, <1>5, <1>6, <1>7, <1>8, <1>9, <1>14, <1>15 DEF IInv

\* kref_put_mutex without the mutex.
LEMMA StepKrefPut ==
  ASSUME IInv, NEW f \in Files, KrefPut(f)
  PROVE  IInv'
<1>1. /\ TypeOK /\ pc[f] = "put"
      /\ \/ pc' = [pc EXCEPT ![f] = "none"] /\ kref' = kref - 1
         \/ pc' = [pc EXCEPT ![f] = "close"] /\ UNCHANGED kref
      /\ UNCHANGED <<refcount, flssr, mutex, chan, link, port, gl, ssrcount, prev, up, alive,
                     boot, heap, joined, misput, timedout, ops>>
  BY DEF KrefPut, Goto, portVars, dspVars, history, IInv
<1>2. /\ \A g \in Files \ {f} : pc'[g] = pc[g]
      /\ pc' \in [Files -> Labels]
      /\ \/ pc'[f] = "none" /\ kref' = kref - 1
         \/ pc'[f] = "close" /\ UNCHANGED kref
  BY <1>1, LabelAssigned DEF Labels
<1>4. TypeOK' BY <1>1, <1>2 DEF TypeOK, Labels
<1>5. MutexOwner' BY <1>1, <1>2 DEF IInv, MutexOwner, Opening, Unmapping
<1>6. PortMatches' BY <1>1 DEF IInv, PortMatches
<1>7. HandleLive' BY <1>1 DEF IInv, HandleLive
<1>8. HandshakeFresh' BY <1>1, <1>2 DEF IInv, HandshakeFresh
<1>9. JoinedHolds' BY <1>1, <1>2 DEF IInv, JoinedHolds, Opening, Unmapping, TypeOK
<1>10. f \in Owed /\ f \notin joined
  BY <1>1 DEF Owed, Putting, IInv, JoinedHolds, Unmapping
<1>11. /\ IsFiniteSet(Owed) /\ IsFiniteSet(Owed \ {f}) /\ Cardinality(Owed) \in Nat
       /\ Cardinality(Owed \ {f}) = Cardinality(Owed) - 1
  BY <1>10, OwedLess DEF IInv, Covered
<1>12. \/ kref' = kref - 1 /\ Owed' = Owed \ {f}
       \/ kref' = kref /\ Owed' = Owed
  <2>1. CASE pc'[f] = "none" /\ kref' = kref - 1
    <3>1. Putting' = Putting \ {f} BY <1>2, <2>1 DEF Putting
    <3> QED BY <1>1, <1>10, <2>1, <3>1 DEF Owed
  <2>2. CASE pc'[f] = "close" /\ UNCHANGED kref
    <3>1. Putting' = Putting BY <1>1, <1>2, <2>2, PuttingKept
    <3> QED BY <1>1, <2>2, <3>1 DEF Owed
  <2> QED BY <1>2, <2>1, <2>2
<1>13. \A g \in Files : pc'[g] \notin Opening <=> pc[g] \notin Opening
  BY <1>1, <1>2 DEF Opening
<1>14. ~misput => chan /\ (\A g \in Files : pc[g] \notin Opening) /\ kref >= Cardinality(Owed)
  BY <1>10 DEF IInv, Covered
<1>15. ~misput => kref' >= Cardinality(Owed')
  <2>1. kref \in Int BY <1>1 DEF TypeOK
  <2>2. CASE kref' = kref - 1 /\ Owed' = Owed \ {f}
    <3>1. Cardinality(Owed') = Cardinality(Owed) - 1 BY <1>11, <2>2
    <3> QED BY <1>11, <1>14, <2>1, <2>2, <3>1
  <2>3. CASE kref' = kref /\ Owed' = Owed
    BY <1>14, <2>3
  <2> QED BY <1>12, <2>2, <2>3
<1>16. Covered' BY <1>1, <1>11, <1>12, <1>13, <1>14, <1>15 DEF Covered
<1>17. HeapBounded' BY <1>1, <1>2 DEF IInv, HeapBounded
<1> QED BY <1>4, <1>5, <1>6, <1>7, <1>8, <1>9, <1>16, <1>17 DEF IInv

\* What fastrpc_glink_close does to a port.
LEMMA GlinkCloses ==
  ASSUME TypeOK, PortMatches, GlinkClose
  PROVE  /\ port' \in [state : PortStates, work : Nat] /\ port'.work = port.work
         /\ gl' \in {"closed", "opening", "closing"}
         /\ gl' = "opening" => gl = "opening"
         /\ PortMatches'
<1>1. port \in [state : PortStates, work : Nat] /\ "disconnecting" \in PortStates
  BY DEF TypeOK, PortStates
<1>2. CASE port.state = "connected" /\ port' = [port EXCEPT !.state = "disconnecting"] /\ gl' = "closing"
  <2>1. /\ port' \in [state : PortStates, work : Nat] /\ port'.work = port.work
        /\ port'.state = "disconnecting"
    BY ONLY <1>1, <1>2
  <2> QED BY <1>2, <2>1 DEF PortMatches
<1>3. CASE port.state # "connected" /\ UNCHANGED <<port, gl>>
  BY <1>1, <1>3 DEF PortMatches, TypeOK
<1> QED BY <1>2, <1>3 DEF GlinkClose

\* The last reference closes the channel; the count is looked at again under the mutex.
LEMMA StepChannelClose ==
  ASSUME IInv, NEW f \in Files, ChannelClose(f)
  PROVE  IInv'
<1>1. /\ TypeOK /\ pc[f] = "close" /\ mutex = Nil /\ kref' = kref - 1
      /\ pc' = [pc EXCEPT ![f] = "none"]
      /\ UNCHANGED <<refcount, flssr, mutex, link, ssrcount, prev, up, alive, boot, heap, joined,
                     misput, timedout, ops>>
  BY DEF ChannelClose, Goto, dspVars, history, IInv
<1>2. /\ \A g \in Files \ {f} : pc'[g] = pc[g]
      /\ pc' \in [Files -> Labels] /\ pc'[f] = "none"
  BY <1>1, LabelAssigned DEF Labels
<1>3. \A g \in Files : pc[g] \notin Opening \cup Unmapping
  BY <1>1, MutexFree DEF IInv
<1>4. /\ port' \in [state : PortStates, work : Nat] /\ port'.work = port.work
      /\ gl' \in {"closed", "opening", "open", "closing"} /\ PortMatches'
      /\ \/ kref = 1 /\ chan' = FALSE /\ (gl' = "opening" => gl = "opening") /\ gl' # "open"
         \/ kref # 1 /\ UNCHANGED <<chan, gl>>
  <2>1. CASE kref = 1
    BY <1>1, <2>1, GlinkCloses DEF ChannelClose, IInv
  <2>2. CASE kref # 1
    <3>1. UNCHANGED <<chan, port, gl>> BY <2>2 DEF ChannelClose
    <3> QED BY <2>2, <3>1 DEF IInv, PortMatches, TypeOK
  <2> QED BY <2>1, <2>2
<1>18. chan' \in BOOLEAN BY <1>1, <1>4 DEF TypeOK
<1>5. TypeOK' BY <1>1, <1>2, <1>4, <1>18 DEF TypeOK, Labels
<1>6. MutexOwner' BY <1>1, <1>2 DEF IInv, MutexOwner, Opening, Unmapping
<1>7. HandleLive' BY <1>4 DEF IInv, HandleLive
<1>8. HandshakeFresh'
  BY <1>1, <1>2, <1>3, <1>4 DEF IInv, HandshakeFresh, Opening
<1>9. JoinedHolds' BY <1>1, <1>2 DEF IInv, JoinedHolds, Opening, Unmapping, TypeOK
<1>10. f \in Owed /\ f \notin joined
  BY <1>1 DEF Owed, Putting, IInv, JoinedHolds, Unmapping
<1>11. /\ IsFiniteSet(Owed) /\ IsFiniteSet(Owed \ {f}) /\ Cardinality(Owed) \in Nat
       /\ Cardinality(Owed \ {f}) = Cardinality(Owed) - 1
       /\ Cardinality(Owed) <= 1 => Owed \ {f} = {}
  BY <1>10, OwedLess DEF IInv, Covered
<1>12. Owed' = Owed \ {f}
  <2>1. Putting' = Putting \ {f} BY <1>2 DEF Putting
  <2> QED BY <1>1, <1>10, <2>1 DEF Owed
<1>13. \A g \in Files : pc'[g] \notin Opening
  BY <1>2, <1>3 DEF Opening
<1>14. ~misput => chan /\ kref >= Cardinality(Owed)
  BY <1>10 DEF IInv, Covered
<1>15. ~misput => kref' >= Cardinality(Owed') /\ (kref = 1 => Owed' = {})
  BY <1>1, <1>11, <1>12, <1>14 DEF TypeOK
<1>16. Covered' BY <1>1, <1>4, <1>11, <1>12, <1>13, <1>14, <1>15 DEF Covered
<1>17. HeapBounded' BY <1>1, <1>2 DEF IInv, HeapBounded
<1> QED BY <1>4, <1>5, <1>6, <1>7, <1>8, <1>9, <1>16, <1>17 DEF IInv

\* SUBSYS_BEFORE_SHUTDOWN: every file's fl->ssrcount is out of date from now on.
LEMMA StepSsrShutdown ==
  ASSUME IInv, SsrShutdown
  PROVE  IInv'
<1>1. /\ TypeOK /\ mutex = Nil /\ ssrcount' = ssrcount + 1 /\ up' = FALSE /\ chan' = FALSE
      /\ joined' = {} /\ misput' = (misput \/ \E f \in Files : pc[f] \in {"put", "close"})
      /\ UNCHANGED <<pc, refcount, flssr, mutex, kref, link, prev, alive, boot, heap, timedout, ops>>
  BY DEF SsrShutdown, fileVars, IInv
<1>2. \A g \in Files : pc[g] \notin Opening \cup Unmapping
  BY <1>1, MutexFree DEF IInv
<1>3. /\ port' \in [state : PortStates, work : Nat] /\ port'.work = port.work
      /\ gl' \in {"closed", "opening", "open", "closing"} /\ PortMatches'
      /\ gl' = "opening" => gl = "opening"
      /\ gl' = "open" => gl = "open" /\ ~chan
  <2>1. CASE chan
    BY <1>1, <2>1, GlinkCloses DEF SsrShutdown, IInv
  <2>2. CASE ~chan
    <3>1. UNCHANGED <<port, gl>> BY <2>2 DEF SsrShutdown
    <3> QED BY <2>2, <3>1 DEF IInv, PortMatches, TypeOK
  <2> QED BY <2>1, <2>2
<1>4. misput' \in BOOLEAN /\ (misput => misput')
  BY <1>1 DEF TypeOK
<1>15. up' \in BOOLEAN /\ chan' \in BOOLEAN BY <1>1
<1>5. TypeOK' BY <1>1, <1>3, <1>4, <1>15 DEF TypeOK
<1>6. MutexOwner' BY <1>1 DEF IInv, MutexOwner
<1>7. HandleLive' BY <1>1 DEF HandleLive
<1>8. HandshakeFresh'
  BY <1>1, <1>2, <1>3, <1>4 DEF IInv, HandshakeFresh, Opening
<1>9. JoinedHolds' BY <1>1, <1>2 DEF IInv, JoinedHolds, TypeOK
<1>10. Putting' = Putting /\ Owed' = Putting /\ Owed' \subseteq Owed
  BY <1>1 DEF Owed, Putting
<1>11. IsFiniteSet(Owed')
  BY <1>10, FS_Subset DEF IInv, Covered
<1>12. ~misput' => Owed' = {}
  BY <1>1, <1>10 DEF Putting
<1>13. Covered' BY <1>1, <1>11, <1>12 DEF Covered
<1>14. HeapBounded' BY <1>1 DEF IInv, HeapBounded
<1> QED BY <1>3, <1>5, <1>6, <1>7, <1>8, <1>9, <1>13, <1>14 DEF IInv

\* glink's events.
LEMMA StepPortEvent ==
  ASSUME IInv, PortConnected \/ PortDisconnected
  PROVE  IInv'
<1>1. /\ TypeOK
      /\ UNCHANGED <<pc, refcount, flssr, mutex, kref, chan, link, ssrcount, prev, up, alive, boot,
                     heap, joined, misput, timedout, ops>>
  BY DEF PortConnected, PortDisconnected, fileVars, dspVars, history, IInv
<1>2. /\ port' \in [state : PortStates, work : Nat]
      /\ \/ /\ gl = "opening" /\ gl' = "open" /\ port'.state = "connected"
            /\ port'.work = port.work + 1
         \/ /\ gl = "closing" /\ gl' = "closed" /\ port'.state = "disconnected"
            /\ port'.work = port.work
  <2>1. port \in [state : PortStates, work : Nat] /\ {"connected", "disconnected"} \subseteq PortStates
    BY <1>1 DEF TypeOK, PortStates
  <2>2. CASE PortConnected
    BY <2>1, <2>2 DEF PortConnected
  <2>3. CASE PortDisconnected
    <3>1. port' = [port EXCEPT !.state = "disconnected"] BY <2>3 DEF PortDisconnected
    <3>2. /\ port' \in [state : PortStates, work : Nat] /\ port'.state = "disconnected"
          /\ port'.work = port.work
      BY ONLY <2>1, <3>1
    <3> QED BY <2>3, <3>2 DEF PortDisconnected
  <2> QED BY <2>2, <2>3
<1>3. TypeOK' BY <1>1, <1>2 DEF TypeOK
<1>4. MutexOwner' BY <1>1 DEF IInv, MutexOwner
<1>5. PortMatches' BY <1>2 DEF PortMatches
<1>6. HandleLive' BY <1>1, <1>2 DEF IInv, HandleLive
<1>7. HandshakeFresh' BY <1>1, <1>2 DEF IInv, HandshakeFresh
<1>8. JoinedHolds' BY <1>1 DEF IInv, JoinedHolds
<1>9. Covered' BY <1>1 DEF IInv, Covered, Owed, Putting
<1>10. HeapBounded' BY <1>1 DEF IInv, HeapBounded
<1> QED BY <1>3, <1>4, <1>5, <1>6, <1>7, <1>8, <1>9, <1>10 DEF IInv

\* No step leaves the invariant.
LEMMA NextIInv ==
  ASSUME IInv, [Next]_vars
  PROVE  IInv'
BY StepDsp, StepDeviceOpen, StepInitStart, StepEnter, StepRegister, StepGlinkOpen,
   StepPortWait, StepUnmap, StepHeapMap, StepFileFree, StepKrefPut, StepChannelClose,
   StepSsrShutdown, StepPortEvent
DEF Next, FileStep

\* The counts of the channel, the port and the files agree in every reachable state.
THEOREM Inductive == Spec => []IInv
<1>1. Init => IInv BY InitIInv
<1>2. IInv /\ [Next]_vars => IInv' BY NextIInv
<1> QED BY <1>1, <1>2, PTL DEF Spec

-----------------------------------------------------------------------------
(* What follows *)

\* The reference count covers every file that has joined the channel and every close
\* under way, unless an open failed or a close met a restart.
THEOREM KrefCoversHolds == Spec => []KrefCovers
<1>1. IInv => KrefCovers
  <2> SUFFICES ASSUME IInv, ~misput, chan, mutex = Nil
               PROVE  kref >= Cardinality(joined) + Cardinality(Putting)
    BY DEF KrefCovers
  <2>1. kref >= Cardinality(Owed) /\ IsFiniteSet(Owed)
    BY MutexFree DEF IInv, Covered
  <2>2. joined \cap Putting = {}
    BY DEF IInv, JoinedHolds, Unmapping, Putting
  <2>3. IsFiniteSet(joined) /\ IsFiniteSet(Putting)
    BY <2>1, FS_Subset DEF Owed
  <2>4. Cardinality(Owed) = Cardinality(joined) + Cardinality(Putting) - Cardinality({})
    BY <2>2, <2>3, FS_Union DEF Owed
  <2>5. Cardinality({}) = 0 /\ Cardinality(joined) \in Nat /\ Cardinality(Putting) \in Nat
    BY <2>3, FS_EmptySet, FS_CardinalityType
  <2> QED BY <2>1, <2>4, <2>5
<1> QED BY <1>1, Inductive, PTL

\* Nothing is ever sent on a handle whose port glink has closed.
THEOREM HandleLiveHolds == Spec => []HandleLive
<1>1. IInv => HandleLive BY DEF IInv
<1> QED BY <1>1, Inductive, PTL

\* A port that glink has open can be closed through the handle, unless an open timed out.
THEOREM NoOrphanHolds == Spec => []NoOrphan
<1>1. IInv => NoOrphan BY DEF IInv, HandshakeFresh, NoOrphan
<1> QED BY <1>1, Inductive, PTL

\* A step that takes the handle away leaves no joined file behind, unless some file may
\* drop a reference it does not hold: the last reference is dropped by nobody else's.
LEMMA KeptStep ==
  ASSUME IInv, Next, chan, ~chan', ssrcount' = ssrcount
  PROVE  joined' = {} \/ misput'
<1>1. CASE \E f \in Files : ChannelClose(f)
  <2> PICK f \in Files : ChannelClose(f) BY <1>1
  <2>1. pc[f] = "close" /\ mutex = Nil /\ kref = 1 /\ UNCHANGED <<joined, misput>>
    BY DEF ChannelClose, history
  <2>2. f \in Owed /\ f \notin joined /\ IsFiniteSet(Owed)
    BY <2>1 DEF Owed, Putting, IInv, JoinedHolds, Unmapping, Covered
  <2>3. ~misput => 1 >= Cardinality(Owed)
    BY <2>1, MutexFree DEF IInv, Covered
  <2>4. ~misput => Owed \ {f} = {}
    BY <2>2, <2>3, OwedLess
  <2> QED BY <2>1, <2>2, <2>4 DEF Owed
<1>2. CASE \E f \in Files : PortWait(f)
  BY <1>2 DEF PortWait, OpenFails
<1>3. CASE SsrShutdown
  BY <1>3 DEF SsrShutdown, IInv, TypeOK
<1>4. CASE \E f \in Files : GlinkOpen(f)
  BY <1>4 DEF GlinkOpen
<1>5. CASE UNCHANGED chan
  BY <1>5
<1> QED
  BY <1>1, <1>2, <1>3, <1>4, <1>5
  DEF Next, FileStep, DeviceOpen, InitStart, ChannelOpenEnter, GlinkRegister, HeapRemove,
      HeapReply, HeapMap, FileFree, KrefPut, DspStop, DspBoot, SsrPowerup, LinkState,
      PortConnected, PortDisconnected

\* With the exceptions its statement names, no close of a file closes the channel under
\* another file that has joined it.
THEOREM ChannelKeptHolds == Spec => ChannelKept
<1>1. IInv /\ [Next]_vars =>
        [chan /\ ~chan' /\ ssrcount' = ssrcount => joined' = {} \/ misput']_vars
  BY KeptStep
<1> QED BY <1>1, Inductive, PTL DEF Spec, ChannelKept

\* The thread that joins a file to the channel sees the port connected, unless an open
\* timed out before.
LEMMA SuccessStep ==
  ASSUME IInv, Next, NEW f \in Files, f \in joined', f \notin joined, ~timedout
  PROVE  chan' /\ port'.state = "connected"
<1>1. CASE \E g \in Files : ChannelOpenEnter(g)
  <2> PICK g \in Files : ChannelOpenEnter(g) BY <1>1
  <2>1. mutex = Nil /\ chan /\ UNCHANGED <<chan, port>>
    BY DEF ChannelOpenEnter, portVars
  <2>2. gl = "open"
    BY <2>1, MutexFree DEF IInv, HandleLive, HandshakeFresh, Opening
  <2> QED BY <2>1, <2>2 DEF IInv, PortMatches
<1>2. CASE \E g \in Files : PortWait(g)
  <2> PICK g \in Files : PortWait(g) BY <1>2
  <2>1. port.work > 0 /\ UNCHANGED chan /\ port' = [port EXCEPT !.work = port.work - 1]
    BY DEF PortWait
  <2>2. port \in [state : PortStates, work : Nat]
    BY DEF IInv, TypeOK
  <2>3. port'.state = port.state
    BY ONLY <2>1, <2>2
  <2>4. gl = "open" /\ chan
    BY <2>1 DEF IInv, HandshakeFresh
  <2> QED BY <2>1, <2>3, <2>4 DEF IInv, PortMatches
<1>3. CASE joined' \subseteq joined
  BY <1>3
<1> QED
  BY <1>1, <1>2, <1>3
  DEF Next, FileStep, DeviceOpen, InitStart, GlinkRegister, GlinkOpen, HeapRemove,
      HeapReply, HeapMap, FileFree, KrefPut, ChannelClose, DspStop, DspBoot, SsrShutdown,
      SsrPowerup, LinkState, PortConnected, PortDisconnected, history

\* An INIT that succeeds has a connected channel when it leaves the mutex, with the
\* exception of the late completion an open that timed out leaves behind.
THEOREM SuccessHasChannelHolds == Spec => SuccessHasChannel
<1>1. IInv /\ [Next]_vars =>
        [\A f \in Files : f \in joined' /\ f \notin joined =>
           timedout \/ (chan' /\ port'.state = "connected")]_vars
  BY SuccessStep
<1> QED BY <1>1, Inductive, PTL DEF Spec, SuccessHasChannel
=============================================================================
