------------------------ MODULE FastRpcModuleProofs ------------------------
(***************************************************************************)
(* What FastRpcModule promises, proved for every number of channels and    *)
(* sessions, every set of context-bank devices and every number of stream  *)
(* ids.                                                                    *)
(***************************************************************************)
EXTENDS FastRpcModule, FiniteSetTheorems, TLAPS

\* What fastrpc_device_init has registered before its step n.
Registered(n) ==
  {"debugfs"} \cup {Steps[i] : i \in 1 .. n - 1}
              \cup (IF n > 6 THEN {"notifiers"} ELSE {})

\* Nothing of the driver exists before fastrpc_device_init; what is registered while it
\* runs is what its steps so far, and probes, registered.
RegsOrdered ==
  /\ life = "unloaded" => regs = {} /\ stage = 1 /\ session = EmptyTable
  /\ life = "init" => regs \subseteq Registered(stage) \cup Probed

\* Until the end, no entry beyond the one at chan->sesscount is in use: an error pointer
\* is the last thing in its channel's table.
TableEnds ==
  ~Gone => \A c \in Channels, i \in Sessions :
             session[c][i].mapping # Nil => i <= count[c] + 1

\* A device that has not been probed, or whose probe was refused, has no mapping in the
\* tables; every other one has its mapping in exactly one entry of its channel's table,
\* but for the devices that hist sets apart.
MappingOnce ==
  /\ \A c \in Channels, i \in Sessions, d \in Devices :
       session[c][i].mapping = d => c = ChanOf[d] /\ bank[d] \in {"failed", "ok"}
  /\ ~Gone => \A d \in Devices \ (hist.legacy \cup hist.lost) :
       bank[d] \in {"failed", "ok"} =>
         \E i \in Sessions : \A j \in Sessions : session[ChanOf[d]][j].mapping = d <=> j = i

\* No mapping is released before the module goes away, and it goes away once.
ReleasedOnce ==
  /\ ~Gone => released = [d \in Devices |-> 0]
  /\ MappingsReturned

IInv ==
  /\ TypeOK /\ RegsOrdered /\ Unwinds /\ SessionsBacked /\ TableEnds /\ MappingOnce
  /\ ReleasedOnce

-----------------------------------------------------------------------------
(* Types *)

Entry == [dev : Devices \cup {Nil}, mapping : Devices \cup {Nil, Err}]
Table == [Channels -> [Sessions -> Entry]]
HistRec == [legacy : SUBSET Devices, lost : SUBSET Devices, late : SUBSET Devices,
            after : SUBSET Probed, unreached : SUBSET Channels]
Names == {Steps[i] : i \in 1 .. Len(Steps)} \cup {"debugfs", "notifiers"} \cup Probed
Lives == {"unloaded", "init", "up", "failed", "exited", "oops"}

\* What the type invariant says of the tables ...
LEMMA TypeFacts ==
  ASSUME TypeOK
  PROVE  /\ life \in Lives /\ session \in Table /\ hist \in HistRec
         /\ count \in [Channels -> 0 .. NumSessions] /\ attached \subseteq Devices
         /\ bank \in [Devices -> {"none", "refused", "failed", "ok"}]
         /\ released \in [Devices -> 0 .. NumSessions] /\ regs \subseteq Names
BY DEF TypeOK, Lives, Table, Entry, HistRec, Names

\* ... and what keeps it.
LEMMA TypeNext ==
  ASSUME life' \in Lives, session' \in Table, hist' \in HistRec,
         count' \in [Channels -> 0 .. NumSessions], attached' \subseteq Devices,
         bank' \in [Devices -> {"none", "refused", "failed", "ok"}],
         released' \in [Devices -> 0 .. NumSessions], regs' \subseteq Names,
         stage' \in 1 .. Len(Steps), probed' \subseteq {"compute", "memory", "domains"}
  PROVE  TypeOK'
BY DEF TypeOK, Lives, Table, Entry, HistRec, Names

\* An assignment to one entry of a table.
LEMMA EntryAssigned ==
  ASSUME session \in Table, NEW c \in Channels, NEW i \in Sessions, NEW e \in Entry,
         session' = [session EXCEPT ![c] = [session[c] EXCEPT ![i] = e]]
  PROVE  /\ session' \in Table /\ session'[c][i] = e
         /\ \A b \in Channels, j \in Sessions :
              (b # c \/ j # i) => session'[b][j] = session[b][j]
<1>1. session[c] \in [Sessions -> Entry]
  BY DEF Table
<1> DEFINE row == [session[c] EXCEPT ![i] = e]
<1>2. row \in [Sessions -> Entry] /\ row[i] = e /\ \A j \in Sessions \ {i} : row[j] = session[c][j]
  BY <1>1
<1> HIDE DEF row
<1>3. session' \in Table /\ session'[c] = row /\ \A b \in Channels \ {c} : session'[b] = session[b]
  BY <1>2 DEF Table, row
<1> QED BY <1>2, <1>3

-----------------------------------------------------------------------------
(* The steps of fastrpc_device_init *)

\* The names of the steps, by number.
LEMMA StepNames ==
  /\ Len(Steps) = 7
  /\ Steps[1] = "driver" /\ Steps[2] = "chrdev" /\ Steps[3] = "cdev" /\ Steps[4] = "class"
  /\ Steps[5] = "device" /\ Steps[6] = "secure_device" /\ Steps[7] = "client"
BY DEF Steps

\* The label that each failing step jumps to.
LEMMA UnwoundAt ==
  /\ Unwound("driver") = {} /\ Unwound("chrdev") = {} /\ Unwound("cdev") = {"chrdev"}
  /\ Unwound("class") = {"cdev", "chrdev"}
  /\ \A s \in {"device", "secure_device", "client"} :
       Unwound(s) = {"notifiers", "device", "secure_device", "class", "cdev", "chrdev"}
BY Zenon DEF Unwound

\* What fastrpc_device_init has registered, step by step.
LEMMA RegisteredGrows ==
  ASSUME NEW n \in 1 .. 7
  PROVE  /\ n < 7 => Registered(n + 1) = Registered(n) \cup {Steps[n]}
                       \cup (IF Steps[n] = "secure_device" THEN {"notifiers"} ELSE {})
         /\ Registered(n) \ Unwound(Steps[n]) \subseteq {"driver", "debugfs"}
<1>1. CASE n = 1 BY <1>1, StepNames, UnwoundAt DEF Registered
<1>2. CASE n = 2 BY <1>2, StepNames, UnwoundAt DEF Registered
<1>3. CASE n = 3 BY <1>3, StepNames, UnwoundAt DEF Registered
<1>4. CASE n = 4 BY <1>4, StepNames, UnwoundAt DEF Registered
<1>5. CASE n = 5 BY <1>5, StepNames, UnwoundAt DEF Registered
<1>6. CASE n = 6 BY <1>6, StepNames, UnwoundAt DEF Registered
<1>7. CASE n = 7 BY <1>7, StepNames, UnwoundAt DEF Registered
<1> QED BY <1>1, <1>2, <1>3, <1>4, <1>5, <1>6, <1>7

\* A mapping is in at most NumSessions entries of a table; in one, when there is exactly
\* one.
LEMMA EntriesBounded ==
  ASSUME ModuleAssumption, NEW P \in [Sessions -> BOOLEAN]
  PROVE  LET S == {i \in Sessions : P[i]} IN
         /\ Cardinality(S) \in 0 .. NumSessions
         /\ (\E i \in Sessions : \A j \in Sessions : P[j] <=> j = i) => Cardinality(S) = 1
<1> DEFINE S == {i \in Sessions : P[i]}
<1>1. IsFiniteSet(Sessions) /\ Cardinality(Sessions) = NumSessions
  BY FS_Interval, SMT DEF ModuleAssumption, Sessions
<1>2. S \subseteq Sessions
  OBVIOUS
<1>3. IsFiniteSet(S) /\ Cardinality(S) <= Cardinality(Sessions)
  BY ONLY <1>1, <1>2, FS_Subset
<1>4. Cardinality(S) \in Nat
  BY ONLY <1>3, FS_CardinalityType
<1>5. Cardinality(S) \in 0 .. NumSessions
  BY ONLY <1>1, <1>3, <1>4, SMT DEF ModuleAssumption
<1>6. ASSUME NEW i \in Sessions, \A j \in Sessions : P[j] <=> j = i
      PROVE  Cardinality(S) = 1
  <2>1. S = {i}
    BY <1>6
  <2> QED BY ONLY <2>1, FS_Singleton
<1> QED BY <1>5, <1>6

-----------------------------------------------------------------------------
(* The invariant is inductive *)

\* The state before the module is loaded satisfies the invariant.
LEMMA InitIInv ==
  ASSUME ModuleAssumption, Init
  PROVE  IInv
<1> USE DEF ModuleAssumption
<1>1. Empty \in Entry /\ Empty.mapping = Nil /\ Nil \notin Devices
  BY DEF Empty, Entry
<1>2. \A c \in Channels, i \in Sessions : session[c][i] = Empty
  BY DEF Init, EmptyTable
<1>3. TypeOK
  <2>1. session \in [Channels -> [Sessions -> [dev : Devices \cup {Nil},
                                               mapping : Devices \cup {Nil, Err}]]]
    BY <1>1 DEF Init, EmptyTable, Entry
  <2>2. hist \in HistRec
    BY DEF Init, HistRec
  <2>3. bank \in [Devices -> {"none", "refused", "failed", "ok"}]
    BY DEF Init
  <2>4. released \in [Devices -> 0 .. NumSessions] /\ count \in [Channels -> 0 .. NumSessions]
    BY DEF Init
  <2>5. stage \in 1 .. Len(Steps)
    BY StepNames DEF Init
  <2>6. life \in Lives /\ regs = {} /\ attached = {} /\ probed = {}
    BY DEF Init, Lives
  <2> QED BY ONLY <2>1, <2>2, <2>3, <2>4, <2>5, <2>6 DEF TypeOK, HistRec, Lives
<1>4. life = "unloaded" /\ ~Gone
  BY DEF Init, Gone
<1>5. RegsOrdered BY <1>4 DEF RegsOrdered, Init
<1>6. Unwinds BY <1>4 DEF Unwinds
<1>7. SessionsBacked BY <1>4 DEF SessionsBacked
<1>8. TableEnds BY <1>1, <1>2 DEF TableEnds
<1>9. MappingOnce BY <1>1, <1>2 DEF MappingOnce, Init
<1>10. ReleasedOnce BY <1>4 DEF ReleasedOnce, MappingsReturned, Init
<1> QED BY <1>3, <1>5, <1>6, <1>7, <1>8, <1>9, <1>10 DEF IInv

\* A step that leaves the tables alone keeps what is said of them.
LEMMA TableFrame ==
  ASSUME IInv, UNCHANGED <<tableVars, life>>, hist'.legacy = hist.legacy,
         hist'.lost = hist.lost, hist'.late = hist.late, hist'.unreached = hist.unreached
  PROVE  SessionsBacked' /\ TableEnds' /\ MappingOnce' /\ ReleasedOnce'
<1> USE DEF tableVars, IInv, Gone
<1>1. SessionsBacked' BY DEF SessionsBacked
<1>2. TableEnds' BY DEF TableEnds
<1>3. MappingOnce' BY DEF MappingOnce
<1>4. ReleasedOnce' BY DEF ReleasedOnce, MappingsReturned
<1> QED BY <1>1, <1>2, <1>3, <1>4

\* A probe registers something: before the end, or noted as late.
LEMMA RegsFrame ==
  ASSUME IInv, life # "unloaded", UNCHANGED <<life, stage>>, NEW S \in SUBSET Probed,
         regs' = regs \cup S, hist.after \subseteq hist'.after, Late(S) \subseteq hist'.after
  PROVE  RegsOrdered' /\ Unwinds' /\ regs' \subseteq Names
<1>1. RegsOrdered' BY DEF IInv, RegsOrdered, Registered
<1>2. Unwinds' BY DEF IInv, Unwinds, Late, Gone
<1>3. regs' \subseteq Names BY TypeFacts DEF IInv, Names
<1> QED BY <1>1, <1>2, <1>3

\* debugfs_create_dir and fastrpc_init.
LEMMA StepInitBegin ==
  ASSUME ModuleAssumption, IInv, InitBegin
  PROVE  IInv'
<1> USE DEF InitBegin, IInv
<1>1. /\ life = "unloaded" /\ life' = "init" /\ ~Gone /\ ~Gone' /\ stage' = 1
      /\ \A c \in Channels, i \in Sessions : session'[c][i] = Empty
      /\ UNCHANGED <<session, attached, bank, released, probed, hist>>
      /\ count' = [c \in Channels |-> 0]
  BY DEF Gone, RegsOrdered, EmptyTable
<1>2. TypeOK'
  <2>1. regs' \subseteq Names /\ life' \in Lives /\ stage' \in 1 .. Len(Steps)
    BY <1>1, StepNames DEF Names, Lives
  <2>2. count' \in [Channels -> 0 .. NumSessions]
    BY <1>1 DEF ModuleAssumption
  <2>3. probed \subseteq {"compute", "memory", "domains"}
    BY DEF TypeOK
  <2> QED BY <1>1, <2>1, <2>2, <2>3, TypeFacts, TypeNext
<1>3. RegsOrdered' BY <1>1 DEF RegsOrdered, Registered
<1>4. Unwinds' BY <1>1 DEF Unwinds
<1>5. SessionsBacked' BY <1>1 DEF SessionsBacked
<1>6. TableEnds' BY <1>1 DEF TableEnds, Empty
<1>7. MappingOnce' BY <1>1 DEF MappingOnce
<1>8. ReleasedOnce' BY <1>1 DEF ReleasedOnce, MappingsReturned
<1> QED BY <1>2, <1>3, <1>4, <1>5, <1>6, <1>7, <1>8

\* A step of fastrpc_device_init succeeds.
LEMMA StepInitStep ==
  ASSUME ModuleAssumption, IInv, InitStep
  PROVE  IInv'
<1> USE DEF InitStep, tableVars, IInv
<1>1. stage \in 1 .. 7 /\ stage' \in 1 .. 7 /\ life = "init" /\ life' \in {"init", "up"}
  BY StepNames DEF TypeOK
<1>2. ~Gone /\ ~Gone' /\ UNCHANGED <<session, count, attached, bank, released, probed, hist>>
  BY <1>1 DEF Gone
<1>3. TypeOK'
  <2>1. Steps[stage] \in {Steps[i] : i \in 1 .. Len(Steps)}
    BY <1>1, StepNames
  <2>2. regs' \subseteq Names
    BY <2>1, TypeFacts DEF Names
  <2>3. life' \in Lives /\ stage' \in 1 .. Len(Steps) /\ probed \subseteq {"compute", "memory", "domains"}
    BY <1>1, StepNames DEF Lives, TypeOK
  <2> QED BY <1>2, <2>2, <2>3, TypeFacts, TypeNext
<1>4. RegsOrdered'
  <2>1. CASE stage < Len(Steps)
    <3>1. Registered(stage + 1) = Registered(stage) \cup {Steps[stage]}
             \cup (IF Steps[stage] = "secure_device" THEN {"notifiers"} ELSE {})
      BY <1>1, <2>1, RegisteredGrows, StepNames
    <3>2. stage' = stage + 1 /\ life' = "init"
      BY <2>1, <1>1, StepNames
    <3>3. regs' \subseteq Registered(stage + 1) \cup Probed
      BY <3>1 DEF RegsOrdered
    <3>4. Registered(stage)' = Registered(stage + 1)
      BY <3>2 DEF Registered, Steps
    <3> QED BY <3>2, <3>3, <3>4 DEF RegsOrdered, Probed
  <2>2. CASE stage = Len(Steps)
    BY <2>2, <1>1, StepNames DEF RegsOrdered
  <2> QED BY <2>1, <2>2, <1>1, StepNames
<1>5. Unwinds' BY <1>1 DEF Unwinds
<1>6. SessionsBacked' BY <1>1, <1>2 DEF SessionsBacked
<1>7. TableEnds' BY <1>2 DEF TableEnds
<1>8. MappingOnce' BY <1>2 DEF MappingOnce
<1>9. ReleasedOnce' BY <1>2 DEF ReleasedOnce, MappingsReturned
<1> QED BY <1>3, <1>4, <1>5, <1>6, <1>7, <1>8, <1>9

-----------------------------------------------------------------------------
(* fastrpc_deinit *)

\* It comes to the mapping of every device whose channel it comes to: an error pointer is
\* the last thing in its table.
LEMMA MappingsReached ==
  ASSUME ModuleAssumption, IInv, life \in {"init", "up"}, NEW c \in Channels,
         NEW i \in Sessions, session[c][i].mapping # Nil,
         \A e \in 1 .. c - 1 : ~Broken(e)
  PROVE  Reached(c, i)
<1> SUFFICES ASSUME NEW e \in Channels, NEW j \in Sessions, session[e][j].mapping = Err
             PROVE  c < e \/ (c = e /\ i <= j)
  BY DEF Reached
<1>1. e \in Int /\ c \in Int /\ i \in Int /\ j \in Int /\ count[e] \in Int
  BY TypeFacts DEF IInv, Channels, Sessions
<1>2. Broken(e)
  BY DEF Broken
<1>3. ~(e < c)
  BY <1>1, <1>2 DEF Channels, ModuleAssumption
<1>4. CASE e = c
  <2>1. ~Gone /\ i <= count[c] + 1
    BY DEF IInv, TableEnds, Gone
  <2>2. ~(j <= count[e])
    BY <1>1 DEF IInv, SessionsBacked, ModuleAssumption, Sessions
  <2> QED BY <1>1, <1>4, <2>1, <2>2
<1> QED BY <1>1, <1>3, <1>4

\* fastrpc_deinit releases what it comes to in the tables, when the module goes away.
LEMMA DeinitReturns ==
  ASSUME ModuleAssumption, IInv, NEW end \in {"failed", "exited"}, Deinit(end),
         life \in {"init", "up"}, UNCHANGED <<stage, probed>>, regs' \subseteq regs
  PROVE  TypeOK' /\ RegsOrdered' /\ SessionsBacked' /\ TableEnds' /\ MappingOnce' /\ ReleasedOnce'
<1> USE DEF IInv
<1>1. /\ life' = IF Crashes THEN "oops" ELSE end
      /\ life' \in {"failed", "exited", "oops"} /\ Gone' /\ ~Gone
      /\ UNCHANGED <<count, bank, stage, probed>>
      /\ hist' = [hist EXCEPT !.unreached = {c \in Channels : \E e \in 1 .. c - 1 : Broken(e)}]
  BY DEF Deinit, Gone
<1>2. /\ hist' \in HistRec /\ hist'.legacy = hist.legacy /\ hist'.lost = hist.lost
      /\ hist'.late = hist.late
      /\ hist'.unreached = {c \in Channels : \E e \in 1 .. c - 1 : Broken(e)}
  BY <1>1, TypeFacts DEF HistRec
<1> DEFINE at(d) == [i \in Sessions |-> session[ChanOf[d]][i].mapping = d /\ Reached(ChanOf[d], i)]
           S(d) == {i \in Sessions : /\ session[ChanOf[d]][i].mapping = d
                                     /\ Reached(ChanOf[d], i)}
<1>3. ASSUME NEW d \in Devices
      PROVE  /\ released'[d] \in 0 .. NumSessions
             /\ (\E i \in Sessions : \A j \in Sessions : j \in S(d) <=> j = i) => released'[d] = 1
  <2>1. at(d) \in [Sessions -> BOOLEAN] /\ S(d) = {i \in Sessions : at(d)[i]}
    OBVIOUS
  <2>2. \A j \in Sessions : at(d)[j] <=> j \in S(d)
    OBVIOUS
  <2>3. released'[d] = released[d] + Cardinality(S(d)) /\ released[d] = 0
    BY <1>1 DEF Deinit, ReleasedOnce
  <2> HIDE DEF at, S
  <2>4. LET T == {i \in Sessions : at(d)[i]} IN
         /\ Cardinality(T) \in 0 .. NumSessions
         /\ (\E i \in Sessions : \A j \in Sessions : at(d)[j] <=> j = i) => Cardinality(T) = 1
    BY <2>1, EntriesBounded
  <2>5. Cardinality(S(d)) \in 0 .. NumSessions /\ released'[d] = Cardinality(S(d))
    BY <2>1, <2>3, <2>4 DEF ModuleAssumption
  <2> QED BY <2>1, <2>2, <2>4, <2>5
<1>4. /\ session' \in Table
      /\ \A c \in Channels, i \in Sessions : session'[c][i].mapping \in {session[c][i].mapping, Nil, Err}
  <2> DEFINE E(c, i) == IF ~Reached(c, i) THEN session[c][i]
                        ELSE IF session[c][i].mapping = Err THEN [Empty EXCEPT !.mapping = Err]
                        ELSE Empty
  <2>1. session' = [c \in Channels |-> [i \in Sessions |-> E(c, i)]]
    BY DEF Deinit
  <2>2. ASSUME NEW c \in Channels, NEW i \in Sessions
        PROVE  E(c, i) \in Entry /\ E(c, i).mapping \in {session[c][i].mapping, Nil, Err}
    <3>1. session[c][i] \in Entry
      BY TypeFacts DEF Table
    <3>2. [Empty EXCEPT !.mapping = Err] \in Entry /\ [Empty EXCEPT !.mapping = Err].mapping = Err
      BY DEF Empty, Entry
    <3>3. Empty \in Entry /\ Empty.mapping = Nil
      BY DEF Empty, Entry
    <3> QED BY <3>1, <3>2, <3>3
  <2> HIDE DEF E
  <2>3. session' \in Table
    BY <2>1, <2>2 DEF Table
  <2>4. \A c \in Channels, i \in Sessions : session'[c][i] = E(c, i)
    BY <2>1
  <2> QED BY <2>2, <2>3, <2>4
<1>5. TypeOK'
  <2>1. released' \in [Devices -> 0 .. NumSessions]
    <3>1. DOMAIN released' = Devices /\ released' = [d \in Devices |-> released'[d]]
      BY DEF Deinit
    <3> QED BY <3>1, <1>3
  <2>2. attached' \subseteq Devices
    BY TypeFacts DEF Deinit
  <2>3. life' \in Lives /\ regs' \subseteq Names
    BY <1>1, TypeFacts DEF Lives
  <2>4. stage' \in 1 .. Len(Steps) /\ probed' \subseteq {"compute", "memory", "domains"}
    BY <1>1 DEF TypeOK
  <2> QED BY <1>1, <1>2, <1>4, <2>1, <2>2, <2>3, <2>4, TypeFacts, TypeNext
<1>6. RegsOrdered' BY <1>1 DEF RegsOrdered
<1>7. SessionsBacked' BY <1>1 DEF SessionsBacked
<1>8. TableEnds' BY <1>1 DEF TableEnds
<1>9. MappingOnce'
  <2>1. \A c \in Channels, i \in Sessions, d \in Devices :
          session'[c][i].mapping = d => session[c][i].mapping = d
    BY <1>4 DEF ModuleAssumption
  <2> QED BY <1>1, <2>1 DEF MappingOnce
<1>10. ReleasedOnce'
  <2> SUFFICES ASSUME NEW d \in Devices \ (hist.legacy \cup hist.lost \cup hist.late),
                      bank[d] \in {"failed", "ok"}, ChanOf[d] \notin hist'.unreached
               PROVE  released'[d] = 1
    <3>1. hist'.unreached # {} => life' = "oops"
      <4>1. ASSUME NEW c \in Channels, NEW e \in 1 .. c - 1, Broken(e) PROVE Crashes
        BY <4>1 DEF Channels, Crashes, ModuleAssumption
      <4> QED BY <1>1, <1>2, <4>1
    <3> QED BY <3>1, <1>1, <1>2, Zenon DEF ReleasedOnce, MappingsReturned
  <2>1. ChanOf[d] \in Channels
    BY DEF ModuleAssumption
  <2>2. PICK i \in Sessions : \A j \in Sessions : session[ChanOf[d]][j].mapping = d <=> j = i
    BY <1>1, Zenon DEF MappingOnce
  <2>3. session[ChanOf[d]][i].mapping = d /\ d # Nil
    BY <2>2 DEF ModuleAssumption
  <2>4. Reached(ChanOf[d], i)
    BY <1>2, <2>1, <2>3, MappingsReached
  <2>5. \A j \in Sessions : j \in S(d) <=> j = i
    BY <2>2, <2>3, <2>4
  <2> HIDE DEF S
  <2> QED BY <2>5, <1>3
<1> QED BY <1>5, <1>6, <1>7, <1>8, <1>9, <1>10

\* A step of fastrpc_device_init fails.
LEMMA StepInitFail ==
  ASSUME ModuleAssumption, IInv, InitFail
  PROVE  IInv'
<1>1. /\ stage \in 1 .. 7 /\ life = "init" /\ regs \subseteq Registered(stage) \cup Probed
      /\ regs' = regs \ (Unwound(Steps[stage]) \cup FreedLists) /\ Deinit("failed")
      /\ UNCHANGED <<stage, probed>>
  BY StepNames DEF InitFail, IInv, TypeOK, RegsOrdered
<1>2. life' \in {"failed", "oops"} /\ (life' = "failed" => "rhvm" \in FreedLists)
  BY <1>1 DEF Deinit, Crashes, FreedLists, Channels, ModuleAssumption
<1>3. Unwinds'
  <2>1. Registered(stage) \ Unwound(Steps[stage]) \subseteq {"driver", "debugfs"}
    BY <1>1, RegisteredGrows
  <2>2. life' = "failed" => regs' \subseteq Unreturned \cup {"debugfs", "global"}
    BY <1>1, <1>2, <2>1 DEF Probed, Unreturned
  <2> QED BY <1>2, <2>2 DEF Unwinds, Unreturned
<1> QED BY <1>1, <1>3, DeinitReturns DEF IInv

\* fastrpc_device_exit.
LEMMA StepDeviceExit ==
  ASSUME ModuleAssumption, IInv, DeviceExit
  PROVE  IInv'
<1>1. regs \subseteq {"driver", "chrdev", "cdev", "class", "device", "secure_device",
                     "client", "debugfs", "notifiers"} \cup Probed
  <2>1. \A i \in 1 .. 7 : Steps[i] \in {"driver", "chrdev", "cdev", "class", "device",
                                        "secure_device", "client"}
    BY StepNames
  <2> QED BY <2>1, StepNames DEF IInv, TypeOK
<1>2. /\ life = "up" /\ Deinit("exited") /\ UNCHANGED <<stage, probed>> /\ regs' \subseteq regs
      /\ life' \in {"exited", "oops"}
      /\ life' = "exited" => ~Crashes
  BY DEF DeviceExit, Deinit
<1>3. ~Crashes => "rhvm" \in FreedLists
  BY DEF Crashes, FreedLists, Channels, ModuleAssumption
<1>4. ~Crashes => regs' \subseteq Unreturned
  BY <1>1, <1>3 DEF DeviceExit, Probed, Unreturned
<1>5. Unwinds'
  BY <1>2, <1>4 DEF Unwinds, Unreturned
<1> QED BY <1>2, <1>5, DeinitReturns DEF IInv

-----------------------------------------------------------------------------
(* Probes *)

\* A probe is refused before it makes a mapping.
LEMMA StepProbeRefused ==
  ASSUME ModuleAssumption, IInv, NEW d \in Devices, ProbeRefused(d)
  PROVE  IInv'
<1> USE DEF ProbeRefused, Probing, IInv
<1>1. /\ UNCHANGED <<life, stage, regs, session, count, attached, released, probed, hist>>
      /\ bank' \in [Devices -> {"none", "refused", "failed", "ok"}]
      /\ \A e \in Devices : bank'[e] \in {"failed", "ok"} <=> bank[e] \in {"failed", "ok"}
  BY TypeFacts
<1>2. TypeOK' BY <1>1 DEF TypeOK
<1>3. RegsOrdered' BY <1>1 DEF RegsOrdered, Registered
<1>4. Unwinds' BY <1>1 DEF Unwinds
<1>5. SessionsBacked' BY <1>1 DEF SessionsBacked
<1>6. TableEnds' BY <1>1 DEF TableEnds, Gone
<1>7. MappingOnce' BY <1>1 DEF MappingOnce, Gone
<1>8. ReleasedOnce' BY <1>1 DEF ReleasedOnce, MappingsReturned, Gone
<1> QED BY <1>2, <1>3, <1>4, <1>5, <1>6, <1>7, <1>8

\* What a probe finds.
LEMMA ProbeFinds ==
  ASSUME ModuleAssumption, IInv, NEW d \in Devices, Probing(d), HasRoom(d)
  PROVE  LET c == ChanOf[d] IN
         /\ bank[d] = "none" /\ life # "unloaded" /\ c \in Channels
         /\ count[c] \in Nat /\ count[c] < NumSessions /\ count[c] + 1 \in Sessions
         /\ session \in Table /\ session[c] \in [Sessions -> Entry]
         /\ session[c][count[c] + 1] \in Entry
         /\ stage \in 1 .. Len(Steps) /\ probed \subseteq {"compute", "memory", "domains"}
<1>1. bank[d] = "none" /\ life # "unloaded"
  BY DEF Probing, IInv, RegsOrdered
<1>2. ChanOf[d] \in Channels /\ count[ChanOf[d]] \in Nat /\ count[ChanOf[d]] < NumSessions
  BY TypeFacts DEF IInv, ModuleAssumption, HasRoom
<1>3. count[ChanOf[d]] + 1 \in Sessions
  BY <1>2 DEF Sessions, ModuleAssumption
<1>4. session \in Table
  BY TypeFacts DEF IInv
<1>5. session[ChanOf[d]] \in [Sessions -> Entry]
  BY <1>2, <1>4 DEF Table
<1>6. session[ChanOf[d]][count[ChanOf[d]] + 1] \in Entry
  BY <1>3, <1>5
<1>7. stage \in 1 .. Len(Steps) /\ probed \subseteq {"compute", "memory", "domains"}
  BY DEF IInv, TypeOK
<1> QED BY <1>1, <1>2, <1>3, <1>4, <1>5, <1>6, <1>7

\* The probe of d writes the mapping m, its own or an error pointer, into the entries set
\* of its channel c, from the one at chan->sesscount on, and counts n of them.
Writes(d, c, m, n, set) ==
  /\ count[c] + n <= NumSessions
  /\ set = (count[c] + 1 .. count[c] + n) \cup {count[c] + 1}
  /\ session' \in Table
  /\ \A e \in Channels, i \in Sessions :
       (e # c \/ i \notin set) => session'[e][i] = session[e][i]
  /\ \A i \in set : session'[c][i].mapping = m
  /\ \A i \in count[c] + 1 .. count[c] + n : session'[c][i].dev = d
  /\ n > 0 => m = d /\ d \in attached'
  /\ count' = [count EXCEPT ![c] = count[c] + n]
  /\ attached \subseteq attached'
  /\ \A e \in Devices \ {d} : bank'[e] = bank[e]
  /\ bank'[d] \in {"failed", "ok"} <=> m = d
  /\ hist.legacy \subseteq hist'.legacy /\ hist.late \subseteq hist'.late
  /\ hist'.lost = hist.lost \cup ({session[c][i].mapping : i \in set} \cap Devices)
  /\ hist'.unreached = hist.unreached
  /\ m = d => Late({d}) \subseteq hist'.late
  /\ m = d => d \in hist'.legacy \/ set = {count[c] + 1}
  /\ UNCHANGED <<life, released>>

\* Such a step keeps what is said of the tables.
LEMMA TableWritten ==
  ASSUME ModuleAssumption, IInv, NEW d \in Devices, Probing(d), HasRoom(d),
         NEW n \in Nat, NEW m \in {d, Err}, NEW set, Writes(d, ChanOf[d], m, n, set)
  PROVE  SessionsBacked' /\ TableEnds' /\ MappingOnce' /\ ReleasedOnce'
<1> DEFINE c == ChanOf[d]
<1>0. /\ bank[d] = "none" /\ life # "unloaded" /\ c \in Channels /\ c = ChanOf[d]
      /\ count[c] < NumSessions
  BY ProbeFinds
<1> HIDE DEF c
<1> USE <1>0
<1> SUFFICES ASSUME Writes(d, c, m, n, set)
             PROVE  SessionsBacked' /\ TableEnds' /\ MappingOnce' /\ ReleasedOnce'
  OBVIOUS
<1> USE DEF Writes
<1> USE DEF IInv
<1>1. /\ count \in [Channels -> 0 .. NumSessions] /\ count[c] \in Nat /\ set \subseteq Sessions
      /\ count'[c] = count[c] + n /\ \A e \in Channels \ {c} : count'[e] = count[e]
      /\ Err \notin Devices /\ Nil \notin Devices /\ Err # Nil
  BY TypeFacts DEF ModuleAssumption, Sessions
<1>2. Gone' = Gone
  BY DEF Gone
<1>3. SessionsBacked'
  <2> SUFFICES ASSUME life \in {"init", "up"}, NEW e \in Channels, NEW i \in 1 .. count'[e]
               PROVE  session'[e][i].mapping \in Devices /\ session'[e][i].dev \in attached'
    BY DEF SessionsBacked
  <2>1. CASE e = c /\ i > count[c]
    <3>1. i \in count[c] + 1 .. count[c] + n /\ i \in set /\ n > 0
      BY <1>1, <2>1
    <3> QED BY <3>1, <2>1
  <2>2. CASE ~(e = c /\ i > count[c])
    <3>1. i \in 1 .. count[e] /\ i \in Sessions /\ (e # c \/ i \notin set)
      BY <1>1, <2>2 DEF Sessions
    <3> QED BY <3>1 DEF SessionsBacked
  <2> QED BY <2>1, <2>2
<1>4. TableEnds'
  <2> SUFFICES ASSUME ~Gone, NEW e \in Channels, NEW i \in Sessions, session'[e][i].mapping # Nil
               PROVE  i <= count'[e] + 1
    BY <1>2 DEF TableEnds
  <2>1. CASE e = c /\ i \in set
    BY <1>1, <2>1 DEF Sessions
  <2>2. CASE ~(e = c /\ i \in set)
    <3>1. session'[e][i] = session[e][i]
      BY <2>2
    <3>2. i <= count[e] + 1
      BY <3>1 DEF TableEnds
    <3>3. count[e] \in Nat /\ count'[e] \in Nat /\ count[e] <= count'[e]
      BY <1>1
    <3> QED BY <3>2, <3>3 DEF Sessions
  <2> QED BY <2>1, <2>2
<1>5. \A e \in Channels, i \in Sessions : session[e][i].mapping # d
  BY DEF MappingOnce
<1>6. MappingOnce'
  <2>1. ASSUME NEW e \in Channels, NEW i \in Sessions, NEW x \in Devices,
               session'[e][i].mapping = x
        PROVE  e = ChanOf[x] /\ bank'[x] \in {"failed", "ok"}
    <3>1. CASE e = c /\ i \in set
      <4>1. m = x /\ x = d
        BY <2>1, <3>1, <1>1
      <4> QED BY <3>1, <4>1
    <3>2. CASE ~(e = c /\ i \in set)
      <4>1. session[e][i].mapping = x
        BY <2>1, <3>2
      <4>2. x # d
        BY <4>1, <1>5
      <4> QED BY <4>1, <4>2 DEF MappingOnce
    <3> QED BY <3>1, <3>2
  <2>2. ASSUME ~Gone, NEW x \in Devices \ (hist'.legacy \cup hist'.lost),
               bank'[x] \in {"failed", "ok"}
        PROVE  \E i \in Sessions : \A j \in Sessions : session'[ChanOf[x]][j].mapping = x <=> j = i
    <3>1. CASE x = d
      <4>1. m = d /\ set = {count[c] + 1}
        BY <2>2, <3>1
      <4>2. ASSUME NEW j \in Sessions PROVE session'[c][j].mapping = d <=> j = count[c] + 1
        <5>1. CASE j \in set
          BY <5>1, <4>1
        <5>2. CASE j \notin set
          <6>1. session'[c][j] = session[c][j] /\ session[c][j].mapping # d
            BY <5>2, <1>5
          <6> QED BY <5>2, <6>1, <4>1
        <5> QED BY <5>1, <5>2
      <4>3. count[c] + 1 \in Sessions
        BY <4>1, <1>1
      <4> QED BY <3>1, <4>2, <4>3
    <3>2. CASE x # d
      <4>1. bank[x] \in {"failed", "ok"} /\ x \in Devices \ (hist.legacy \cup hist.lost)
        BY <2>2, <3>2
      <4>2. PICK i \in Sessions : \A j \in Sessions : session[ChanOf[x]][j].mapping = x <=> j = i
        BY <2>2, <4>1, Zenon DEF MappingOnce
      <4>3. ~(ChanOf[x] = c /\ i \in set)
        <5>1. ASSUME ChanOf[x] = c, i \in set PROVE x \in hist'.lost
          <6>1. session[c][i].mapping = x
            BY <4>2, <5>1
          <6> QED BY <6>1, <5>1
        <5> QED BY <5>1, <2>2
      <4>4. ChanOf[x] \in Channels
        BY DEF ModuleAssumption
      <4>5. ASSUME NEW j \in Sessions PROVE session'[ChanOf[x]][j].mapping = x <=> j = i
        <5>1. CASE ChanOf[x] = c /\ j \in set
          <6>1. session'[c][j].mapping = m /\ m # x
            BY <5>1, <3>2, <1>1
          <6>2. j # i
            BY <5>1, <4>3
          <6> QED BY <5>1, <6>1, <6>2
        <5>2. CASE ~(ChanOf[x] = c /\ j \in set)
          BY <5>2, <4>2, <4>4
        <5> QED BY <5>1, <5>2
      <4> QED BY <4>5
    <3> QED BY <3>1, <3>2
  <2> QED BY <2>1, <2>2, <1>2, Zenon DEF MappingOnce
<1>7. ReleasedOnce'
  <2>1. ASSUME Gone, NEW x \in Devices \ (hist'.legacy \cup hist'.lost \cup hist'.late),
               bank'[x] \in {"failed", "ok"}
        PROVE  released[x] = 1 \/ (life = "oops" /\ ChanOf[x] \in hist.unreached)
    <3>1. x # d
      BY <2>1 DEF Late
    <3>2. bank[x] \in {"failed", "ok"} /\ x \in Devices \ (hist.legacy \cup hist.lost \cup hist.late)
      BY <2>1, <3>1
    <3> QED BY <2>1, <3>2, Zenon DEF ReleasedOnce, MappingsReturned
  <2>2. ~Gone => released = [x \in Devices |-> 0]
    BY DEF ReleasedOnce
  <2>3. released' = released /\ life' = life /\ hist'.unreached = hist.unreached
    OBVIOUS
  <2> QED BY <2>1, <2>2, <2>3, <1>2, Zenon DEF ReleasedOnce, MappingsReturned
<1> QED BY <1>3, <1>4, <1>6, <1>7

\* The types after a step of a context bank's probe.
LEMMA ProbeTypes ==
  ASSUME ModuleAssumption, IInv, NEW d \in Devices, Probing(d), HasRoom(d),
         session' \in Table, NEW n \in Nat, count[ChanOf[d]] + n <= NumSessions,
         count' = [count EXCEPT ![ChanOf[d]] = count[ChanOf[d]] + n],
         attached' \subseteq attached \cup {d},
         NEW b \in {"refused", "failed", "ok"}, bank' = [bank EXCEPT ![d] = b],
         hist' \in HistRec, regs' \subseteq Names, UNCHANGED <<life, stage, released, probed>>
  PROVE  TypeOK'
<1>1. ChanOf[d] \in Channels /\ count[ChanOf[d]] + n \in 0 .. NumSessions
  BY ProbeFinds DEF ModuleAssumption
<1>2. TypeOK
  BY DEF IInv
<1>3. count' \in [Channels -> 0 .. NumSessions] /\ attached' \subseteq Devices
  BY <1>1, <1>2, TypeFacts
<1>4. bank' \in [Devices -> {"none", "refused", "failed", "ok"}]
  BY <1>2, TypeFacts
<1>5. stage' \in 1 .. Len(Steps) /\ probed' \subseteq {"compute", "memory", "domains"}
  BY <1>2 DEF TypeOK
<1> QED BY <1>2, <1>3, <1>4, <1>5, TypeFacts, TypeNext

\* The probe of d writes e to the entry i at chan->sesscount of its channel c, counts n,
\* and comes to b; L and A are late, R is registered.
WritesOne(d, c, i, e, n, b, L, R, A) ==
  /\ c = ChanOf[d] /\ i = count[c] + 1
  /\ n = 1 => e.dev = d /\ e.mapping = d /\ d \in attached'
  /\ session' = [session EXCEPT ![c] = [session[c] EXCEPT ![i] = e]]
  /\ count' = [count EXCEPT ![c] = count[c] + n]
  /\ attached \subseteq attached' /\ attached' \subseteq attached \cup {d}
  /\ bank' = [bank EXCEPT ![d] = b]
  /\ b \in {"failed", "ok"} <=> e.mapping = d
  /\ hist' = [hist EXCEPT !.lost = @ \cup ({session[c][i].mapping} \cap Devices),
                          !.late = @ \cup L, !.after = @ \cup A]
  /\ e.mapping = d => Late({d}) \subseteq L
  /\ Late(R) \subseteq A /\ regs' = regs \cup R
  /\ UNCHANGED <<life, stage, released, probed>>

\* Such a step keeps the invariant.
LEMMA OneWritten ==
  ASSUME ModuleAssumption, IInv, NEW d \in Devices, Probing(d), HasRoom(d), NEW c, NEW i,
         NEW e \in Entry, e.mapping \in {d, Err}, NEW n \in {0, 1},
         NEW b \in {"refused", "failed", "ok"},
         NEW L \in SUBSET Devices, NEW R \in SUBSET Probed, NEW A \in SUBSET Probed,
         WritesOne(d, c, i, e, n, b, L, R, A)
  PROVE  IInv'
<1> DEFINE m == e.mapping
<1> USE DEF WritesOne
<1>1. /\ bank[d] = "none" /\ life # "unloaded" /\ c \in Channels /\ i \in Sessions
      /\ count[c] \in Nat /\ count[c] < NumSessions /\ n \in Nat /\ count[c] + n <= NumSessions
      /\ session \in Table
  BY ProbeFinds DEF ModuleAssumption
<1>2. /\ hist' \in HistRec /\ hist'.legacy = hist.legacy /\ hist'.unreached = hist.unreached
      /\ hist'.late = hist.late \cup L /\ hist'.after = hist.after \cup A
      /\ hist'.lost = hist.lost \cup ({session[c][i].mapping} \cap Devices)
  <2>1. hist \in HistRec
    BY TypeFacts DEF IInv
  <2>2. hist.lost \cup ({session[c][i].mapping} \cap Devices) \in SUBSET Devices
    BY <2>1 DEF HistRec
  <2> QED BY ONLY <2>1, <2>2, L \in SUBSET Devices, A \in SUBSET Probed,
                  hist' = [hist EXCEPT !.lost = @ \cup ({session[c][i].mapping} \cap Devices),
                                       !.late = @ \cup L, !.after = @ \cup A] DEF HistRec
<1>3. bank'[d] = b /\ \A x \in Devices \ {d} : bank'[x] = bank[x]
  BY TypeFacts DEF IInv
<1>4. /\ session' \in Table /\ session'[c][i] = e
      /\ \A x \in Channels, j \in Sessions : (x # c \/ j # i) => session'[x][j] = session[x][j]
  <2>1. session' = [session EXCEPT ![c] = [session[c] EXCEPT ![i] = e]]
    OBVIOUS
  <2> QED BY ONLY <1>1, <2>1, e \in Entry, EntryAssigned
<1> DEFINE set == (count[c] + 1 .. count[c] + n) \cup {count[c] + 1}
<1>5. /\ set = {i} /\ {session[c][j].mapping : j \in set} = {session[c][i].mapping}
      /\ \A j \in count[c] + 1 .. count[c] + n : j = i /\ n = 1
  BY <1>1
<1>6. SessionsBacked' /\ TableEnds' /\ MappingOnce' /\ ReleasedOnce'
  <2> HIDE DEF set
  <2>1. \A x \in Channels, j \in Sessions : (x # c \/ j \notin set) => session'[x][j] = session[x][j]
    BY <1>4, <1>5
  <2>2. /\ \A j \in set : session'[c][j].mapping = m
        /\ \A j \in count[c] + 1 .. count[c] + n : session'[c][j].dev = d
    BY <1>4, <1>5
  <2>3. hist'.lost = hist.lost \cup ({session[c][j].mapping : j \in set} \cap Devices)
    BY <1>2, <1>5
  <2>4. /\ hist.legacy \subseteq hist'.legacy /\ hist.late \subseteq hist'.late
        /\ m = d => Late({d}) \subseteq hist'.late
    <3>1. m = d => Late({d}) \subseteq L
      OBVIOUS
    <3> QED BY ONLY <1>2, <3>1
  <2>9. n > 0 => n = 1
    BY ONLY n \in {0, 1}
  <2>10. n > 0 => m = d /\ d \in attached'
    BY <2>9
  <2>11. set = {count[c] + 1}
    BY <1>5
  <2>7. bank'[d] \in {"failed", "ok"} <=> m = d
    BY <1>3
  <2>5. set = (count[c] + 1 .. count[c] + n) \cup {count[c] + 1}
    BY DEF set
  <2>6. life' = life /\ released' = released
    OBVIOUS
  <2>8. Writes(d, ChanOf[d], m, n, set)
    <3>1. c = ChanOf[d] /\ count' = [count EXCEPT ![c] = count[c] + n] /\ attached \subseteq attached'
      OBVIOUS
    <3> HIDE DEF m, WritesOne
    <3>2. Writes(d, c, m, n, set)
      BY ONLY <1>1, <1>2, <1>3, <1>4, <2>1, <2>2, <2>3, <2>4, <2>5, <2>6, <2>7, <2>10, <2>11, <3>1
         DEF Writes
    <3> QED BY ONLY <3>1, <3>2
  <2> HIDE DEF m, WritesOne
  <2> QED BY <1>1, <2>8, TableWritten DEF m
<1>7. RegsOrdered' /\ Unwinds' /\ regs' \subseteq Names
  <2>1. hist.after \subseteq hist'.after /\ Late(R) \subseteq hist'.after
    BY <1>2
  <2> QED BY <1>1, <2>1, RegsFrame
<1>8. TypeOK'
  BY <1>1, <1>2, <1>4, <1>7, ProbeTypes
<1> QED BY <1>6, <1>7, <1>8 DEF IInv

\* arm_iommu_create_mapping or arm_iommu_attach_device fails, or fastrpc_cb_probe succeeds.
LEMMA StepOneEntry ==
  ASSUME ModuleAssumption, IInv, NEW d \in Devices,
         ProbeNoMapping(d) \/ ProbeNoDevice(d) \/ CbProbe(d)
  PROVE  IInv'
<1> DEFINE c == ChanOf[d]
           i == count[c] + 1
           old == session[c][i]
<1>1. Probing(d) /\ HasRoom(d)
  BY DEF ProbeNoMapping, ProbeNoDevice, CbProbe
<1>2. /\ c \in Channels /\ i \in Sessions /\ count[c] \in Nat /\ session \in Table /\ old \in Entry
      /\ count \in [Channels -> 0 .. NumSessions] /\ hist \in HistRec /\ Err \notin Devices
  BY <1>1, ProbeFinds, TypeFacts DEF IInv, ModuleAssumption
<1>3. Late({d}) \in SUBSET Devices /\ Late({"global"}) \in SUBSET Probed /\ Late({}) = {}
  BY DEF Late, Probed
<1>4. [count EXCEPT ![c] = count[c] + 0] = count /\ attached \subseteq attached \cup {d}
  BY <1>2
<1>6. CASE ProbeNoMapping(d)
  <2> DEFINE e == [old EXCEPT !.mapping = Err]
  <2>1. e \in Entry /\ e.mapping = Err
    BY <1>2 DEF Entry
  <2>2. /\ session' = [session EXCEPT ![c] = [session[c] EXCEPT ![i] = e]]
        /\ bank' = [bank EXCEPT ![d] = "refused"]
        /\ UNCHANGED <<life, stage, regs, count, attached, released, probed>>
    BY <1>6 DEF ProbeNoMapping
  <2>3. hist' = [hist EXCEPT !.lost = @ \cup ({session[c][i].mapping} \cap Devices),
                             !.late = @ \cup {}, !.after = @ \cup {}]
    <3>1. hist' = [hist EXCEPT !.lost = @ \cup ({session[c][i].mapping} \cap Devices)]
      BY <1>6 DEF ProbeNoMapping
    <3> QED BY <3>1, <1>2 DEF HistRec
  <2> HIDE DEF e
  <2>4. WritesOne(d, c, i, e, 0, "refused", {}, {}, {})
    BY <1>2, <1>3, <1>4, <2>1, <2>2, <2>3 DEF WritesOne
  <2> QED BY <1>1, <2>1, <2>4, OneWritten
<1>7. CASE ProbeNoDevice(d)
  <2> DEFINE e == [old EXCEPT !.mapping = d]
  <2>1. e \in Entry /\ e.mapping = d
    BY <1>2 DEF Entry
  <2>2. /\ session' = [session EXCEPT ![c] = [session[c] EXCEPT ![i] = e]]
        /\ bank' = [bank EXCEPT ![d] = "failed"]
        /\ UNCHANGED <<life, stage, regs, count, attached, released, probed>>
    BY <1>7 DEF ProbeNoDevice, NewMapping
  <2>3. hist' = [hist EXCEPT !.lost = @ \cup ({session[c][i].mapping} \cap Devices),
                             !.late = @ \cup Late({d}), !.after = @ \cup {}]
    <3>1. hist' = [hist EXCEPT !.lost = @ \cup ({session[c][i].mapping} \cap Devices),
                               !.late = @ \cup Late({d})]
      BY <1>7 DEF ProbeNoDevice, NewMapping
    <3> QED BY <3>1, <1>2 DEF HistRec
  <2> HIDE DEF e
  <2>4. WritesOne(d, c, i, e, 0, "failed", Late({d}), {}, {})
    BY <1>2, <1>3, <1>4, <2>1, <2>2, <2>3 DEF WritesOne
  <2> QED BY <1>1, <1>3, <2>1, <2>4, OneWritten
<1>8. CASE CbProbe(d)
  <2> DEFINE e == [dev |-> d, mapping |-> d]
  <2>1. e \in Entry /\ e.mapping = d /\ e.dev = d
    BY DEF Entry
  <2>2. /\ session' = [session EXCEPT ![c] = [session[c] EXCEPT ![i] = e]]
        /\ bank' = [bank EXCEPT ![d] = "ok"] /\ regs' = regs \cup {"global"}
        /\ count' = [count EXCEPT ![c] = count[c] + 1] /\ attached' = attached \cup {d}
        /\ hist' = [hist EXCEPT !.lost = @ \cup ({session[c][i].mapping} \cap Devices),
                                !.late = @ \cup Late({d}), !.after = @ \cup Late({"global"})]
        /\ UNCHANGED <<life, stage, released, probed>>
    BY <1>8 DEF CbProbe
  <2> HIDE DEF e
  <2>3. WritesOne(d, c, i, e, 1, "ok", Late({d}), {"global"}, Late({"global"}))
    BY <1>2, <1>3, <2>1, <2>2 DEF WritesOne
  <2>4. {"global"} \in SUBSET Probed
    BY DEF Probed
  <2> QED BY <1>1, <1>3, <2>1, <2>3, <2>4, OneWritten
<1> QED BY <1>6, <1>7, <1>8

\* fastrpc_cb_legacy_probe.
LEMMA StepCbLegacyProbe ==
  ASSUME ModuleAssumption, IInv, NEW d \in Devices, NEW sids \in 0 .. MaxSids,
         CbLegacyProbe(d, sids)
  PROVE  IInv'
<1> DEFINE c   == ChanOf[d]
           n   == IF count[c] + sids <= NumSessions THEN sids ELSE NumSessions - count[c]
           new == count[c] + 1 .. count[c] + n
           set == new \cup {count[c] + 1}
           row == [i \in Sessions |-> IF i \in new THEN [dev |-> d, mapping |-> d]
                                      ELSE IF i \in set THEN [session[c][i] EXCEPT !.mapping = d]
                                      ELSE session[c][i]]
<1>1. Probing(d) /\ HasRoom(d)
  BY DEF CbLegacyProbe
<1>2. /\ c \in Channels /\ count[c] \in Nat /\ count[c] < NumSessions /\ session \in Table
      /\ session[c] \in [Sessions -> Entry] /\ hist \in HistRec
  BY <1>1, ProbeFinds, TypeFacts DEF IInv
<1>3. n \in Nat /\ count[c] + n <= NumSessions /\ set \subseteq Sessions
  BY <1>2 DEF ModuleAssumption, Sessions
<1>4. /\ session' = [session EXCEPT ![c] = row] /\ attached' = attached \cup {d}
      /\ count' = [count EXCEPT ![c] = count[c] + n]
      /\ UNCHANGED <<life, stage, regs, released, probed>>
  BY DEF CbLegacyProbe
<1>5. hist' = [hist EXCEPT !.legacy = @ \cup {d},
                           !.lost = @ \cup ({session[c][i].mapping : i \in set} \cap Devices),
                           !.late = @ \cup Late({d})]
  BY DEF CbLegacyProbe
<1>6. PICK b \in {"ok", "failed"} : bank' = [bank EXCEPT ![d] = b]
  BY Zenon DEF CbLegacyProbe
<1> HIDE DEF n
<1>7. /\ row \in [Sessions -> Entry]
      /\ \A i \in Sessions \ set : row[i] = session[c][i]
      /\ \A i \in new : row[i].dev = d
      /\ \A i \in set : row[i].mapping = d
  <2>1. ASSUME NEW i \in Sessions
        PROVE  /\ [session[c][i] EXCEPT !.mapping = d] \in Entry
               /\ [session[c][i] EXCEPT !.mapping = d].mapping = d
    <3>1. session[c][i] \in Entry
      BY <1>2
    <3> QED BY ONLY <3>1, d \in Devices DEF Entry
  <2>2. [dev |-> d, mapping |-> d] \in Entry
    BY DEF Entry
  <2>3. new \subseteq set
    OBVIOUS
  <2>4. ASSUME NEW i \in Sessions
        PROVE  /\ row[i] \in Entry /\ (i \notin set => row[i] = session[c][i])
               /\ (i \in new => row[i].dev = d) /\ (i \in set => row[i].mapping = d)
    <3> HIDE DEF new, set
    <3> QED BY <1>2, <2>1, <2>2, <2>3
  <2> HIDE DEF new, set
  <2> QED BY <1>3, <2>3, <2>4
<1> HIDE DEF row
<1>8. session' \in Table /\ session'[c] = row /\ \A b2 \in Channels \ {c} : session'[b2] = session[b2]
  BY <1>2, <1>4, <1>7 DEF Table
<1>9. /\ hist' \in HistRec /\ hist'.legacy = hist.legacy \cup {d}
      /\ hist'.lost = hist.lost \cup ({session[c][i].mapping : i \in set} \cap Devices)
      /\ hist'.late = hist.late \cup Late({d}) /\ hist'.after = hist.after
      /\ hist'.unreached = hist.unreached
  <2> DEFINE G == {session[c][i].mapping : i \in set} \cap Devices
  <2>1. G \in SUBSET Devices /\ Late({d}) \in SUBSET Devices
    BY DEF Late
  <2>2. hist' = [hist EXCEPT !.legacy = @ \cup {d}, !.lost = @ \cup G, !.late = @ \cup Late({d})]
    BY <1>5
  <2> HIDE DEF G
  <2>3. /\ hist' \in HistRec /\ hist'.legacy = hist.legacy \cup {d} /\ hist'.lost = hist.lost \cup G
        /\ hist'.late = hist.late \cup Late({d}) /\ hist'.after = hist.after
        /\ hist'.unreached = hist.unreached
    BY ONLY <1>2, <2>1, <2>2, d \in Devices DEF HistRec
  <2> QED BY <2>3 DEF G
<1>10. bank'[d] = b /\ \A x \in Devices \ {d} : bank'[x] = bank[x]
  BY <1>6, TypeFacts DEF IInv
<1>11. Writes(d, ChanOf[d], d, n, set)
  <2>1. \A x \in Channels, i \in Sessions : (x # c \/ i \notin set) => session'[x][i] = session[x][i]
    BY <1>7, <1>8
  <2>2. \A i \in set : session'[c][i].mapping = d
    BY <1>7, <1>8
  <2>3. \A i \in count[c] + 1 .. count[c] + n : session'[c][i].dev = d
    BY <1>7, <1>8
  <2>4. bank'[d] \in {"failed", "ok"} <=> d = d
    BY <1>6, <1>10
  <2>5. d \in attached' /\ attached \subseteq attached' /\ life' = life /\ released' = released
    BY <1>4
  <2>6. set = (count[c] + 1 .. count[c] + n) \cup {count[c] + 1}
    OBVIOUS
  <2>7. /\ hist.legacy \subseteq hist'.legacy /\ hist.late \subseteq hist'.late
        /\ Late({d}) \subseteq hist'.late /\ d \in hist'.legacy
    BY <1>9
  <2> HIDE DEF set, new
  <2> QED BY ONLY <1>3, <1>4, <1>8, <1>9, <1>10, <2>1, <2>2, <2>3, <2>4, <2>5, <2>6, <2>7 DEF Writes
<1>12. SessionsBacked' /\ TableEnds' /\ MappingOnce' /\ ReleasedOnce'
  <2> HIDE DEF set, new
  <2> QED BY <1>1, <1>3, <1>11, TableWritten
<1>13. RegsOrdered' /\ Unwinds' /\ regs' \subseteq Names
  <2>1. regs' = regs \cup {} /\ Late({}) \subseteq hist'.after /\ hist.after \subseteq hist'.after
    BY <1>4, <1>9 DEF Late
  <2>2. life # "unloaded"
    BY <1>1, ProbeFinds
  <2> QED BY <1>4, <2>1, <2>2, RegsFrame
<1>14. TypeOK'
  BY <1>1, <1>3, <1>4, <1>6, <1>8, <1>9, <1>13, ProbeTypes
<1> QED BY <1>12, <1>13, <1>14 DEF IInv

\* A probe, or the service locator, registers something.
LEMMA Registers ==
  ASSUME IInv, NEW S \in SUBSET Probed, regs' = regs \cup S, regs # {},
         hist' = [hist EXCEPT !.after = @ \cup Late(S)], UNCHANGED <<life, stage, tableVars>>,
         probed' \subseteq {"compute", "memory", "domains"}
  PROVE  IInv'
<1>1. /\ hist \in HistRec /\ Late(S) \in SUBSET Probed /\ life # "unloaded"
      /\ stage \in 1 .. Len(Steps)
  BY TypeFacts DEF IInv, Late, RegsOrdered, TypeOK
<1>2. /\ hist' \in HistRec /\ hist'.after = hist.after \cup Late(S)
      /\ hist'.legacy = hist.legacy /\ hist'.lost = hist.lost /\ hist'.late = hist.late
      /\ hist'.unreached = hist.unreached
  BY <1>1 DEF HistRec
<1>3. RegsOrdered' /\ Unwinds' /\ regs' \subseteq Names
  BY <1>1, <1>2, RegsFrame
<1>4. SessionsBacked' /\ TableEnds' /\ MappingOnce' /\ ReleasedOnce'
  BY <1>2, TableFrame
<1>5. TypeOK'
  BY <1>1, <1>2, <1>3, TypeFacts, TypeNext DEF IInv, tableVars
<1> QED BY <1>3, <1>4, <1>5 DEF IInv

\* The probes of the other devices.
LEMMA StepProbeOnce ==
  ASSUME IInv, NEW device \in {"compute", "memory", "domains"}, NEW name \in Probed,
         ProbeOnce(device, name)
  PROVE  IInv'
<1>1. PICK S \in SUBSET {name} : /\ regs' = regs \cup S
                                 /\ hist' = [hist EXCEPT !.after = @ \cup Late(S)]
  BY Zenon DEF ProbeOnce
<1>2. S \in SUBSET Probed
  OBVIOUS
<1>3. /\ regs # {} /\ UNCHANGED <<life, stage, tableVars>>
      /\ probed' \subseteq {"compute", "memory", "domains"}
  BY DEF ProbeOnce, IInv, TypeOK
<1> QED BY <1>1, <1>2, <1>3, Registers

\* A notifier for a protection domain.
LEMMA StepServiceLocated ==
  ASSUME IInv, ServiceLocated
  PROVE  IInv'
<1>1. /\ regs' = regs \cup {"notifier"} /\ regs # {} /\ {"notifier"} \in SUBSET Probed
      /\ hist' = [hist EXCEPT !.after = @ \cup Late({"notifier"})]
      /\ UNCHANGED <<life, stage, tableVars>>
      /\ probed' \subseteq {"compute", "memory", "domains"}
  BY DEF ServiceLocated, Probed, IInv, TypeOK
<1> QED BY <1>1, Registers

\* Every step of the module and of its probes preserves the invariant.
LEMMA NextIInv ==
  ASSUME ModuleAssumption, IInv, [Next]_vars
  PROVE  IInv'
<1>1. CASE InitBegin BY <1>1, StepInitBegin
<1>2. CASE InitStep BY <1>2, StepInitStep
<1>3. CASE InitFail BY <1>3, StepInitFail
<1>4. CASE DeviceExit BY <1>4, StepDeviceExit
<1>5. ASSUME NEW d \in Devices, ProbeRefused(d) PROVE IInv' BY <1>5, StepProbeRefused
<1>6. ASSUME NEW d \in Devices, ProbeNoMapping(d) \/ ProbeNoDevice(d) \/ CbProbe(d) PROVE IInv'
  BY <1>6, StepOneEntry
<1>7. ASSUME NEW d \in Devices, NEW sids \in 0 .. MaxSids, CbLegacyProbe(d, sids) PROVE IInv'
  BY <1>7, StepCbLegacyProbe
<1>8. CASE InitSecureVmidList
  BY <1>8, StepProbeOnce DEF InitSecureVmidList, Probed
<1>9. CASE ProbeMemRegion
  BY <1>9, StepProbeOnce DEF ProbeMemRegion, Probed
<1>10. CASE ProbePdr
  BY <1>10, StepProbeOnce DEF ProbePdr, Probed
<1>11. CASE ServiceLocated
  BY <1>11, StepServiceLocated
<1>12. CASE UNCHANGED vars
  <2>1. TypeOK' BY <1>12 DEF vars, IInv, TypeOK
  <2>2. RegsOrdered' /\ Unwinds'
    BY <1>12 DEF vars, IInv, RegsOrdered, Registered, Unwinds
  <2>3. SessionsBacked' /\ TableEnds' /\ MappingOnce' /\ ReleasedOnce'
    BY <1>12, TableFrame DEF vars, tableVars
  <2> QED BY <2>1, <2>2, <2>3 DEF IInv
<1> QED
  BY <1>1, <1>2, <1>3, <1>4, <1>5, <1>6, <1>7, <1>8, <1>9, <1>10, <1>11, <1>12 DEF Next

-----------------------------------------------------------------------------
(* Theorems *)

\* The invariant holds in every reachable state of the module.
THEOREM Inductive == Spec => []IInv
<1>1. Init => IInv BY ModuleAssumption, InitIInv
<1>2. IInv /\ [Next]_vars => IInv' BY ModuleAssumption, NextIInv
<1> QED BY <1>1, <1>2, PTL DEF Spec

\* An init that fails at any of its seven steps, and an exit that fastrpc_deinit survives,
\* leave nothing in the kernel but what the code never gives back: the platform driver,
\* the heap's assignment, the locator's callback, the notifiers of protection domains,
\* after a failed init the entries of debugfs, and what was registered after the end.
THEOREM UnwindsHolds == Spec => []Unwinds
BY Inductive, PTL DEF IInv

\* Whatever the order in which context banks are probed and fail, every counted session
\* of every channel has a mapping and an attached device while the module is up.
THEOREM SessionsBackedHolds == Spec => []SessionsBacked
BY Inductive, PTL DEF IInv

\* fastrpc_deinit releases every mapping once, but for those that hist sets apart and,
\* when it dies at an error pointer, those of the channels behind it.
THEOREM MappingsReturnedHolds == Spec => []MappingsReturned
<1>1. IInv => MappingsReturned BY DEF IInv, ReleasedOnce
<1> QED BY <1>1, Inductive, PTL

=============================================================================
