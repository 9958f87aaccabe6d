------------------------ MODULE FastRpcSessionProofs ------------------------
(***************************************************************************)
(* What FastRpcSession promises about secure sessions, proved for every    *)
(* number of threads, files and sessions and every choice of secure and    *)
(* shared ones.                                                            *)
(***************************************************************************)
EXTENDS FastRpcSession, FiniteSetTheorems, TLAPS

\* A thread that looks for a secure session, from fastrpc_mmap_create on.
Securing(t) == pc[t] \in {"lock", "scan", "take"} /\ arg[t].secure

\* A search for a secure session owns smd_mutex and the file's fl_map_mutex, and the
\* file has no secure session yet.
SearchLocked ==
  \A t \in Threads :
    /\ pc[t] = "lock" => arg[t].secure
    /\ Securing(t) => /\ ~arg[t].shared
                      /\ pc[t] # "lock" => mutex = t
                      /\ arg[t].fl \in mapping /\ secsctx[arg[t].fl] = Null
                      /\ \A u \in Threads \ {t} : Securing(u) => arg[u].fl # arg[t].fl

\* The entry a search has found is of the kind it asked for; a secure one is still free.
FoundFits ==
  \A t \in Threads : pc[t] = "take" =>
    /\ arg[t].idx \in Sessions
    /\ arg[t].secure => arg[t].idx \in Secure \ used
    /\ ~arg[t].secure => arg[t].idx \notin Secure

\* fl->sctx is never a secure session; fl->secsctx is nothing else, marked as used, and
\* nobody else's.
SecureOwned ==
  \A f \in Files :
    /\ sctx[f] \notin Secure
    /\ secsctx[f] # Null => /\ secsctx[f] \in Secure \cap used
                            /\ \A g \in Files \ {f} : secsctx[g] # secsctx[f]

\* Who works in a file works in an open one, but for the thread that closes it, which
\* is there for as long as the file has a secure session.
ClosedEmpty ==
  /\ \A t \in Threads : pc[t] \in {"info", "lock", "scan", "take"} => arg[t].fl \in open
  /\ \A f \in Files \ open : secsctx[f] # Null =>
       \E t \in Threads : pc[t] \in {"free", "freesec"} /\ arg[t].fl = f

\* A secure session in use has an owner, unless the early return lost it.
UsedOwned == \A s \in (Secure \cap used) \ lost : \E f \in Files : secsctx[f] = s

IInv == TypeOK /\ SearchLocked /\ FoundFits /\ SecureOwned /\ ClosedEmpty /\ UsedOwned

-----------------------------------------------------------------------------
(* Lemmas *)

Args == [fl : Files, secure : BOOLEAN, shared : BOOLEAN, idx : 1 .. SessCount + 1]
Labels == {"idle", "info", "lock", "scan", "take", "free", "freesec"}

\* What an assignment to one thread's program counter and variables leaves alone.
LEMMA ThreadAssigned ==
  ASSUME TypeOK, NEW t \in Threads, NEW l \in Labels, NEW a \in Args,
         pc' = [pc EXCEPT ![t] = l], arg' = [arg EXCEPT ![t] = a]
  PROVE  /\ pc'[t] = l /\ arg'[t] = a
         /\ \A u \in Threads \ {t} : pc'[u] = pc[u] /\ arg'[u] = arg[u]
         /\ pc' \in [Threads -> Labels] /\ arg' \in [Threads -> Args]
BY DEF TypeOK, Args, Labels

\* ... of the program counter alone.
LEMMA LabelAssigned ==
  ASSUME TypeOK, NEW t \in Threads, NEW l \in Labels,
         pc' = [pc EXCEPT ![t] = l], UNCHANGED arg
  PROVE  /\ pc'[t] = l /\ arg' = arg
         /\ \A u \in Threads \ {t} : pc'[u] = pc[u]
         /\ pc' \in [Threads -> Labels] /\ arg' \in [Threads -> Args]
BY DEF TypeOK, Args, Labels

\* Sessions are numbered from 1.
LEMMA NullNotSecure == Null \notin Sessions /\ Null \notin Secure
BY ConstantsOK DEF ConstantsOK, Null, Sessions

\* The first search of a thread has a file.
LEMMA NoArgTyped ==
  [fl |-> CHOOSE f \in Files : TRUE, secure |-> FALSE, shared |-> FALSE, idx |-> 1] \in Args
<1>1. (CHOOSE f \in Files : TRUE) \in Files
  BY ConstantsOK DEF ConstantsOK
<1>2. 1 \in 1 .. SessCount + 1
  BY ConstantsOK DEF ConstantsOK
<1> QED BY <1>1, <1>2 DEF Args

-----------------------------------------------------------------------------
(* The invariant is inductive *)

\* Nothing is taken before the first open.
LEMMA InitIInv ==
  ASSUME Init
  PROVE  IInv
<1> DEFINE a == [fl |-> CHOOSE f \in Files : TRUE, secure |-> FALSE, shared |-> FALSE, idx |-> 1]
<1>1. a \in Args
  BY NoArgTyped
<1>2. arg = [t \in Threads |-> a]
  BY DEF Init
<1> HIDE DEF a
<1>3. TypeOK
  BY <1>1, <1>2 DEF Init, TypeOK, Args, Null
<1>4. SearchLocked BY DEF Init, SearchLocked, Securing
<1>5. FoundFits BY DEF Init, FoundFits
<1>6. SecureOwned BY NullNotSecure DEF Init, SecureOwned
<1>7. ClosedEmpty BY DEF Init, ClosedEmpty
<1>8. UsedOwned BY DEF Init, UsedOwned
<1> QED BY <1>3, <1>4, <1>5, <1>6, <1>7, <1>8 DEF IInv

\* fastrpc_device_open, FASTRPC_CONTROL_SMMU and steps that change nothing.
LEMMA StepFiles ==
  ASSUME IInv,
         (\E f \in Files : DeviceOpen(f) \/ ControlSmmu(f)) \/ UNCHANGED vars
  PROVE  IInv'
<1>1. /\ UNCHANGED <<pc, arg, sctx, secsctx, used, mutex, mapping, lost>>
      /\ open \subseteq open' /\ open' \subseteq Files
      /\ cid' \subseteq Files /\ sharedcb' \subseteq Files
  BY DEF DeviceOpen, ControlSmmu, vars, fileVars, IInv, TypeOK
<1>2. TypeOK' BY <1>1 DEF IInv, TypeOK
<1>3. SearchLocked' BY <1>1 DEF IInv, SearchLocked, Securing
<1>4. FoundFits' BY <1>1 DEF IInv, FoundFits
<1>5. SecureOwned' BY <1>1 DEF IInv, SecureOwned
<1>6. ClosedEmpty' BY <1>1 DEF IInv, ClosedEmpty
<1>7. UsedOwned' BY <1>1 DEF IInv, UsedOwned
<1> QED BY <1>2, <1>3, <1>4, <1>5, <1>6, <1>7 DEF IInv

\* fastrpc_get_info finds fl->cid unset.
LEMMA StepGetInfo ==
  ASSUME IInv, NEW t \in Threads, NEW f \in Files, GetInfo(t, f)
  PROVE  IInv'
<1> DEFINE a == [arg[t] EXCEPT !.fl = f]
<1>1. /\ pc[t] = "idle" /\ f \in open /\ TypeOK
      /\ pc' = [pc EXCEPT ![t] = "info"] /\ arg' = [arg EXCEPT ![t] = a]
      /\ UNCHANGED <<open, cid, sharedcb, sctx, secsctx, used, mutex, mapping, lost>>
  BY DEF GetInfo, Goto, fileVars, IInv
<1>2. a \in Args /\ a.fl = f /\ "info" \in Labels
  BY <1>1 DEF TypeOK, Args, Labels
<1> HIDE DEF a
<1>3. /\ pc'[t] = "info" /\ arg'[t].fl = f
      /\ \A u \in Threads \ {t} : pc'[u] = pc[u] /\ arg'[u] = arg[u]
      /\ pc' \in [Threads -> Labels] /\ arg' \in [Threads -> Args]
  BY <1>1, <1>2, ThreadAssigned
<1>4. TypeOK' BY <1>1, <1>3 DEF TypeOK, Labels, Args
<1>5. SearchLocked' BY <1>1, <1>3 DEF IInv, SearchLocked, Securing
<1>6. FoundFits' BY <1>1, <1>3 DEF IInv, FoundFits
<1>7. SecureOwned' BY <1>1 DEF IInv, SecureOwned
<1>8. ClosedEmpty' BY <1>1, <1>3 DEF IInv, ClosedEmpty
<1>9. UsedOwned' BY <1>1 DEF IInv, UsedOwned
<1> QED BY <1>4, <1>5, <1>6, <1>7, <1>8, <1>9 DEF IInv

\* A search begins: GETINFO for an ordinary session, a mapping for a secure one.
LEMMA SearchTyped ==
  ASSUME NEW f \in Files, NEW secure \in BOOLEAN
  PROVE  LET a == [fl |-> f, secure |-> secure, shared |-> ~secure /\ f \in sharedcb, idx |-> 1]
         IN  a \in Args /\ a.fl = f /\ a.secure = secure /\ (secure => ~a.shared)
<1>1. 1 \in 1 .. SessCount + 1
  BY ConstantsOK DEF ConstantsOK
<1>2. (~secure /\ f \in sharedcb) \in BOOLEAN
  OBVIOUS
<1> QED BY <1>1, <1>2 DEF Args

\* fastrpc_get_info fixes the channel and begins its search.
LEMMA StepGetInfoCid ==
  ASSUME IInv, NEW t \in Threads, GetInfoCid(t)
  PROVE  IInv'
<1> DEFINE f == arg[t].fl
           a == [fl |-> f, secure |-> FALSE, shared |-> ~FALSE /\ f \in sharedcb, idx |-> 1]
<1>1. /\ pc[t] = "info" /\ TypeOK /\ f \in Files /\ f \in open
      /\ pc' = [pc EXCEPT ![t] = "scan"] /\ arg' = [arg EXCEPT ![t] = a]
      /\ cid' \subseteq Files
      /\ UNCHANGED <<open, sharedcb, sctx, secsctx, used, mutex, mapping, lost>>
  BY DEF GetInfoCid, Search, Goto, IInv, TypeOK, ClosedEmpty
<1>2. a \in Args /\ a.fl = f /\ a.secure = FALSE /\ "scan" \in Labels
  BY <1>1, SearchTyped DEF Labels
<1> HIDE DEF a
<1>3. /\ pc'[t] = "scan" /\ arg'[t].fl = f /\ ~arg'[t].secure
      /\ \A u \in Threads \ {t} : pc'[u] = pc[u] /\ arg'[u] = arg[u]
      /\ pc' \in [Threads -> Labels] /\ arg' \in [Threads -> Args]
  BY <1>1, <1>2, ThreadAssigned
<1> HIDE DEF f
<1>4. TypeOK' BY <1>1, <1>3 DEF TypeOK, Labels, Args
<1>5. SearchLocked' BY <1>1, <1>3 DEF IInv, SearchLocked, Securing
<1>6. FoundFits' BY <1>1, <1>3 DEF IInv, FoundFits
<1>7. SecureOwned' BY <1>1 DEF IInv, SecureOwned
<1>8. ClosedEmpty' BY <1>1, <1>3 DEF IInv, ClosedEmpty
<1>9. UsedOwned' BY <1>1 DEF IInv, UsedOwned
<1> QED BY <1>4, <1>5, <1>6, <1>7, <1>8, <1>9 DEF IInv

\* The first secure mapping of a file calls fastrpc_session_alloc.
LEMMA StepMapSecure ==
  ASSUME IInv, NEW t \in Threads, NEW f \in Files, MapSecure(t, f)
  PROVE  IInv'
<1> DEFINE a == [fl |-> f, secure |-> TRUE, shared |-> ~TRUE /\ f \in sharedcb, idx |-> 1]
<1>1. /\ pc[t] = "idle" /\ TypeOK /\ f \in open \ mapping /\ secsctx[f] = Null
      /\ pc' = [pc EXCEPT ![t] = "lock"] /\ arg' = [arg EXCEPT ![t] = a]
      /\ mapping' = mapping \cup {f}
      /\ UNCHANGED <<open, cid, sharedcb, sctx, secsctx, used, mutex, lost>>
  BY DEF MapSecure, Search, Goto, fileVars, IInv
<1>2. a \in Args /\ a.fl = f /\ a.secure = TRUE /\ ~a.shared /\ "lock" \in Labels
  BY SearchTyped DEF Labels
<1> HIDE DEF a
<1>3. /\ pc'[t] = "lock" /\ arg'[t].fl = f /\ arg'[t].secure /\ ~arg'[t].shared
      /\ \A u \in Threads \ {t} : pc'[u] = pc[u] /\ arg'[u] = arg[u]
      /\ pc' \in [Threads -> Labels] /\ arg' \in [Threads -> Args]
  BY <1>1, <1>2, ThreadAssigned
<1>4. TypeOK' BY <1>1, <1>3 DEF TypeOK, Labels, Args
<1>5. SearchLocked' BY <1>1, <1>3 DEF IInv, SearchLocked, Securing
<1>6. FoundFits' BY <1>1, <1>3 DEF IInv, FoundFits
<1>7. SecureOwned' BY <1>1 DEF IInv, SecureOwned
<1>8. ClosedEmpty' BY <1>1, <1>3 DEF IInv, ClosedEmpty
<1>9. UsedOwned' BY <1>1 DEF IInv, UsedOwned
<1> QED BY <1>4, <1>5, <1>6, <1>7, <1>8, <1>9 DEF IInv

\* mutex_lock in fastrpc_session_alloc.
LEMMA StepSessionLock ==
  ASSUME IInv, NEW t \in Threads, SessionLock(t)
  PROVE  IInv'
<1>1. /\ pc[t] = "lock" /\ TypeOK /\ mutex = Nil /\ mutex' = t
      /\ pc' = [pc EXCEPT ![t] = "scan"] /\ "scan" \in Labels
      /\ UNCHANGED <<arg, open, cid, sharedcb, sctx, secsctx, used, mapping, lost>>
  BY DEF SessionLock, Goto, fileVars, IInv, Labels
<1>2. /\ pc'[t] = "scan" /\ arg' = arg
      /\ \A u \in Threads \ {t} : pc'[u] = pc[u]
      /\ pc' \in [Threads -> Labels] /\ arg' \in [Threads -> Args]
  BY <1>1, LabelAssigned
<1>3. TypeOK' BY <1>1, <1>2 DEF TypeOK, Labels, Args
<1>4. SearchLocked' BY <1>1, <1>2, ConstantsOK DEF IInv, SearchLocked, Securing, ConstantsOK
<1>5. FoundFits' BY <1>1, <1>2 DEF IInv, FoundFits
<1>6. SecureOwned' BY <1>1 DEF IInv, SecureOwned
<1>7. ClosedEmpty' BY <1>1, <1>2 DEF IInv, ClosedEmpty
<1>8. UsedOwned' BY <1>1 DEF IInv, UsedOwned
<1> QED BY <1>3, <1>4, <1>5, <1>6, <1>7, <1>8 DEF IInv

\* Leaving a search gives back the locks of a secure one, and only those.
LEMMA LeaveFrame ==
  ASSUME IInv, NEW t \in Threads, pc[t] \in {"scan", "take"}, Leave(t), UNCHANGED arg
  PROVE  /\ pc'[t] = "idle" /\ \A u \in Threads \ {t} : pc'[u] = pc[u]
         /\ pc' \in [Threads -> Labels] /\ arg' \in [Threads -> Args]
         /\ mutex' \in Threads \cup {Nil} /\ mapping' \subseteq Files
         /\ \A u \in Threads \ {t} : Securing(u) =>
              /\ mutex' = mutex \/ pc[u] = "lock"
              /\ arg[u].fl \in mapping => arg[u].fl \in mapping'
<1>1. pc' = [pc EXCEPT ![t] = "idle"] /\ "idle" \in Labels /\ TypeOK
  BY DEF Leave, Goto, IInv, Labels
<1>2. /\ pc'[t] = "idle" /\ \A u \in Threads \ {t} : pc'[u] = pc[u]
      /\ pc' \in [Threads -> Labels] /\ arg' \in [Threads -> Args]
  BY <1>1, LabelAssigned
<1>3. mutex' \in Threads \cup {Nil} /\ mapping' \subseteq Files
  BY <1>1 DEF Leave, TypeOK
<1>4. ASSUME NEW u \in Threads \ {t}, Securing(u)
      PROVE  /\ arg[u].fl \in mapping => arg[u].fl \in mapping'
             /\ mutex' = mutex \/ pc[u] = "lock"
  <2>1. CASE arg[t].secure
    <3>1. Securing(t)
      BY <2>1 DEF Securing
    <3>2. mutex = t /\ arg[u].fl # arg[t].fl
      BY <3>1, <1>4 DEF IInv, SearchLocked
    <3>3. pc[u] = "lock"
      BY <3>2, <1>4 DEF IInv, SearchLocked
    <3> QED BY <2>1, <3>2, <3>3 DEF Leave
  <2>2. CASE ~arg[t].secure
    BY <2>2 DEF Leave
  <2> QED BY <2>1, <2>2
<1> QED BY <1>2, <1>3, <1>4

\* fastrpc_session_alloc_locked reads an entry.
LEMMA StepSessionScan ==
  ASSUME IInv, NEW t \in Threads, SessionScan(t)
  PROVE  IInv'
<1>1. /\ pc[t] = "scan" /\ TypeOK /\ arg[t] \in Args
      /\ UNCHANGED <<open, cid, sharedcb, sctx, secsctx, used, lost>>
  BY DEF SessionScan, fileVars, IInv, TypeOK, Args
<1>2. SecureOwned' /\ UsedOwned'
  BY <1>1 DEF IInv, SecureOwned, UsedOwned
<1>3. CASE Leave(t) /\ UNCHANGED arg
  <2>1. /\ pc'[t] = "idle" /\ \A u \in Threads \ {t} : pc'[u] = pc[u]
        /\ pc' \in [Threads -> Labels] /\ arg' \in [Threads -> Args]
        /\ mutex' \in Threads \cup {Nil} /\ mapping' \subseteq Files
        /\ \A u \in Threads \ {t} : Securing(u) =>
             /\ mutex' = mutex \/ pc[u] = "lock"
             /\ arg[u].fl \in mapping => arg[u].fl \in mapping'
    BY <1>1, <1>3, LeaveFrame
  <2>2. TypeOK' BY <1>1, <2>1 DEF TypeOK, Labels, Args
  <2>3. SearchLocked' BY <1>1, <1>3, <2>1 DEF IInv, SearchLocked, Securing
  <2>4. FoundFits' BY <1>1, <1>3, <2>1 DEF IInv, FoundFits
  <2>5. ClosedEmpty' BY <1>1, <1>3, <2>1 DEF IInv, ClosedEmpty
  <2> QED BY <1>2, <2>2, <2>3, <2>4, <2>5 DEF IInv
<1>4. CASE /\ arg[t].idx <= SessCount /\ Match(arg[t]) /\ Goto(t, "take")
           /\ UNCHANGED <<arg, mutex, mapping>>
  <2>1. pc' = [pc EXCEPT ![t] = "take"] /\ "take" \in Labels /\ arg' = arg
    BY <1>4 DEF Goto, Labels
  <2>2. /\ pc'[t] = "take" /\ \A u \in Threads \ {t} : pc'[u] = pc[u]
        /\ pc' \in [Threads -> Labels] /\ arg' \in [Threads -> Args]
    BY <1>1, <2>1, LabelAssigned
  <2>3. TypeOK' BY <1>1, <1>4, <2>2 DEF TypeOK, Labels, Args
  <2>4. SearchLocked' BY <1>1, <1>4, <2>2 DEF IInv, SearchLocked, Securing
  <2>5. FoundFits'
    <3>1. /\ arg[t].idx \in Sessions
          /\ arg[t].secure => arg[t].idx \in Secure \ used
          /\ ~arg[t].secure => arg[t].idx \notin Secure
      <4>1. arg[t].idx \in Sessions
        BY <1>1, <1>4, ConstantsOK DEF Args, Sessions, ConstantsOK
      <4>2. arg[t].secure => ~arg[t].shared
        BY <1>1 DEF IInv, SearchLocked, Securing
      <4> QED BY <4>1, <4>2, <1>1, <1>4, ConstantsOK DEF Match, ConstantsOK, Args
    <3> QED BY <1>1, <1>4, <2>2, <3>1 DEF IInv, FoundFits
  <2>6. ClosedEmpty' BY <1>1, <1>4, <2>2 DEF IInv, ClosedEmpty
  <2> QED BY <1>2, <2>3, <2>4, <2>5, <2>6 DEF IInv
<1>5. CASE /\ arg[t].idx <= SessCount /\ arg' = [arg EXCEPT ![t].idx = @ + 1]
           /\ UNCHANGED <<pc, mutex, mapping>>
  <2> DEFINE a == [arg[t] EXCEPT !.idx = @ + 1]
  <2>1. /\ a \in Args /\ a.fl = arg[t].fl /\ a.secure = arg[t].secure
        /\ a.shared = arg[t].shared
    BY <1>1, <1>5, ConstantsOK DEF Args, ConstantsOK
  <2>2. arg' = [arg EXCEPT ![t] = a] /\ pc' = pc
    BY <1>5
  <2> HIDE DEF a
  <2>3. /\ arg'[t] = a /\ \A u \in Threads \ {t} : arg'[u] = arg[u]
        /\ arg' \in [Threads -> Args]
    BY <1>1, <2>1, <2>2 DEF TypeOK, Args
  <2>4. TypeOK' BY <1>1, <1>5, <2>3 DEF TypeOK, Args
  <2>5. SearchLocked' BY <1>1, <1>5, <2>1, <2>3 DEF IInv, SearchLocked, Securing
  <2>6. FoundFits' BY <1>1, <1>5, <2>3 DEF IInv, FoundFits
  <2>7. ClosedEmpty' BY <1>1, <1>5, <2>1, <2>3 DEF IInv, ClosedEmpty
  <2> QED BY <1>2, <2>4, <2>5, <2>6, <2>7 DEF IInv
<1> QED BY <1>3, <1>4, <1>5 DEF SessionScan

\* fastrpc_session_alloc_locked marks the entry it has found.
LEMMA StepSessionTake ==
  ASSUME IInv, NEW t \in Threads, SessionTake(t)
  PROVE  IInv'
<1> DEFINE f == arg[t].fl
           s == arg[t].idx
<1>1. /\ pc[t] = "take" /\ TypeOK /\ f \in Files /\ f \in open /\ s \in Sessions
      /\ used' = used \cup {s} /\ Leave(t)
      /\ UNCHANGED <<arg, open, cid, sharedcb, lost>>
  BY DEF SessionTake, fileVars, IInv, TypeOK, FoundFits, ClosedEmpty
<1>2. /\ pc'[t] = "idle" /\ \A u \in Threads \ {t} : pc'[u] = pc[u]
      /\ pc' \in [Threads -> Labels] /\ arg' \in [Threads -> Args]
      /\ mutex' \in Threads \cup {Nil} /\ mapping' \subseteq Files
      /\ \A u \in Threads \ {t} : Securing(u) =>
           /\ mutex' = mutex \/ pc[u] = "lock"
           /\ arg[u].fl \in mapping => arg[u].fl \in mapping'
  BY <1>1, LeaveFrame
<1>3. CASE arg[t].secure
  <2>1. /\ s \in Secure \ used /\ secsctx[f] = Null /\ mutex = t /\ s # Null
        /\ \A u \in Threads \ {t} : Securing(u) => arg[u].fl # f /\ pc[u] = "lock"
    BY <1>1, <1>3, NullNotSecure DEF IInv, FoundFits, SearchLocked, Securing
  <2>2. /\ sctx' = sctx /\ secsctx' \in [Files -> Sessions \cup {Null}] /\ secsctx'[f] = s
        /\ \A g \in Files \ {f} : secsctx'[g] = secsctx[g]
    BY <1>1, <1>3 DEF SessionTake, TypeOK
  <2> HIDE DEF f, s
  <2>3. TypeOK' BY <1>1, <1>2, <2>2 DEF TypeOK, Labels, Args
  <2>4. SearchLocked' BY <1>1, <1>2, <2>1, <2>2 DEF IInv, SearchLocked, Securing, TypeOK
  <2>5. FoundFits'
    <3>1. \A u \in Threads \ {t} : pc[u] = "take" => ~arg[u].secure
      BY <2>1 DEF Securing
    <3> QED BY <1>1, <1>2, <3>1 DEF IInv, FoundFits
  <2>6. SecureOwned' BY <1>1, <2>1, <2>2 DEF IInv, SecureOwned
  <2>7. ClosedEmpty' BY <1>1, <1>2, <2>2 DEF IInv, ClosedEmpty
  <2>8. UsedOwned' BY <1>1, <2>1, <2>2, NullNotSecure DEF IInv, UsedOwned
  <2> QED BY <2>3, <2>4, <2>5, <2>6, <2>7, <2>8 DEF IInv
<1>4. CASE ~arg[t].secure
  <2>1. s \notin Secure
    BY <1>1, <1>4 DEF IInv, FoundFits
  <2>2. /\ secsctx' = secsctx /\ sctx' \in [Files -> Sessions \cup {Null}] /\ sctx'[f] = s
        /\ \A g \in Files \ {f} : sctx'[g] = sctx[g]
    BY <1>1, <1>4 DEF SessionTake, TypeOK
  <2> HIDE DEF f, s
  <2>3. TypeOK' BY <1>1, <1>2, <2>2 DEF TypeOK, Labels, Args
  <2>4. SearchLocked' BY <1>1, <1>2, <2>1, <2>2 DEF IInv, SearchLocked, Securing
  <2>5. FoundFits' BY <1>1, <1>2, <2>1 DEF IInv, FoundFits
  <2>6. SecureOwned' BY <1>1, <2>1, <2>2 DEF IInv, SecureOwned
  <2>7. ClosedEmpty' BY <1>1, <1>2, <2>2 DEF IInv, ClosedEmpty
  <2>8. UsedOwned' BY <1>1, <2>1, <2>2 DEF IInv, UsedOwned
  <2> QED BY <2>3, <2>4, <2>5, <2>6, <2>7, <2>8 DEF IInv
<1> QED BY <1>3, <1>4

\* fastrpc_file_free, with its early return.
LEMMA StepFileFree ==
  ASSUME IInv, NEW t \in Threads, NEW f \in Files, FileFree(t, f)
  PROVE  IInv'
<1>1. /\ pc[t] = "idle" /\ f \in open /\ open' = open \ {f} /\ TypeOK
      /\ \A u \in Threads : pc[u] # "idle" => arg[u].fl # f
      /\ UNCHANGED <<cid, sharedcb, sctx, used, mutex, mapping>>
  BY DEF FileFree, Busy, IInv
<1>2. CASE /\ secsctx' = [secsctx EXCEPT ![f] = Null]
           /\ lost' = lost \cup ({secsctx[f]} \ {Null})
           /\ UNCHANGED <<pc, arg>>
  <2>1. /\ secsctx' \in [Files -> Sessions \cup {Null}] /\ secsctx'[f] = Null
        /\ \A g \in Files \ {f} : secsctx'[g] = secsctx[g]
    BY <1>1, <1>2 DEF TypeOK
  <2>2. TypeOK' BY <1>1, <1>2, <2>1 DEF TypeOK
  <2>3. SearchLocked' BY <1>1, <1>2, <2>1 DEF IInv, SearchLocked, Securing, TypeOK
  <2>4. FoundFits' BY <1>1, <1>2 DEF IInv, FoundFits
  <2>5. SecureOwned' BY <1>1, <2>1 DEF IInv, SecureOwned
  <2>6. ClosedEmpty' BY <1>1, <1>2, <2>1 DEF IInv, ClosedEmpty
  <2>7. UsedOwned' BY <1>1, <1>2, <2>1, NullNotSecure DEF IInv, UsedOwned
  <2> QED BY <2>2, <2>3, <2>4, <2>5, <2>6, <2>7 DEF IInv
<1>3. CASE /\ arg' = [arg EXCEPT ![t].fl = f] /\ Goto(t, "free")
           /\ UNCHANGED <<secsctx, lost>>
  <2> DEFINE a == [arg[t] EXCEPT !.fl = f]
  <2>1. /\ a \in Args /\ a.fl = f /\ "free" \in Labels
        /\ pc' = [pc EXCEPT ![t] = "free"] /\ arg' = [arg EXCEPT ![t] = a]
    BY <1>1, <1>3 DEF TypeOK, Args, Labels, Goto
  <2> HIDE DEF a
  <2>2. /\ pc'[t] = "free" /\ arg'[t].fl = f
        /\ \A u \in Threads \ {t} : pc'[u] = pc[u] /\ arg'[u] = arg[u]
        /\ pc' \in [Threads -> Labels] /\ arg' \in [Threads -> Args]
    BY <1>1, <2>1, ThreadAssigned
  <2>3. TypeOK' BY <1>1, <1>3, <2>2 DEF TypeOK, Labels, Args
  <2>4. SearchLocked' BY <1>1, <1>3, <2>2 DEF IInv, SearchLocked, Securing
  <2>5. FoundFits' BY <1>1, <2>2 DEF IInv, FoundFits
  <2>6. SecureOwned' BY <1>1, <1>3 DEF IInv, SecureOwned
  <2>7. ClosedEmpty' BY <1>1, <1>3, <2>2 DEF IInv, ClosedEmpty
  <2>8. UsedOwned' BY <1>1, <1>3 DEF IInv, UsedOwned
  <2> QED BY <2>3, <2>4, <2>5, <2>6, <2>7, <2>8 DEF IInv
<1> QED BY <1>2, <1>3 DEF FileFree

\* fastrpc_session_free.
LEMMA StepSessionFree ==
  ASSUME IInv, NEW t \in Threads, SessionFree(t)
  PROVE  IInv'
<1> DEFINE f == arg[t].fl
<1>1. /\ TypeOK /\ f \in Files /\ pc[t] \in {"free", "freesec"}
      /\ UNCHANGED <<arg, open, cid, sharedcb, mutex, mapping, lost>>
  BY DEF SessionFree, fileVars, IInv, TypeOK
<1>2. CASE /\ pc[t] = "free" /\ used' = used \ {sctx[f]}
           /\ sctx' = [sctx EXCEPT ![f] = Null]
           /\ Goto(t, IF secsctx[f] = Null THEN "idle" ELSE "freesec")
           /\ UNCHANGED secsctx
  <2>1. /\ pc'[t] = IF secsctx[f] = Null THEN "idle" ELSE "freesec"
        /\ \A u \in Threads \ {t} : pc'[u] = pc[u]
        /\ pc' \in [Threads -> Labels] /\ arg' \in [Threads -> Args]
    BY <1>1, <1>2 DEF Goto, TypeOK, Labels, Args
  <2>2. /\ sctx' \in [Files -> Sessions \cup {Null}] /\ sctx'[f] = Null
        /\ \A g \in Files \ {f} : sctx'[g] = sctx[g]
    BY <1>1, <1>2 DEF TypeOK
  <2>3. Secure \cap used' = Secure \cap used
    BY <1>1, <1>2 DEF IInv, SecureOwned
  <2> HIDE DEF f
  <2>4. TypeOK' BY <1>1, <1>2, <2>1, <2>2 DEF TypeOK, Labels, Args
  <2>5. SearchLocked' BY <1>1, <1>2, <2>1 DEF IInv, SearchLocked, Securing
  <2>6. FoundFits' BY <1>1, <1>2, <2>1 DEF IInv, FoundFits
  <2>7. SecureOwned' BY <1>1, <1>2, <2>2, <2>3, NullNotSecure DEF IInv, SecureOwned
  <2>8. ClosedEmpty' BY <1>1, <1>2, <2>1 DEF IInv, ClosedEmpty, f
  <2>9. UsedOwned' BY <1>1, <1>2, <2>3 DEF IInv, UsedOwned
  <2> QED BY <2>4, <2>5, <2>6, <2>7, <2>8, <2>9 DEF IInv
<1>3. CASE /\ pc[t] = "freesec" /\ used' = used \ {secsctx[f]}
           /\ secsctx' = [secsctx EXCEPT ![f] = Null]
           /\ Goto(t, "idle")
           /\ UNCHANGED sctx
  <2>1. /\ pc'[t] = "idle" /\ \A u \in Threads \ {t} : pc'[u] = pc[u]
        /\ pc' \in [Threads -> Labels] /\ arg' \in [Threads -> Args]
    BY <1>1, <1>3 DEF Goto, TypeOK, Labels, Args
  <2>2. /\ secsctx' \in [Files -> Sessions \cup {Null}] /\ secsctx'[f] = Null
        /\ \A g \in Files \ {f} : secsctx'[g] = secsctx[g]
    BY <1>1, <1>3 DEF TypeOK
  <2> HIDE DEF f
  <2>3. TypeOK' BY <1>1, <1>3, <2>1, <2>2 DEF TypeOK, Labels, Args
  <2>4. SearchLocked' BY <1>1, <1>3, <2>1, <2>2 DEF IInv, SearchLocked, Securing, TypeOK
  <2>5. FoundFits' BY <1>1, <1>3, <2>1 DEF IInv, FoundFits
  <2>6. SecureOwned' BY <1>1, <1>3, <2>2 DEF IInv, SecureOwned
  <2>7. ClosedEmpty' BY <1>1, <1>3, <2>1, <2>2 DEF IInv, ClosedEmpty, f
  <2>8. UsedOwned' BY <1>1, <1>3, <2>2 DEF IInv, UsedOwned
  <2> QED BY <2>3, <2>4, <2>5, <2>6, <2>7, <2>8 DEF IInv
<1> QED BY <1>2, <1>3 DEF SessionFree

\* Every step preserves the invariant.
LEMMA NextIInv ==
  ASSUME IInv, [Next]_vars
  PROVE  IInv'
<1>1. ASSUME NEW t \in Threads, NEW f \in Files,
             GetInfo(t, f) \/ MapSecure(t, f) \/ FileFree(t, f)
      PROVE  IInv'
  BY <1>1, StepGetInfo, StepMapSecure, StepFileFree
<1>2. ASSUME NEW t \in Threads,
             \/ GetInfoCid(t) \/ SessionLock(t) \/ SessionScan(t) \/ SessionTake(t)
             \/ SessionFree(t)
      PROVE  IInv'
  BY <1>2, StepGetInfoCid, StepSessionLock, StepSessionScan, StepSessionTake, StepSessionFree
<1> QED BY <1>1, <1>2, StepFiles DEF Next

-----------------------------------------------------------------------------
(* Theorems *)

\* The invariant holds in every reachable state of the session table.
THEOREM Inductive == Spec => []IInv
<1>1. Init => IInv BY InitIInv
<1>2. IInv /\ [Next]_vars => IInv' BY NextIInv
<1> QED BY <1>1, <1>2, PTL DEF Spec

\* A secure session never has two owners, and one that has an owner is marked as used,
\* although GETINFO searches the same table without the mutex.
THEOREM SecureExclusiveHolds == Spec => []SecureExclusive
<1>1. ASSUME IInv
      PROVE  SecureExclusive
  <2> SUFFICES ASSUME NEW s \in Secure
               PROVE  Cardinality(Holders(s)) <= 1 /\ (Holders(s) # {} => s \in used)
    BY DEF SecureExclusive
  <2>1. \A f \in Files : f \in Holders(s) <=> secsctx[f] = s
    BY <1>1 DEF IInv, SecureOwned, Holders
  <2>2. Holders(s) # {} => s \in used
    BY <1>1, <2>1, NullNotSecure DEF IInv, SecureOwned, Holders
  <2>3. CASE Holders(s) = {}
    BY <2>2, <2>3, FS_EmptySet
  <2>4. ASSUME NEW f \in Holders(s)
        PROVE  Cardinality(Holders(s)) = 1
    <3>1. Holders(s) = {f}
      BY <1>1, <2>1, <2>4, NullNotSecure DEF IInv, SecureOwned, Holders
    <3> QED BY ONLY <3>1, FS_Singleton
  <2> QED BY <2>2, <2>3, <2>4
<1> QED BY <1>1, Inductive, PTL

\* A secure session in use belongs to a file that is open or being closed, unless the
\* early return of fastrpc_file_free forgot it.
THEOREM SecureReturnedHolds == Spec => []SecureReturned
<1>1. ASSUME IInv
      PROVE  SecureReturned
  <2> SUFFICES ASSUME NEW s \in (Secure \cap used) \ lost
               PROVE  \E f \in Holders(s) : f \in open \/ Busy(f)
    BY DEF SecureReturned
  <2>1. PICK f \in Files : secsctx[f] = s
    BY <1>1 DEF IInv, UsedOwned
  <2>2. f \in open \/ Busy(f)
    BY <1>1, <2>1, NullNotSecure DEF IInv, ClosedEmpty, Busy
  <2> QED BY <2>1, <2>2 DEF Holders
<1> QED BY <1>1, Inductive, PTL
=============================================================================
