---------------------------- MODULE FastRpcSession ----------------------------
(***************************************************************************)
(* The sessions (SMMU context banks) of one channel of the FastRPC driver  *)
(* (android/adsprpc.c): GETINFO takes one for the file, the first secure   *)
(* buffer takes a secure one, and the close of the file gives both back.   *)
(* The search reads and writes one entry at a time; smd_mutex covers some  *)
(* of its callers only.                                                    *)
(***************************************************************************)
EXTENDS Naturals, FiniteSets

CONSTANTS
  Threads, Files,
  SessCount,   \* chan->sesscount; sessions are numbered from 1, 0 is NULL
  Secure,      \* sessions with smmu.secure
  Shared,      \* sessions with smmu.sharedcb
  Nil          \* nobody

Sessions == 1 .. SessCount
Null == 0

ASSUME ConstantsOK ==
  /\ SessCount \in Nat
  /\ Secure \subseteq Sessions /\ Shared \subseteq Sessions \ Secure
  /\ Nil \notin Threads /\ Files # {}

VARIABLES
  pc,        \* what each thread does
  arg,       \* the file, the kind of session and the entry its search has come to
  open,      \* files that are open
  cid,       \* files whose fl->cid is set
  sharedcb,  \* files with fl->sharedcb
  sctx,      \* fl->sctx
  secsctx,   \* fl->secsctx
  used,      \* sessions with used = 1
  mutex,     \* the owner of smd_mutex
  mapping,   \* files whose fl_map_mutex is held
  lost       \* history: sessions of files freed by the early return of file_free

fileVars == <<open, cid, sharedcb>>
vars == <<pc, arg, fileVars, sctx, secsctx, used, mutex, mapping, lost>>

TypeOK ==
  /\ pc \in [Threads -> {"idle", "info", "lock", "scan", "take", "free", "freesec"}]
  /\ arg \in [Threads -> [fl : Files, secure : BOOLEAN, shared : BOOLEAN,
                       idx : 1 .. SessCount + 1]]
  /\ open \subseteq Files /\ cid \subseteq Files /\ sharedcb \subseteq Files
  /\ sctx \in [Files -> Sessions \cup {Null}]
  /\ secsctx \in [Files -> Sessions \cup {Null}]
  /\ used \subseteq Sessions
  /\ mutex \in Threads \cup {Nil}
  /\ mapping \subseteq Files
  /\ lost \subseteq Sessions

Init ==
  /\ pc = [t \in Threads |-> "idle"]
  /\ arg = [t \in Threads |-> [fl |-> CHOOSE f \in Files : TRUE,
                               secure |-> FALSE, shared |-> FALSE, idx |-> 1]]
  /\ open = {} /\ cid = {} /\ sharedcb = {}
  /\ sctx = [f \in Files |-> Null]
  /\ secsctx = [f \in Files |-> Null]
  /\ used = {}
  /\ mutex = Nil
  /\ mapping = {}
  /\ lost = {}

-----------------------------------------------------------------------------
Goto(t, label) == pc' = [pc EXCEPT ![t] = label]

Busy(f) == \E t \in Threads : pc[t] # "idle" /\ arg[t].fl = f

\* fastrpc_device_open: a zeroed struct fastrpc_file.
DeviceOpen(f) ==
  /\ f \notin open /\ ~Busy(f)
  /\ open' = open \cup {f}
  /\ cid' = cid \ {f}
  /\ sharedcb' = sharedcb \ {f}
  /\ UNCHANGED <<pc, arg, sctx, secsctx, used, mutex, mapping, lost>>

\* FASTRPC_CONTROL_SMMU.
ControlSmmu(f) ==
  /\ f \in open
  /\ sharedcb' \in {sharedcb \cup {f}, sharedcb \ {f}}
  /\ UNCHANGED <<pc, arg, open, cid, sctx, secsctx, used, mutex, mapping, lost>>

\* A search for a session begins at the first entry; only GETINFO passes fl->sharedcb.
Search(t, f, secure) ==
  arg' = [arg EXCEPT ![t] = [fl |-> f, secure |-> secure,
                             shared |-> ~secure /\ f \in sharedcb, idx |-> 1]]

\* fastrpc_get_info finds fl->cid unset ...
GetInfo(t, f) ==
  /\ pc[t] = "idle" /\ f \in open \ cid
  /\ arg' = [arg EXCEPT ![t].fl = f]
  /\ Goto(t, "info")
  /\ UNCHANGED <<fileVars, sctx, secsctx, used, mutex, mapping, lost>>

\* ... and fixes the channel and searches for a session, without taking smd_mutex.
GetInfoCid(t) ==
  /\ pc[t] = "info"
  /\ cid' = cid \cup {arg[t].fl}
  /\ Search(t, arg[t].fl, FALSE)
  /\ Goto(t, "scan")
  /\ UNCHANGED <<open, sharedcb, sctx, secsctx, used, mutex, mapping, lost>>

\* fastrpc_mmap_create of a secure buffer, under fl_map_mutex: the first one calls
\* fastrpc_session_alloc, even if GETINFO found no session for the file.
MapSecure(t, f) ==
  /\ pc[t] = "idle" /\ f \in (open \cap cid) \ mapping
  /\ secsctx[f] = Null
  /\ mapping' = mapping \cup {f}
  /\ Search(t, f, TRUE)
  /\ Goto(t, "lock")
  /\ UNCHANGED <<fileVars, sctx, secsctx, used, mutex, lost>>

\* Mutant of SessionLock: the mutex is not taken.
SessionLockForgotten(t) ==
  /\ pc[t] = "lock"
  /\ Goto(t, "scan")
  /\ UNCHANGED <<arg, fileVars, sctx, secsctx, used, mutex, mapping, lost>>

\* mutex_lock in fastrpc_session_alloc.
SessionLock(t) ==
  /\ pc[t] = "lock" /\ mutex = Nil
  /\ mutex' = t
  /\ Goto(t, "scan")
  /\ UNCHANGED <<arg, fileVars, sctx, secsctx, used, mapping, lost>>

\* The condition on an entry in fastrpc_session_alloc_locked.
Match(a) ==
  \/ a.shared /\ a.idx \in Shared
  \/ ~a.shared /\ a.idx \notin used /\ (a.idx \in Secure <=> a.secure)

\* Leaving fastrpc_get_info, or fastrpc_session_alloc and the mapping.
Leave(t) ==
  /\ Goto(t, "idle")
  /\ mutex' = IF arg[t].secure THEN Nil ELSE mutex
  /\ mapping' = IF arg[t].secure THEN mapping \ {arg[t].fl} ELSE mapping

\* fastrpc_session_alloc_locked reads one entry; at the end of the table it fails.
SessionScan(t) ==
  LET a == arg[t] IN
  /\ pc[t] = "scan"
  /\ \/ /\ a.idx > SessCount
        /\ Leave(t)
        /\ UNCHANGED arg
     \/ /\ a.idx <= SessCount /\ Match(a)
        /\ Goto(t, "take")
        /\ UNCHANGED <<arg, mutex, mapping>>
     \/ /\ a.idx <= SessCount /\ ~Match(a)
        /\ arg' = [arg EXCEPT ![t].idx = @ + 1]
        /\ UNCHANGED <<pc, mutex, mapping>>
  /\ UNCHANGED <<fileVars, sctx, secsctx, used, lost>>

\* It marks the entry it has found and returns it.
SessionTake(t) ==
  LET a == arg[t] IN
  /\ pc[t] = "take"
  /\ used' = used \cup {a.idx}
  /\ IF a.secure THEN /\ secsctx' = [secsctx EXCEPT ![a.fl] = a.idx]
                      /\ UNCHANGED sctx
                 ELSE /\ sctx' = [sctx EXCEPT ![a.fl] = a.idx]
                      /\ UNCHANGED secsctx
  /\ Leave(t)
  /\ UNCHANGED <<arg, fileVars, lost>>

\* fastrpc_file_free, when no other thread is in the file. Without fl->sctx it returns
\* early and forgets fl->secsctx.
FileFree(t, f) ==
  /\ pc[t] = "idle" /\ f \in open /\ ~Busy(f)
  /\ open' = open \ {f}
  /\ \/ /\ sctx[f] = Null
        /\ secsctx' = [secsctx EXCEPT ![f] = Null]
        /\ lost' = lost \cup ({secsctx[f]} \ {Null})
        /\ UNCHANGED <<pc, arg>>
     \/ /\ sctx[f] # Null
        /\ arg' = [arg EXCEPT ![t].fl = f]
        /\ Goto(t, "free")
        /\ UNCHANGED <<secsctx, lost>>
  /\ UNCHANGED <<cid, sharedcb, sctx, used, mutex, mapping>>

\* Mutant of SessionFree: fl->secsctx is not given back.
SessionFreeFirst(t) ==
  LET f == arg[t].fl IN
  /\ pc[t] = "free" /\ mutex = Nil
  /\ used' = used \ {sctx[f]}
  /\ sctx' = [sctx EXCEPT ![f] = Null]
  /\ secsctx' = [secsctx EXCEPT ![f] = Null]
  /\ Goto(t, "idle")
  /\ UNCHANGED <<arg, fileVars, mutex, mapping, lost>>

\* fastrpc_session_free, for fl->sctx and then for fl->secsctx, each under smd_mutex.
SessionFree(t) ==
  LET f == arg[t].fl IN
  /\ mutex = Nil
  /\ \/ /\ pc[t] = "free"
        /\ used' = used \ {sctx[f]}
        /\ sctx' = [sctx EXCEPT ![f] = Null]
        /\ Goto(t, IF secsctx[f] = Null THEN "idle" ELSE "freesec")
        /\ UNCHANGED secsctx
     \/ /\ pc[t] = "freesec"
        /\ used' = used \ {secsctx[f]}
        /\ secsctx' = [secsctx EXCEPT ![f] = Null]
        /\ Goto(t, "idle")
        /\ UNCHANGED sctx
  /\ UNCHANGED <<arg, fileVars, mutex, mapping, lost>>

Next ==
  \/ \E f \in Files : DeviceOpen(f) \/ ControlSmmu(f)
  \/ \E t \in Threads :
       \/ \E f \in Files : GetInfo(t, f) \/ MapSecure(t, f) \/ FileFree(t, f)
       \/ GetInfoCid(t) \/ SessionLock(t) \/ SessionScan(t) \/ SessionTake(t) \/ SessionFree(t)

Spec == Init /\ [][Next]_vars

-----------------------------------------------------------------------------
(* Correctness *)

Holders(s) == {f \in Files : s \in {sctx[f], secsctx[f]}}

\* A secure session has one owner and is marked as used: secure sessions are only ever
\* taken under the mutex, whatever GETINFO does to the other entries at the same time.
SecureExclusive ==
  \A s \in Secure : /\ Cardinality(Holders(s)) <= 1
                    /\ Holders(s) # {} => s \in used

\* A secure session in use is held by an open file or by one that is being closed:
\* no failed search or overtaken mapping leaks it. The early return of
\* fastrpc_file_free, for a file whose GETINFO found no session, is the only leak.
SecureReturned ==
  \A s \in (Secure \cap used) \ lost : \E f \in Holders(s) : f \in open \/ Busy(f)
=============================================================================
