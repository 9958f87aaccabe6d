----------------------------- MODULE RemoteCall -----------------------------
(***************************************************************************)
(* What FASTRPC_IOCTL_INVOKE promises its callers, without contexts,       *)
(* tables, lists or messages. A call brings a job. The job is posted to    *)
(* the DSP once at most, answered once at most, and its call reports       *)
(* success only on the strength of that answer. A signal takes the caller  *)
(* out and leaves the job behind for the caller's next call to pick up.    *)
(*                                                                         *)
(* The promise ends (voided) when the driver gives up a job the DSP still  *)
(* has: the table entry that named it may then be named by another job.    *)
(***************************************************************************)
EXTENDS Naturals

CONSTANT Threads

VARIABLES
  phase,   \* is the thread "in" the driver or "out" of it
  result,  \* the outcome of its current or last call
  job,     \* the job it is in the driver for, 0 if none
  used,    \* jobs brought so far
  fresh,   \* jobs not posted yet
  posted,  \* jobs the DSP has, or whose answer is on its way
  good,    \* jobs answered with success
  saved,   \* <<thread, job>>: left behind when a signal took the thread out
  voided

vars == <<phase, result, job, used, fresh, posted, good, saved, voided>>

Init ==
  /\ phase = [t \in Threads |-> "out"]
  /\ result = [t \in Threads |-> "none"]
  /\ job = [t \in Threads |-> 0]
  /\ used = 0
  /\ fresh = {} /\ posted = {} /\ good = {} /\ saved = {}
  /\ voided = FALSE

\* A call comes with a job of its own, to be refused or to do without the DSP,
\* or finds the job that an interrupted call of the same thread left behind.
Enter(t) ==
  /\ phase[t] = "out"
  /\ phase' = [phase EXCEPT ![t] = "in"]
  /\ used' = used + 1
  /\ \/ /\ job' = [job EXCEPT ![t] = used + 1]
        /\ fresh' = fresh \cup {used + 1}
        /\ result' = [result EXCEPT ![t] = "none"]
        /\ UNCHANGED saved
     \/ /\ \E r \in {"none", "err"} : result' = [result EXCEPT ![t] = r]
        /\ UNCHANGED <<job, fresh, saved>>
     \/ \E s \in {p[2] : p \in {q \in saved : q[1] = t}} :
          /\ job' = [job EXCEPT ![t] = s]
          /\ saved' = saved \ {<<t, s>>}
          /\ result' = [result EXCEPT ![t] = "none"]
          /\ UNCHANGED fresh
  /\ UNCHANGED <<posted, good>>

\* The job goes to the DSP, where it may get lost.
Post(t) ==
  /\ result[t] = "none" /\ job[t] \in fresh
  /\ fresh' = fresh \ {job[t]}
  /\ posted' \in {posted, posted \cup {job[t]}}
  /\ UNCHANGED <<phase, result, job, used, good, saved>>

Answer(s) ==
  /\ posted' = posted \ {s}
  /\ good' \in {good, good \cup {s}}
  /\ UNCHANGED <<phase, result, job, used, fresh, saved>>

\* The DSP, or a process on it, ends and takes its jobs along.
Lose ==
  /\ posted' \in SUBSET posted
  /\ UNCHANGED <<phase, result, job, used, fresh, good, saved>>

\* The outcome of the call is known: success takes a good answer to its job.
Finish(t) ==
  /\ phase[t] = "in" /\ result[t] = "none" /\ job[t] # 0
  /\ fresh' = fresh \ {job[t]}
  /\ \/ /\ \E r \in {"ok", "err"} :
             /\ r = "ok" => job[t] \in good
             /\ result' = [result EXCEPT ![t] = r]
        /\ job' \in {job, [job EXCEPT ![t] = 0]}
        /\ UNCHANGED saved
     \/ /\ result' = [result EXCEPT ![t] = "intr"]
        /\ saved' = saved \cup {<<t, job[t]>>}
        /\ job' = [job EXCEPT ![t] = 0]
  /\ UNCHANGED <<phase, used, posted, good>>

\* The job is given up, which keeps the promise only if the DSP is through with it.
GiveUp(t) ==
  /\ job[t] # 0 /\ job[t] \notin posted \cup fresh
  /\ job' = [job EXCEPT ![t] = 0]
  /\ good' = good \ {job[t]}
  /\ UNCHANGED <<phase, result, used, fresh, posted, saved>>

\* The close of the file takes up a job left behind, to give it up.
Reclaim(t) ==
  /\ phase[t] = "in" /\ job[t] = 0
  /\ \E p \in saved : /\ job' = [job EXCEPT ![t] = p[2]]
                      /\ saved' = saved \ {p}
  /\ UNCHANGED <<phase, result, used, fresh, posted, good>>

\* The thread leaves with nothing in hand. A restart of the DSP may replace the
\* outcome, and the close of a file has none.
Leave(t) ==
  /\ phase[t] = "in" /\ job[t] = 0
  /\ phase' = [phase EXCEPT ![t] = "out"]
  /\ \E r \in {result[t], "reset", "none"} : result' = [result EXCEPT ![t] = r]
  /\ UNCHANGED <<job, used, fresh, posted, good, saved>>

Next ==
  \/ voided'
  \/ /\ ~voided /\ UNCHANGED voided
     /\ \/ \E t \in Threads : \/ Enter(t)  \/ Post(t)    \/ Finish(t)
                              \/ GiveUp(t) \/ Reclaim(t) \/ Leave(t)
        \/ \E s \in posted : Answer(s)
        \/ Lose

Spec == Init /\ [][Next]_vars
=============================================================================
