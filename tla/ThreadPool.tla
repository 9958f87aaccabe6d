------------------------------ MODULE ThreadPool ------------------------------
(***************************************************************************)
(* The pool of threads that runs benchmarks for atop: ctpl.h as it is used *)
(* by run_benchmark (android/cpp/src/atop.cpp) and by the GUI loop of      *)
(* main.cpp, which starts benchmarks, polls the oldest future and puts the *)
(* numbers of its output into the summary. A benchmark is the number of    *)
(* the press of "Run" that started it, and so are the numbers it prints.   *)
(***************************************************************************)
EXTENDS Integers, Sequences, FiniteSets

CONSTANTS
  NumThreads,  \* the size of the pool
  MaxRuns      \* bound: presses of "Run"

ASSUME ConstantsOK == NumThreads \in Nat \ {0} /\ MaxRuns \in Nat

VARIABLES
  wk,        \* where each worker thread is
  cur,       \* the task in each worker's _f, 0 if none
  q,         \* the queue
  flag,      \* the workers whose flag is set
  isStop,
  isDone,
  nWaiting,
  main,      \* where the GUI thread is
  runs,      \* presses of "Run" so far
  futs,      \* benchmark_futures_q
  outcome,   \* the state behind the future of each task
  sel,       \* the framework that is selected
  fw,        \* the framework of each benchmark
  stats,     \* bench_summary.stats: whose number is there
  mixed      \* SNPE benchmarks whose logs on the device another one deletes or adds to

poolVars   == <<flag, isStop, isDone>>
workerVars == <<wk, cur, nWaiting>>
benchVars  == <<sel, fw, stats, mixed>>
guiVars    == <<runs, futs, benchVars>>
vars       == <<workerVars, q, poolVars, main, guiVars, outcome>>

Workers == 0 .. NumThreads - 1
Tasks == 1 .. MaxRuns
Frameworks == {"tflite", "SNPE", "mlperf"}   \* tflite_app is treated as tflite
Keys == {"preproc", "init", "inference", "offload", "postproc"}
Absent == -1                                 \* a key that is not in the map

TypeOK ==
  /\ wk \in [Workers -> {"none", "pop", "run", "lock", "pred", "decide", "sleep",
                         "asleep", "woken", "exit"}]
  /\ cur \in [Workers -> 0 .. MaxRuns]
  /\ \A i \in 1 .. Len(q) : q[i] \in Tasks
  /\ flag \subseteq Workers
  /\ isStop \in BOOLEAN /\ isDone \in BOOLEAN
  /\ nWaiting \in 0 .. NumThreads
  /\ main \in {"gui", "idle", "flags", "clear", "notify", "join", "reclear", "push",
               "one", "aborted", "ended"}
  /\ runs \in 0 .. MaxRuns
  /\ \A i \in 1 .. Len(futs) : futs[i] \in Tasks
  /\ outcome \in [Tasks -> {"pending", "value", "exception", "broken"}]
  /\ sel \in Frameworks /\ fw \in [Tasks -> Frameworks]
  /\ stats \in [Keys -> Absent .. MaxRuns]
  /\ mixed \subseteq Tasks

Init ==
  /\ wk = [w \in Workers |-> "none"]
  /\ cur = [w \in Workers |-> 0]
  /\ q = <<>>
  /\ flag = {} /\ isStop = FALSE /\ isDone = FALSE
  /\ nWaiting = 0
  /\ main = "gui"
  /\ runs = 0
  /\ futs = <<>>
  /\ outcome = [n \in Tasks |-> "pending"]
  /\ sel = "tflite" /\ fw = [n \in Tasks |-> "tflite"]
  /\ stats = [k \in Keys |-> 0]
  /\ mixed = {}

\* The pool's mutex is held by a worker that evaluates the predicate of cv.wait.
Locked == \E w \in Workers : wk[w] \in {"pred", "decide", "sleep"}

-----------------------------------------------------------------------------
(* A worker *)

\* Mutant of Take: the task is left in the queue.
TakePeek(w) ==
  /\ q # <<>>
  /\ cur' = [cur EXCEPT ![w] = Head(q)]
  /\ q' = q

\* Queue::pop returned a task.
Take(w) ==
  /\ q # <<>>
  /\ cur' = [cur EXCEPT ![w] = Head(q)]
  /\ q' = Tail(q)

\* The pop at the start of the thread and after a task.
PopTask(w) ==
  /\ wk[w] = "pop"
  /\ \/ /\ Take(w)
        /\ wk' = [wk EXCEPT ![w] = "run"]
     \/ /\ q = <<>>
        /\ wk' = [wk EXCEPT ![w] = "lock"]
        /\ UNCHANGED <<cur, q>>
  /\ UNCHANGED <<nWaiting, poolVars, main, guiVars, outcome>>

\* The task returns or throws, which its future gets; then the flag is looked at.
TaskDone(w) ==
  /\ wk[w] = "run"
  /\ \E r \in {"value", "exception"} : outcome' = [outcome EXCEPT ![cur[w]] = r]
  /\ cur' = [cur EXCEPT ![w] = 0]
  /\ wk' = [wk EXCEPT ![w] = IF w \in flag THEN "exit" ELSE "pop"]
  /\ UNCHANGED <<nWaiting, q, poolVars, main, guiVars>>

\* The queue was empty: lock the mutex and wait.
LockWait(w) ==
  /\ wk[w] = "lock" /\ ~Locked
  /\ nWaiting' = nWaiting + 1
  /\ wk' = [wk EXCEPT ![w] = "pred"]
  /\ UNCHANGED <<cur, q, poolVars, main, guiVars, outcome>>

\* The predicate of cv.wait pops ...
PredPop(w) ==
  /\ wk[w] = "pred"
  /\ Take(w) \/ (q = <<>> /\ UNCHANGED <<cur, q>>)
  /\ wk' = [wk EXCEPT ![w] = "decide"]
  /\ UNCHANGED <<nWaiting, poolVars, main, guiVars, outcome>>

\* ... and looks at isDone and at the flag: where the worker goes from there.
WaitOver(w) ==
  IF cur[w] # 0 THEN "run" ELSE IF isDone \/ w \in flag THEN "exit" ELSE "sleep"

\* The wait ends, and nWaiting is decremented, or the worker has to sleep.
PredDecide(w) ==
  /\ wk[w] = "decide"
  /\ wk' = [wk EXCEPT ![w] = WaitOver(w)]
  /\ nWaiting' = IF WaitOver(w) = "sleep" THEN nWaiting ELSE nWaiting - 1
  /\ UNCHANGED <<cur, q, poolVars, main, guiVars, outcome>>

\* cv.wait releases the mutex and sleeps, in one step.
Sleep(w) ==
  /\ wk[w] = "sleep"
  /\ wk' = [wk EXCEPT ![w] = "asleep"]
  /\ UNCHANGED <<cur, nWaiting, q, poolVars, main, guiVars, outcome>>

\* A wake-up without a notification.
SpuriousWake(w) ==
  /\ wk[w] = "asleep"
  /\ wk' = [wk EXCEPT ![w] = "woken"]
  /\ UNCHANGED <<cur, nWaiting, q, poolVars, main, guiVars, outcome>>

\* A woken worker gets the mutex back and evaluates the predicate again.
Relock(w) ==
  /\ wk[w] = "woken" /\ ~Locked
  /\ wk' = [wk EXCEPT ![w] = "pred"]
  /\ UNCHANGED <<cur, nWaiting, q, poolVars, main, guiVars, outcome>>

-----------------------------------------------------------------------------
(* The GUI thread *)

\* Another framework is selected; its models are looked up, which throws for mlperf and
\* aborts if its benchmark is not on the device.
SelectFramework(f) ==
  /\ main = "gui" /\ f # sel
  /\ sel' = f
  /\ main' \in IF f = "mlperf" THEN {"aborted"} ELSE {main, "aborted"}
  /\ UNCHANGED <<workerVars, q, poolVars, runs, futs, fw, stats, mixed, outcome>>

\* run_snpe_benchmark deletes the logs of the benchmarks before. One that has not ended
\* reads them, or the ones of the new benchmark, when it ends (get_snpe_diagview_output).
Mixed(n) ==
  LET others == {m \in 1 .. runs : fw[m] = "SNPE" /\ outcome[m] = "pending"}
  IN  IF sel = "SNPE" /\ others # {} THEN mixed \cup others \cup {n} ELSE mixed

\* "Run" is pressed: the summary is cleared, and the first call of run_benchmark
\* constructs the pool.
Run ==
  /\ main = "gui" /\ runs < MaxRuns
  /\ runs' = runs + 1
  /\ fw' = [fw EXCEPT ![runs + 1] = sel]
  /\ stats' = [k \in Keys |-> Absent]
  /\ mixed' = Mixed(runs + 1)
  /\ wk' = IF runs = 0 THEN [w \in Workers |-> "pop"] ELSE wk
  /\ main' = "idle"
  /\ UNCHANGED <<cur, nWaiting, q, poolVars, futs, sel, outcome>>

\* run_benchmark: without an idle thread the pool is stopped, stop(false).
CheckIdle ==
  /\ main = "idle"
  /\ \/ /\ nWaiting > 0 \/ isStop
        /\ main' = "push"
        /\ UNCHANGED isStop
     \/ /\ nWaiting = 0 /\ ~isStop
        /\ isStop' = TRUE
        /\ main' = "flags"
  /\ UNCHANGED <<workerVars, q, flag, isDone, guiVars, outcome>>

\* stop: command the threads to stop, one after the other.
SetFlag ==
  /\ main = "flags"
  /\ \/ /\ flag # Workers
        /\ flag' = flag \cup {Cardinality(flag)}
        /\ UNCHANGED main
     \/ /\ flag = Workers
        /\ main' = "clear"
        /\ UNCHANGED flag
  /\ UNCHANGED <<workerVars, q, isStop, isDone, guiVars, outcome>>

\* clear_queue deletes what it pops, which breaks the promise of the task. The second
\* call of it ends stop: the caller pushes, or the program is over.
ClearQueue ==
  /\ main \in {"clear", "reclear"}
  /\ \/ /\ q # <<>>
        /\ q' = Tail(q)
        /\ outcome' = [outcome EXCEPT ![Head(q)] = "broken"]
        /\ UNCHANGED main
     \/ /\ q = <<>>
        /\ main' = CASE main = "clear" -> "notify"
                     [] main = "reclear" /\ ~isDone -> "push"
                     [] main = "reclear" /\ isDone -> "ended"
        /\ UNCHANGED <<q, outcome>>
  /\ UNCHANGED <<workerVars, poolVars, guiVars>>

\* Mutant of NotifyAll: the mutex is not taken.
NotifyAllUnlocked ==
  /\ main = "notify"
  /\ wk' = [w \in Workers |-> IF wk[w] = "asleep" THEN "woken" ELSE wk[w]]
  /\ main' = "join"
  /\ UNCHANGED <<cur, nWaiting, q, poolVars, guiVars, outcome>>

\* stop: wake all threads, under the mutex.
NotifyAll ==
  /\ main = "notify" /\ ~Locked
  /\ wk' = [w \in Workers |-> IF wk[w] = "asleep" THEN "woken" ELSE wk[w]]
  /\ main' = "join"
  /\ UNCHANGED <<cur, nWaiting, q, poolVars, guiVars, outcome>>

\* stop: join all threads.
Join ==
  /\ main = "join"
  /\ \A w \in Workers : wk[w] = "exit"
  /\ main' = "reclear"
  /\ UNCHANGED <<workerVars, q, poolVars, guiVars, outcome>>

\* push: first the queue ...
Push ==
  /\ main = "push"
  /\ q' = Append(q, runs)
  /\ futs' = Append(futs, runs)
  /\ main' = "one"
  /\ UNCHANGED <<workerVars, poolVars, runs, benchVars, outcome>>

\* Mutant of NotifyOne: nobody is woken.
NotifyNobody ==
  /\ main = "one" /\ ~Locked
  /\ main' = "gui"
  /\ UNCHANGED <<workerVars, q, poolVars, guiVars, outcome>>

\* ... then wake one thread, under the mutex.
NotifyOne ==
  /\ main = "one" /\ ~Locked
  /\ \/ \E w \in Workers : /\ wk[w] = "asleep"
                           /\ wk' = [wk EXCEPT ![w] = "woken"]
     \/ (\A w \in Workers : wk[w] # "asleep") /\ UNCHANGED wk
  /\ main' = "gui"
  /\ UNCHANGED <<cur, nWaiting, q, poolVars, guiVars, outcome>>

\* The frameworks whose parser finds numbers in the output of a benchmark; there are
\* none if it failed on the device.
Parsers(n) == {{fw[n]}, {}}

\* The benchmark whose numbers the output of n holds; between several logs it is an
\* average, which is put down to either.
Numbers(n) == IF n \in mixed THEN mixed ELSE {n}

\* summarize_tflite_benchmark_output: what is not in the output is left alone.
TfliteSummary(n, parsers) ==
  [k \in Keys |-> IF k \in {"preproc", "init", "inference"} /\ "tflite" \in parsers
                  THEN n ELSE stats[k]]

\* summarize_snpe_benchmark_output: what is not in the output counts as 0.
SnpeSummary(n, parsers) ==
  [k \in Keys |-> IF k \in {"init", "inference", "offload"} /\ "SNPE" \in parsers
                  THEN n ELSE 0]

\* summarize_benchmark_output, for the framework that is selected now.
Summary(n, parsers) ==
  IF sel = "SNPE" THEN SnpeSummary(n, parsers) ELSE TfliteSummary(n, parsers)

Ready(n) == outcome[n] # "pending"

\* Mutant of PollFuture: any future that is ready is taken.
PollFutureAny ==
  /\ main = "gui"
  /\ \E i \in 1 .. Len(futs) :
       /\ Ready(futs[i])
       /\ outcome[futs[i]] = "value"
       /\ futs' = SubSeq(futs, 1, i - 1) \o SubSeq(futs, i + 1, Len(futs))
       /\ \E p \in Parsers(futs[i]), m \in Numbers(futs[i]) : stats' = Summary(m, p)
  /\ UNCHANGED <<main, workerVars, q, poolVars, runs, sel, fw, mixed, outcome>>

\* A frame: the oldest future, if it is ready. With "Summarize" checked its get()
\* throws for a task that threw or was deleted, which nobody catches.
PollFuture ==
  /\ main = "gui" /\ futs # <<>>
  /\ Ready(Head(futs))
  /\ \/ /\ outcome[Head(futs)] # "value"
        /\ main' = "aborted"
        /\ UNCHANGED <<futs, stats>>
     \/ /\ futs' = Tail(futs)
        /\ \/ UNCHANGED stats
           \/ /\ outcome[Head(futs)] = "value"
              /\ \E p \in Parsers(Head(futs)), m \in Numbers(Head(futs)) :
                   stats' = Summary(m, p)
        /\ UNCHANGED main
  /\ UNCHANGED <<workerVars, q, poolVars, runs, sel, fw, mixed, outcome>>

\* "Clear" in the window of the summary.
ClearSummary ==
  /\ main = "gui"
  /\ stats' = [k \in Keys |-> Absent]
  /\ UNCHANGED <<main, workerVars, q, poolVars, runs, futs, sel, fw, mixed, outcome>>

\* The program ends; the destructor of the pool, if there is one, calls stop(true).
Exit ==
  /\ main = "gui"
  /\ \/ /\ runs = 0 \/ isStop
        /\ main' = "ended"
        /\ UNCHANGED isDone
     \/ /\ runs # 0 /\ ~isStop
        /\ isDone' = TRUE
        /\ main' = "notify"
  /\ UNCHANGED <<workerVars, q, flag, isStop, guiVars, outcome>>

-----------------------------------------------------------------------------
\* The process is gone once the GUI thread has ended or aborted.
Alive == main \notin {"aborted", "ended"}

WorkerStep(w) ==
  /\ Alive
  /\ \/ PopTask(w) \/ TaskDone(w) \/ LockWait(w) \/ PredPop(w) \/ PredDecide(w)
     \/ Sleep(w) \/ SpuriousWake(w) \/ Relock(w)

StopStep == SetFlag \/ ClearQueue \/ NotifyAll \/ Join

Next ==
  \/ \E w \in Workers : WorkerStep(w)
  \/ \E f \in Frameworks : SelectFramework(f)
  \/ Run \/ CheckIdle \/ StopStep \/ Push \/ NotifyOne \/ PollFuture \/ ClearSummary
  \/ Exit

Spec == Init /\ [][Next]_vars

\* Every thread runs, a benchmark ends, and whoever wants the mutex gets it some time;
\* a wake-up without notification need not happen, and the user need not do anything.
Fairness ==
  /\ \A w \in Workers :
       /\ WF_vars(Alive /\ (\/ PopTask(w) \/ TaskDone(w)
                            \/ PredPop(w) \/ PredDecide(w) \/ Sleep(w)))
       /\ SF_vars(Alive /\ (LockWait(w) \/ Relock(w)))
  /\ WF_vars(CheckIdle \/ SetFlag \/ ClearQueue \/ Join \/ Push)
  /\ SF_vars(NotifyAll \/ NotifyOne)

FairSpec == Spec /\ Fairness

-----------------------------------------------------------------------------
(* Correctness *)

\* Where a task is: a place in the queue, a worker, or its future.
Places(n) ==
  {<<"queue", i>> : i \in {j \in 1 .. Len(q) : q[j] = n}}
    \cup {<<"worker", w>> : w \in {v \in Workers : cur[v] = n}}
    \cup (IF outcome[n] # "pending" THEN {<<"future", 0>>} ELSE {})

\* No benchmark is lost, run twice, or run and deleted, although the queue is popped by
\* the workers, by the predicate of their wait and by clear_queue: a task that was
\* pushed is at exactly one place.
TasksAccounted ==
  \A n \in Tasks :
    Cardinality(Places(n)) =
      IF n < runs \/ (n = runs /\ main \in {"gui", "one", "aborted", "ended"})
        \/ (n = runs /\ isDone) THEN 1 ELSE 0

\* Benchmarks end in any order, but the summary never goes back to the numbers of an
\* earlier benchmark once it shows a later one. SNPE benchmarks that run at the same time
\* are excepted, because their logs are the same files.
SummaryInOrder ==
  [][ \A k \in Keys :
        stats[k] > 0 /\ stats'[k] > 0 /\ {stats[k], stats'[k]} \cap mixed = {}
          => stats'[k] >= stats[k] ]_vars

\* A task is in the queue or with a worker.
TaskWaits == q # <<>> \/ \E w \in Workers : cur[w] # 0

\* The tasks that are pushed into a running pool are run, all of them once the user stops
\* pressing "Run": no notification is lost. (A pool that was stopped has no threads any
\* more and runs nothing.)
TaskRuns == TaskWaits ~> ~TaskWaits \/ isStop \/ ~Alive

\* stop, called by run_benchmark or by the destructor, returns: no worker goes to sleep
\* on a pool that is being stopped.
StopReturns == main \in {"flags", "clear", "notify", "join"} ~> main \in {"push", "ended"}
=============================================================================
