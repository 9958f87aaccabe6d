--------------------------- MODULE ThreadPoolProofs ---------------------------
(***************************************************************************)
(* What ThreadPool promises, proved for every size of the pool and every   *)
(* number of presses of "Run".                                             *)
(***************************************************************************)
EXTENDS ThreadPool, FiniteSetTheorems, TLAPS

\* A task that run_benchmark has pushed; the last one may be on its way.
Pushed(n) ==
  n < runs \/ (n = runs /\ (main \in {"gui", "one", "aborted", "ended"} \/ isDone))

Queued(n) == \E i \in 1 .. Len(q) : q[i] = n
WithWorker(n) == \E w \in Workers : cur[w] = n

\* Where the GUI thread is in run_benchmark with a task it has not pushed yet.
Starting == {"idle", "flags", "clear", "notify", "join", "reclear", "push"}

\* Where a worker can be.
WorkerPlaces == {"none", "pop", "run", "lock", "pred", "decide", "sleep", "asleep",
                 "woken", "exit"}

\* A worker has a task exactly while it runs it, or in the predicate that has popped it.
HasTask ==
  \A w \in Workers : /\ wk[w] = "run" => cur[w] # 0
                     /\ cur[w] # 0 => wk[w] \in {"run", "decide"}

\* Nothing is pushed before the first press, and the destructor runs after the last.
MainPlace ==
  /\ runs = 0 => main \in {"gui", "aborted", "ended"} /\ ~isDone
  /\ isDone => main \in {"notify", "join", "reclear", "ended"}

\* The flags are set in order.
FlagPrefix == \E k \in 0 .. NumThreads : flag = 0 .. k - 1

\* nWaiting counts the workers in cv.wait.
InWait(w) == wk[w] \in {"pred", "decide", "sleep", "asleep", "woken"}
Waiting == {w \in Workers : InWait(w)}
WaitCounted ==
  /\ nWaiting = Cardinality(Waiting)
  /\ runs = 0 => \A w \in Workers : wk[w] = "none"

\* Each task is in one place of the queue or with one worker, pending, or its future has
\* a result: never two of these.
QueueOnce ==
  /\ q \in Seq(Tasks)
  /\ \A i, j \in 1 .. Len(q) : q[i] = q[j] => i = j
WorkerOnce ==
  /\ \A v, w \in Workers : cur[v] # 0 /\ cur[v] = cur[w] => v = w
  /\ \A w \in Workers : cur[w] # 0 => ~Queued(cur[w])
Accounted ==
  \A n \in Tasks :
    /\ Queued(n) \/ WithWorker(n) => Pushed(n) /\ outcome[n] = "pending"
    /\ Pushed(n) /\ ~Queued(n) /\ ~WithWorker(n) => outcome[n] # "pending"
    /\ ~Pushed(n) => outcome[n] = "pending"

\* The futures are in the order of the presses, all of them later than what the summary
\* shows.
FuturesInOrder ==
  /\ futs \in Seq(Tasks)
  /\ \A i, j \in 1 .. Len(futs) : i < j => futs[i] < futs[j]
  /\ \A i \in 1 .. Len(futs) : Pushed(futs[i])
SummaryBehind ==
  /\ \A k \in Keys, i \in 1 .. Len(futs) :
       stats[k] > 0 /\ stats[k] \notin mixed => stats[k] < futs[i]
  /\ main \in Starting /\ ~isDone => \A k \in Keys : stats[k] = Absent

IInv ==
  /\ TypeOK /\ HasTask /\ MainPlace /\ FlagPrefix /\ WaitCounted
  /\ QueueOnce /\ WorkerOnce /\ Accounted /\ FuturesInOrder /\ SummaryBehind

-----------------------------------------------------------------------------
(* The queue, the workers and the futures *)

\* A step that moves no task and after which the same tasks count as pushed.
LEMMA TasksStay ==
  ASSUME IInv, UNCHANGED <<cur, q, outcome>>,
         \A n \in Tasks : Pushed(n)' <=> Pushed(n)
  PROVE  QueueOnce' /\ WorkerOnce' /\ Accounted'
<1>1. QueueOnce /\ WorkerOnce /\ Accounted
  BY DEF IInv
<1>2. QueueOnce' /\ WorkerOnce'
  BY <1>1 DEF QueueOnce, WorkerOnce, Queued
<1>3. \A n \in Tasks : /\ Queued(n)' <=> Queued(n)
                       /\ WithWorker(n)' <=> WithWorker(n)
  BY DEF Queued, WithWorker
<1>4. Accounted'
  BY <1>1, <1>3 DEF Accounted
<1> QED
  BY <1>2, <1>4

\* Where the tasks of the queue are once its head is gone.
LEMMA HeadGone ==
  ASSUME NEW s \in Seq(Tasks), s # <<>>, \A i, j \in 1 .. Len(s) : s[i] = s[j] => i = j
  PROVE  /\ Head(s) \in Tasks /\ Head(s) = s[1] /\ 1 \in 1 .. Len(s)
         /\ Tail(s) \in Seq(Tasks)
         /\ \A i, j \in 1 .. Len(Tail(s)) : Tail(s)[i] = Tail(s)[j] => i = j
         /\ \A n : (\E i \in 1 .. Len(Tail(s)) : Tail(s)[i] = n)
                     <=> n # Head(s) /\ \E i \in 1 .. Len(s) : s[i] = n
<1>1. /\ Head(s) \in Tasks /\ Head(s) = s[1] /\ 1 \in 1 .. Len(s)
      /\ Tail(s) \in Seq(Tasks) /\ Len(Tail(s)) = Len(s) - 1 /\ Len(s) \in Nat
      /\ \A i \in 1 .. Len(Tail(s)) : Tail(s)[i] = s[i + 1]
  OBVIOUS
<1>2. \A i, j \in 1 .. Len(Tail(s)) : Tail(s)[i] = Tail(s)[j] => i = j
  BY <1>1
<1>3. ASSUME NEW n, NEW i \in 1 .. Len(s), s[i] = n, n # Head(s)
      PROVE  \E j \in 1 .. Len(Tail(s)) : Tail(s)[j] = n
  <2>1. i - 1 \in 1 .. Len(Tail(s)) /\ Tail(s)[i - 1] = s[i]
    BY <1>1, <1>3
  <2> QED
    BY <2>1, <1>3
<1>4. ASSUME NEW n, NEW j \in 1 .. Len(Tail(s)), Tail(s)[j] = n
      PROVE  n # Head(s) /\ \E i \in 1 .. Len(s) : s[i] = n
  <2>1. j + 1 \in 1 .. Len(s) /\ s[j + 1] = n /\ j + 1 # 1
    BY <1>1, <1>4
  <2> QED
    BY <2>1, <1>1
<1> QED
  BY <1>1, <1>2, <1>3, <1>4

\* A pop by a worker that has no task: the task goes from the queue to the worker.
LEMMA TasksTaken ==
  ASSUME IInv, NEW w \in Workers, cur[w] = 0, Take(w), UNCHANGED outcome,
         \A n \in Tasks : Pushed(n)' <=> Pushed(n)
  PROVE  /\ QueueOnce' /\ WorkerOnce' /\ Accounted'
         /\ cur' = [cur EXCEPT ![w] = Head(q)] /\ Head(q) \in Tasks
<1>1. QueueOnce /\ WorkerOnce /\ Accounted /\ cur \in [Workers -> 0 .. MaxRuns]
  BY DEF IInv, TypeOK
<1>2. q # <<>> /\ cur' = [cur EXCEPT ![w] = Head(q)] /\ q' = Tail(q)
  BY DEF Take
<1>3. q \in Seq(Tasks) /\ \A i, j \in 1 .. Len(q) : q[i] = q[j] => i = j
  BY <1>1 DEF QueueOnce
<1>4. /\ Head(q) \in Tasks /\ Head(q) = q[1] /\ 1 \in 1 .. Len(q)
      /\ q' \in Seq(Tasks)
      /\ \A i, j \in 1 .. Len(q') : q'[i] = q'[j] => i = j
      /\ \A n : Queued(n)' <=> n # Head(q) /\ Queued(n)
  <2>1. /\ Head(q) \in Tasks /\ Head(q) = q[1] /\ 1 \in 1 .. Len(q)
        /\ Tail(q) \in Seq(Tasks)
        /\ \A i, j \in 1 .. Len(Tail(q)) : Tail(q)[i] = Tail(q)[j] => i = j
        /\ \A n : (\E i \in 1 .. Len(Tail(q)) : Tail(q)[i] = n)
                    <=> n # Head(q) /\ \E i \in 1 .. Len(q) : q[i] = n
    BY <1>2, <1>3, HeadGone
  <2> QED
    BY <2>1, <1>2 DEF Queued
<1>5. Queued(Head(q)) /\ Head(q) # 0
  BY <1>4, ConstantsOK DEF Queued, Tasks
<1>6. \A v \in Workers : cur'[v] = IF v = w THEN Head(q) ELSE cur[v]
  BY <1>1, <1>2
<1>7. \A v \in Workers : cur[v] # Head(q)
  BY <1>1, <1>5 DEF WorkerOnce
<1>8. QueueOnce'
  BY <1>4 DEF QueueOnce
<1>9. WorkerOnce'
  BY <1>1, <1>4, <1>6, <1>7 DEF WorkerOnce
<1>10. \A n : WithWorker(n)' <=> n = Head(q) \/ (n # 0 /\ WithWorker(n))
                                  \/ (n = 0 /\ \E v \in Workers \ {w} : cur[v] = 0)
  BY <1>5, <1>6 DEF WithWorker
<1>11. \A n \in Tasks : n # 0
  BY ConstantsOK DEF Tasks
<1>12. Accounted'
  BY <1>1, <1>4, <1>5, <1>10, <1>11 DEF Accounted
<1> QED
  BY <1>2, <1>4, <1>8, <1>9, <1>12

\* The task of a worker ends: its future has the result.
LEMMA TasksEnded ==
  ASSUME IInv, NEW w \in Workers, cur[w] # 0, UNCHANGED q,
         NEW r \in {"value", "exception"}, outcome' = [outcome EXCEPT ![cur[w]] = r],
         cur' = [cur EXCEPT ![w] = 0], \A n \in Tasks : Pushed(n)' <=> Pushed(n)
  PROVE  QueueOnce' /\ WorkerOnce' /\ Accounted' /\ cur[w] \in Tasks
<1>1. /\ QueueOnce /\ WorkerOnce /\ Accounted
      /\ cur \in [Workers -> 0 .. MaxRuns]
      /\ outcome \in [Tasks -> {"pending", "value", "exception", "broken"}]
  BY DEF IInv, TypeOK
<1>2. cur[w] \in Tasks
  BY <1>1, ConstantsOK DEF Tasks
<1>3. \A v \in Workers : cur'[v] = IF v = w THEN 0 ELSE cur[v]
  BY <1>1
<1>4. \A n \in Tasks : outcome'[n] = IF n = cur[w] THEN r ELSE outcome[n]
  BY <1>1
<1>5. \A n : Queued(n)' <=> Queued(n)
  BY DEF Queued
<1>6. QueueOnce'
  BY <1>1 DEF QueueOnce
<1>7. WorkerOnce'
  BY <1>1, <1>3, <1>5 DEF WorkerOnce
<1>8. \A n \in Tasks : n # 0
  BY ConstantsOK DEF Tasks
<1>9. \A n \in Tasks : WithWorker(n)' <=> WithWorker(n) /\ n # cur[w]
  BY <1>1, <1>3, <1>8 DEF WithWorker, WorkerOnce
<1>10. ~Queued(cur[w]) /\ WithWorker(cur[w])
  BY <1>1 DEF WorkerOnce, WithWorker
<1>11. Accounted'
  BY <1>1, <1>2, <1>4, <1>5, <1>9, <1>10 DEF Accounted
<1> QED
  BY <1>2, <1>6, <1>7, <1>11

\* clear_queue deletes the head of the queue.
LEMMA TasksBroken ==
  ASSUME IInv, q # <<>>, q' = Tail(q), UNCHANGED cur,
         outcome' = [outcome EXCEPT ![Head(q)] = "broken"],
         \A n \in Tasks : Pushed(n)' <=> Pushed(n)
  PROVE  QueueOnce' /\ WorkerOnce' /\ Accounted' /\ Head(q) \in Tasks
<1>1. /\ QueueOnce /\ WorkerOnce /\ Accounted
      /\ outcome \in [Tasks -> {"pending", "value", "exception", "broken"}]
  BY DEF IInv, TypeOK
<1>2. q \in Seq(Tasks) /\ \A i, j \in 1 .. Len(q) : q[i] = q[j] => i = j
  BY <1>1 DEF QueueOnce
<1>3. /\ Head(q) \in Tasks /\ Head(q) = q[1] /\ 1 \in 1 .. Len(q)
      /\ q' \in Seq(Tasks)
      /\ \A i, j \in 1 .. Len(q') : q'[i] = q'[j] => i = j
      /\ \A n : Queued(n)' <=> n # Head(q) /\ Queued(n)
  <2>1. /\ Head(q) \in Tasks /\ Head(q) = q[1] /\ 1 \in 1 .. Len(q)
        /\ Tail(q) \in Seq(Tasks)
        /\ \A i, j \in 1 .. Len(Tail(q)) : Tail(q)[i] = Tail(q)[j] => i = j
        /\ \A n : (\E i \in 1 .. Len(Tail(q)) : Tail(q)[i] = n)
                    <=> n # Head(q) /\ \E i \in 1 .. Len(q) : q[i] = n
    BY <1>2, HeadGone
  <2> QED
    BY <2>1 DEF Queued
<1>4. Queued(Head(q))
  BY <1>3 DEF Queued
<1>5. \A n \in Tasks : outcome'[n] = IF n = Head(q) THEN "broken" ELSE outcome[n]
  BY <1>1
<1>6. \A n : WithWorker(n)' <=> WithWorker(n)
  BY DEF WithWorker
<1>7. QueueOnce'
  BY <1>3 DEF QueueOnce
<1>8. WorkerOnce'
  BY <1>1, <1>3 DEF WorkerOnce
<1>9. ~WithWorker(Head(q))
  <2> SUFFICES ASSUME NEW v \in Workers, cur[v] = Head(q) PROVE FALSE
    BY DEF WithWorker
  <2>1. cur[v] # 0
    BY <1>3, ConstantsOK DEF Tasks
  <2> QED
    BY <2>1, <1>1, <1>4 DEF WorkerOnce
<1>10. Accounted'
  BY <1>1, <1>3, <1>4, <1>5, <1>6, <1>9 DEF Accounted
<1> QED
  BY <1>3, <1>7, <1>8, <1>10

\* The last task is pushed.
LEMMA TasksPushed ==
  ASSUME IInv, Push, runs \in Tasks, ~Pushed(runs),
         \A n \in Tasks : Pushed(n)' <=> Pushed(n) \/ n = runs
  PROVE  QueueOnce' /\ WorkerOnce' /\ Accounted'
<1>1. /\ QueueOnce /\ WorkerOnce /\ Accounted
      /\ outcome \in [Tasks -> {"pending", "value", "exception", "broken"}]
      /\ cur \in [Workers -> 0 .. MaxRuns]
  BY DEF IInv, TypeOK
<1>2. q' = Append(q, runs) /\ UNCHANGED <<cur, outcome>>
  BY DEF Push, workerVars
<1>3. q \in Seq(Tasks) /\ \A i, j \in 1 .. Len(q) : q[i] = q[j] => i = j
  BY <1>1 DEF QueueOnce
<1>4. /\ q' \in Seq(Tasks) /\ Len(q') = Len(q) + 1 /\ Len(q) \in Nat
      /\ q'[Len(q) + 1] = runs
      /\ \A i \in 1 .. Len(q) : q'[i] = q[i]
  BY <1>2, <1>3
<1>5. ~Queued(runs) /\ ~WithWorker(runs)
  BY <1>1 DEF Accounted
<1>6. \A n : Queued(n)' <=> Queued(n) \/ n = runs
  BY <1>4 DEF Queued
<1>7. \A n : WithWorker(n)' <=> WithWorker(n)
  BY <1>2 DEF WithWorker
<1>8. QueueOnce'
  <2>1. ASSUME NEW i \in 1 .. Len(q'), NEW j \in 1 .. Len(q'), q'[i] = q'[j]
        PROVE  i = j
    <3>1. CASE i \in 1 .. Len(q) /\ j \in 1 .. Len(q)
      BY <3>1, <2>1, <1>3, <1>4
    <3>2. CASE i = Len(q) + 1 /\ j = Len(q) + 1
      BY <3>2
    <3>3. CASE i \in 1 .. Len(q) /\ j = Len(q) + 1
      BY <3>3, <2>1, <1>4, <1>5 DEF Queued
    <3>4. CASE i = Len(q) + 1 /\ j \in 1 .. Len(q)
      BY <3>4, <2>1, <1>4, <1>5 DEF Queued
    <3> QED
      BY <3>1, <3>2, <3>3, <3>4, <1>4
  <2> QED
    BY <2>1, <1>4 DEF QueueOnce
<1>9. WorkerOnce'
  BY <1>1, <1>2, <1>5, <1>6 DEF WorkerOnce, WithWorker
<1>10. Accounted'
  BY <1>1, <1>2, <1>5, <1>6, <1>7 DEF Accounted
<1> QED
  BY <1>8, <1>9, <1>10

-----------------------------------------------------------------------------
(* The workers that wait *)

\* The threads of the pool are finitely many.
LEMMA WorkersFinite ==
  IsFiniteSet(Workers) /\ Cardinality(Workers) = NumThreads
BY FS_Interval, ConstantsOK DEF Workers

\* nWaiting is bounded by the size of the pool, and by less while a worker is not waiting.
LEMMA WaitBounded ==
  ASSUME TypeOK
  PROVE  /\ IsFiniteSet(Waiting) /\ Cardinality(Waiting) \in 0 .. NumThreads
         /\ \A w \in Workers : ~InWait(w) => Cardinality(Waiting) < NumThreads
         /\ \A w \in Workers : InWait(w) => Cardinality(Waiting) > 0
<1>1. Waiting \subseteq Workers
  BY DEF Waiting
<1>2. IsFiniteSet(Waiting) /\ Cardinality(Waiting) <= NumThreads
  BY <1>1, WorkersFinite, FS_Subset
<1>3. Cardinality(Waiting) \in Nat
  BY <1>2, FS_CardinalityType
<1>4. ASSUME NEW w \in Workers, ~InWait(w) PROVE Cardinality(Waiting) < NumThreads
  <2>1. Waiting # Workers
    BY <1>4 DEF Waiting
  <2> QED
    BY <2>1, <1>1, <1>2, <1>3, WorkersFinite, FS_Subset, ConstantsOK
<1>5. ASSUME NEW w \in Workers, InWait(w) PROVE Cardinality(Waiting) > 0
  <2>1. Waiting # {}
    BY <1>5 DEF Waiting
  <2> QED
    BY <2>1, <1>2, <1>3, FS_EmptySet
<1> QED
  BY <1>2, <1>3, <1>4, <1>5, ConstantsOK

\* A step that leaves nWaiting alone, and whether each worker waits.
LEMMA WaitStays ==
  ASSUME IInv, UNCHANGED nWaiting, \A w \in Workers : InWait(w)' <=> InWait(w),
         runs' = 0 => runs = 0 /\ \A w \in Workers : wk'[w] = wk[w]
  PROVE  WaitCounted'
<1>1. Waiting' = Waiting
  BY DEF Waiting
<1> QED
  BY <1>1 DEF IInv, WaitCounted

\* A worker begins to wait.
LEMMA WaitBegins ==
  ASSUME IInv, NEW w \in Workers, ~InWait(w), InWait(w)', nWaiting' = nWaiting + 1,
         \A v \in Workers \ {w} : InWait(v)' <=> InWait(v), runs' # 0
  PROVE  WaitCounted' /\ nWaiting' \in 0 .. NumThreads
<1>1. Waiting' = Waiting \cup {w} /\ w \notin Waiting
  BY DEF Waiting
<1>2. TypeOK /\ nWaiting = Cardinality(Waiting)
  BY DEF IInv, WaitCounted
<1>3. /\ IsFiniteSet(Waiting) /\ Cardinality(Waiting) \in 0 .. NumThreads
      /\ Cardinality(Waiting) < NumThreads
  BY <1>2, WaitBounded
<1>4. Cardinality(Waiting') = Cardinality(Waiting) + 1
  BY <1>1, <1>3, FS_AddElement
<1> QED
  BY <1>2, <1>3, <1>4, ConstantsOK DEF WaitCounted

\* The wait of a worker ends.
LEMMA WaitEnds ==
  ASSUME IInv, NEW w \in Workers, InWait(w), ~InWait(w)', nWaiting' = nWaiting - 1,
         \A v \in Workers \ {w} : InWait(v)' <=> InWait(v), runs' # 0
  PROVE  WaitCounted' /\ nWaiting' \in 0 .. NumThreads
<1>1. Waiting' = Waiting \ {w} /\ w \in Waiting
  BY DEF Waiting
<1>2. TypeOK /\ nWaiting = Cardinality(Waiting)
  BY DEF IInv, WaitCounted
<1>3. /\ IsFiniteSet(Waiting) /\ Cardinality(Waiting) \in 0 .. NumThreads
      /\ Cardinality(Waiting) > 0
  BY <1>1, <1>2, WaitBounded DEF Waiting
<1>4. Cardinality(Waiting') = Cardinality(Waiting) - 1
  BY <1>1, <1>3, FS_RemoveElement
<1> QED
  BY <1>2, <1>3, <1>4, ConstantsOK DEF WaitCounted

-----------------------------------------------------------------------------
(* The steps of a worker *)

\* A step of a worker leaves alone what the GUI thread owns.
LEMMA GuiStays ==
  ASSUME IInv, UNCHANGED <<poolVars, main, guiVars>>
  PROVE  /\ MainPlace' /\ FlagPrefix' /\ FuturesInOrder' /\ SummaryBehind'
         /\ \A n \in Tasks : Pushed(n)' <=> Pushed(n)
<1>1. /\ MainPlace /\ FlagPrefix /\ FuturesInOrder /\ SummaryBehind
      /\ UNCHANGED <<flag, isStop, isDone, main, runs, futs, sel, fw, stats, mixed>>
  BY DEF IInv, poolVars, guiVars, benchVars
<1>2. \A n : Pushed(n)' <=> Pushed(n)
  BY <1>1 DEF Pushed
<1>3. MainPlace' /\ FlagPrefix'
  BY <1>1 DEF MainPlace, FlagPrefix
<1>4. FuturesInOrder'
  BY <1>1, <1>2 DEF FuturesInOrder
<1>5. SummaryBehind'
  BY <1>1 DEF SummaryBehind
<1> QED
  BY <1>2, <1>3, <1>4, <1>5

\* A worker that is not "none" belongs to a pool that has been constructed.
LEMMA PoolThere ==
  ASSUME IInv, NEW w \in Workers, wk[w] # "none", UNCHANGED runs
  PROVE  runs # 0 /\ runs' # 0
BY DEF IInv, WaitCounted

\* The types after a step of a worker.
LEMMA WorkerTypes ==
  ASSUME IInv, UNCHANGED <<poolVars, main, guiVars>>, NEW w \in Workers, NEW p \in WorkerPlaces,
         wk' = [wk EXCEPT ![w] = p], cur' \in [Workers -> 0 .. MaxRuns], QueueOnce',
         nWaiting' \in 0 .. NumThreads,
         outcome' \in [Tasks -> {"pending", "value", "exception", "broken"}]
  PROVE  TypeOK' /\ \A v \in Workers : wk'[v] = IF v = w THEN p ELSE wk[v]
<1>1. TypeOK /\ UNCHANGED <<flag, isStop, isDone, main, runs, futs, sel, fw, stats, mixed>>
  BY DEF IInv, poolVars, guiVars, benchVars
<1>2. wk \in [Workers -> WorkerPlaces]
  BY <1>1 DEF TypeOK, WorkerPlaces
<1>3. wk' \in [Workers -> WorkerPlaces] /\ \A v \in Workers : wk'[v] = IF v = w THEN p ELSE wk[v]
  BY <1>2
<1>4. \A i \in 1 .. Len(q') : q'[i] \in Tasks
  BY DEF QueueOnce
<1> QED
  BY <1>1, <1>3, <1>4 DEF TypeOK, WorkerPlaces

\* PopTask keeps the invariant.
LEMMA KeepsPopTask ==
  ASSUME IInv, NEW w \in Workers, PopTask(w)
  PROVE  IInv'
<1>1. /\ wk[w] = "pop" /\ UNCHANGED <<poolVars, main, guiVars>>
      /\ UNCHANGED <<nWaiting, outcome, runs>>
  BY DEF PopTask, guiVars
<1>2. /\ MainPlace' /\ FlagPrefix' /\ FuturesInOrder' /\ SummaryBehind'
      /\ \A n \in Tasks : Pushed(n)' <=> Pushed(n)
  BY <1>1, GuiStays
<1>3. /\ TypeOK /\ HasTask /\ runs' # 0 /\ cur[w] = 0 /\ nWaiting' \in 0 .. NumThreads
      /\ outcome' \in [Tasks -> {"pending", "value", "exception", "broken"}]
      /\ cur \in [Workers -> 0 .. MaxRuns]
  BY <1>1, PoolThere DEF IInv, HasTask, TypeOK
<1>4. CASE Take(w) /\ wk' = [wk EXCEPT ![w] = "run"]
  <2>1. /\ QueueOnce' /\ WorkerOnce' /\ Accounted'
        /\ cur' = [cur EXCEPT ![w] = Head(q)] /\ Head(q) \in Tasks
    BY <1>1, <1>2, <1>3, <1>4, TasksTaken
  <2>2. /\ cur' \in [Workers -> 0 .. MaxRuns] /\ Head(q) # 0
        /\ \A v \in Workers : cur'[v] = IF v = w THEN Head(q) ELSE cur[v]
    BY <1>3, <2>1, ConstantsOK DEF Tasks
  <2>3. TypeOK' /\ \A v \in Workers : wk'[v] = IF v = w THEN "run" ELSE wk[v]
    BY <1>1, <1>3, <1>4, <2>1, <2>2, WorkerTypes DEF WorkerPlaces
  <2>4. HasTask'
    BY <1>3, <2>2, <2>3 DEF HasTask
  <2>5. WaitCounted'
    BY <1>1, <1>3, <2>3, WaitStays DEF InWait
  <2> QED
    BY <1>2, <2>1, <2>3, <2>4, <2>5 DEF IInv
<1>5. CASE wk' = [wk EXCEPT ![w] = "lock"] /\ UNCHANGED <<cur, q>>
  <2>1. QueueOnce' /\ WorkerOnce' /\ Accounted'
    BY <1>1, <1>2, <1>5, TasksStay
  <2>2. TypeOK' /\ \A v \in Workers : wk'[v] = IF v = w THEN "lock" ELSE wk[v]
    BY <1>1, <1>3, <1>5, <2>1, WorkerTypes DEF WorkerPlaces
  <2>3. HasTask'
    BY <1>3, <1>5, <2>2 DEF HasTask
  <2>4. WaitCounted'
    BY <1>1, <1>3, <2>2, WaitStays DEF InWait
  <2> QED
    BY <1>2, <2>1, <2>2, <2>3, <2>4 DEF IInv
<1> QED
  BY <1>4, <1>5 DEF PopTask

\* TaskDone keeps the invariant.
LEMMA KeepsTaskDone ==
  ASSUME IInv, NEW w \in Workers, TaskDone(w)
  PROVE  IInv'
<1>1. /\ wk[w] = "run" /\ UNCHANGED <<poolVars, main, guiVars>>
      /\ UNCHANGED <<nWaiting, q, runs>> /\ cur' = [cur EXCEPT ![w] = 0]
  BY DEF TaskDone, guiVars
<1>2. /\ MainPlace' /\ FlagPrefix' /\ FuturesInOrder' /\ SummaryBehind'
      /\ \A n \in Tasks : Pushed(n)' <=> Pushed(n)
  BY <1>1, GuiStays
<1>3. /\ TypeOK /\ HasTask /\ runs' # 0 /\ cur[w] # 0 /\ nWaiting' \in 0 .. NumThreads
      /\ outcome \in [Tasks -> {"pending", "value", "exception", "broken"}]
      /\ cur \in [Workers -> 0 .. MaxRuns]
  BY <1>1, PoolThere DEF IInv, HasTask, TypeOK
<1>4. PICK r \in {"value", "exception"} : outcome' = [outcome EXCEPT ![cur[w]] = r]
  BY DEF TaskDone
<1>5. PICK p \in {"exit", "pop"} : wk' = [wk EXCEPT ![w] = p]
  BY DEF TaskDone
<1>6. QueueOnce' /\ WorkerOnce' /\ Accounted' /\ cur[w] \in Tasks
  BY <1>1, <1>2, <1>3, <1>4, TasksEnded
<1>7. /\ cur' \in [Workers -> 0 .. MaxRuns]
      /\ \A v \in Workers : cur'[v] = IF v = w THEN 0 ELSE cur[v]
  BY <1>1, <1>3, ConstantsOK
<1>8. outcome' \in [Tasks -> {"pending", "value", "exception", "broken"}]
  BY <1>3, <1>4, <1>6
<1>9. TypeOK' /\ \A v \in Workers : wk'[v] = IF v = w THEN p ELSE wk[v]
  <2>1. p \in WorkerPlaces
    BY <1>5 DEF WorkerPlaces
  <2> QED
    BY <1>1, <1>3, <1>5, <1>6, <1>7, <1>8, <2>1, WorkerTypes
<1>10. HasTask'
  BY <1>3, <1>5, <1>7, <1>9 DEF HasTask
<1>11. WaitCounted'
  BY <1>1, <1>3, <1>5, <1>9, WaitStays DEF InWait
<1> QED
  BY <1>2, <1>6, <1>9, <1>10, <1>11 DEF IInv

\* LockWait keeps the invariant.
LEMMA KeepsLockWait ==
  ASSUME IInv, NEW w \in Workers, LockWait(w)
  PROVE  IInv'
<1>1. /\ wk[w] = "lock" /\ UNCHANGED <<poolVars, main, guiVars>>
      /\ UNCHANGED <<cur, q, outcome, runs>>
      /\ nWaiting' = nWaiting + 1 /\ wk' = [wk EXCEPT ![w] = "pred"]
  BY DEF LockWait, guiVars
<1>2. /\ MainPlace' /\ FlagPrefix' /\ FuturesInOrder' /\ SummaryBehind'
      /\ \A n \in Tasks : Pushed(n)' <=> Pushed(n)
  BY <1>1, GuiStays
<1>3. QueueOnce' /\ WorkerOnce' /\ Accounted'
  BY <1>1, <1>2, TasksStay
<1>4. /\ TypeOK /\ HasTask /\ runs' # 0 /\ cur[w] = 0
      /\ outcome' \in [Tasks -> {"pending", "value", "exception", "broken"}]
      /\ cur' \in [Workers -> 0 .. MaxRuns] /\ wk \in [Workers -> WorkerPlaces]
  BY <1>1, PoolThere DEF IInv, HasTask, TypeOK, WorkerPlaces
<1>5. \A v \in Workers : wk'[v] = IF v = w THEN "pred" ELSE wk[v]
  BY <1>1, <1>4
<1>6. WaitCounted' /\ nWaiting' \in 0 .. NumThreads
  BY <1>1, <1>4, <1>5, WaitBegins DEF InWait
<1>7. TypeOK'
  BY <1>1, <1>3, <1>4, <1>6, WorkerTypes DEF WorkerPlaces
<1>8. HasTask'
  BY <1>1, <1>4, <1>5 DEF HasTask
<1> QED
  BY <1>2, <1>3, <1>6, <1>7, <1>8 DEF IInv

\* PredPop keeps the invariant.
LEMMA KeepsPredPop ==
  ASSUME IInv, NEW w \in Workers, PredPop(w)
  PROVE  IInv'
<1>1. /\ wk[w] = "pred" /\ UNCHANGED <<poolVars, main, guiVars>>
      /\ UNCHANGED <<nWaiting, outcome, runs>> /\ wk' = [wk EXCEPT ![w] = "decide"]
  BY DEF PredPop, guiVars
<1>2. /\ MainPlace' /\ FlagPrefix' /\ FuturesInOrder' /\ SummaryBehind'
      /\ \A n \in Tasks : Pushed(n)' <=> Pushed(n)
  BY <1>1, GuiStays
<1>3. /\ TypeOK /\ HasTask /\ runs' # 0 /\ cur[w] = 0 /\ nWaiting' \in 0 .. NumThreads
      /\ outcome' \in [Tasks -> {"pending", "value", "exception", "broken"}]
      /\ cur \in [Workers -> 0 .. MaxRuns]
  BY <1>1, PoolThere DEF IInv, HasTask, TypeOK
<1>4. /\ QueueOnce' /\ WorkerOnce' /\ Accounted' /\ cur' \in [Workers -> 0 .. MaxRuns]
      /\ \A v \in Workers \ {w} : cur'[v] = cur[v]
  <2>1. CASE Take(w)
    <3>1. /\ QueueOnce' /\ WorkerOnce' /\ Accounted'
          /\ cur' = [cur EXCEPT ![w] = Head(q)] /\ Head(q) \in Tasks
      BY <1>1, <1>2, <1>3, <2>1, TasksTaken
    <3> QED
      BY <3>1, <1>3, ConstantsOK DEF Tasks
  <2>2. CASE UNCHANGED <<cur, q>>
    BY <1>1, <1>2, <1>3, <2>2, TasksStay
  <2> QED
    BY <2>1, <2>2 DEF PredPop
<1>5. TypeOK' /\ \A v \in Workers : wk'[v] = IF v = w THEN "decide" ELSE wk[v]
  BY <1>1, <1>3, <1>4, WorkerTypes DEF WorkerPlaces
<1>6. HasTask'
  BY <1>3, <1>4, <1>5 DEF HasTask
<1>7. WaitCounted'
  BY <1>1, <1>3, <1>5, WaitStays DEF InWait
<1> QED
  BY <1>2, <1>4, <1>5, <1>6, <1>7 DEF IInv

\* PredDecide keeps the invariant.
LEMMA KeepsPredDecide ==
  ASSUME IInv, NEW w \in Workers, PredDecide(w)
  PROVE  IInv'
<1> DEFINE p == WaitOver(w)
<1>1. /\ wk[w] = "decide" /\ UNCHANGED <<poolVars, main, guiVars>>
      /\ UNCHANGED <<cur, q, outcome, runs>> /\ wk' = [wk EXCEPT ![w] = p]
      /\ nWaiting' = IF p = "sleep" THEN nWaiting ELSE nWaiting - 1
  BY DEF PredDecide, guiVars
<1>2. /\ MainPlace' /\ FlagPrefix' /\ FuturesInOrder' /\ SummaryBehind'
      /\ \A n \in Tasks : Pushed(n)' <=> Pushed(n)
  BY <1>1, GuiStays
<1>3. QueueOnce' /\ WorkerOnce' /\ Accounted'
  BY <1>1, <1>2, TasksStay
<1>4. /\ TypeOK /\ HasTask /\ runs' # 0 /\ nWaiting \in 0 .. NumThreads
      /\ outcome' \in [Tasks -> {"pending", "value", "exception", "broken"}]
      /\ cur' \in [Workers -> 0 .. MaxRuns] /\ wk \in [Workers -> WorkerPlaces]
  BY <1>1, PoolThere DEF IInv, HasTask, TypeOK, WorkerPlaces
<1>5. p \in {"run", "exit", "sleep"} /\ (p = "run" <=> cur[w] # 0)
  BY DEF WaitOver
<1> HIDE DEF p
<1>6. \A v \in Workers : wk'[v] = IF v = w THEN p ELSE wk[v]
  BY <1>1, <1>4, <1>5
<1>7. WaitCounted' /\ nWaiting' \in 0 .. NumThreads
  <2>1. CASE p = "sleep"
    BY <1>1, <1>4, <1>6, <2>1, WaitStays DEF InWait
  <2>2. CASE p # "sleep"
    BY <1>1, <1>4, <1>5, <1>6, <2>2, WaitEnds DEF InWait
  <2> QED
    BY <2>1, <2>2
<1>8. TypeOK'
  BY <1>1, <1>3, <1>4, <1>5, <1>7, WorkerTypes DEF WorkerPlaces
<1>9. HasTask'
  BY <1>1, <1>4, <1>5, <1>6 DEF HasTask
<1> QED
  BY <1>2, <1>3, <1>7, <1>8, <1>9 DEF IInv

\* A worker that has no task moves from one place in cv.wait to another.
LEMMA KeepsWaitMove ==
  ASSUME IInv, NEW w \in Workers, wk[w] \in {"sleep", "asleep", "woken"},
         NEW p \in {"asleep", "woken", "pred"}, wk' = [wk EXCEPT ![w] = p],
         UNCHANGED <<cur, nWaiting, q, poolVars, main, guiVars, outcome>>
  PROVE  IInv'
<1>1. /\ UNCHANGED <<poolVars, main, guiVars>> /\ UNCHANGED <<cur, q, outcome, runs, nWaiting>>
  BY DEF guiVars
<1>2. /\ MainPlace' /\ FlagPrefix' /\ FuturesInOrder' /\ SummaryBehind'
      /\ \A n \in Tasks : Pushed(n)' <=> Pushed(n)
  BY <1>1, GuiStays
<1>3. QueueOnce' /\ WorkerOnce' /\ Accounted'
  BY <1>1, <1>2, TasksStay
<1>4. /\ TypeOK /\ HasTask /\ runs' # 0 /\ nWaiting' \in 0 .. NumThreads /\ cur[w] = 0
      /\ outcome' \in [Tasks -> {"pending", "value", "exception", "broken"}]
      /\ cur' \in [Workers -> 0 .. MaxRuns]
  BY <1>1, PoolThere DEF IInv, HasTask, TypeOK
<1>5. TypeOK' /\ \A v \in Workers : wk'[v] = IF v = w THEN p ELSE wk[v]
  <2>1. p \in WorkerPlaces
    BY DEF WorkerPlaces
  <2> QED
    BY <1>1, <1>3, <1>4, <2>1, WorkerTypes
<1>6. WaitCounted'
  BY <1>1, <1>4, <1>5, WaitStays DEF InWait
<1>7. HasTask'
  BY <1>1, <1>4, <1>5 DEF HasTask
<1> QED
  BY <1>2, <1>3, <1>5, <1>6, <1>7 DEF IInv

\* Every step of a worker keeps the invariant.
LEMMA KeepsWorkerStep ==
  ASSUME IInv, NEW w \in Workers, WorkerStep(w)
  PROVE  IInv'
<1>1. CASE Sleep(w) \/ SpuriousWake(w) \/ Relock(w)
  BY <1>1, KeepsWaitMove DEF Sleep, SpuriousWake, Relock
<1> QED
  BY <1>1, KeepsPopTask, KeepsTaskDone, KeepsLockWait, KeepsPredPop, KeepsPredDecide
     DEF WorkerStep

-----------------------------------------------------------------------------
(* The steps of the GUI thread *)

\* What a step of the GUI thread keeps if it leaves the workers and the tasks alone and
\* the same tasks count as pushed.
LEMMA WorkersStay ==
  ASSUME IInv, UNCHANGED <<workerVars, q, outcome>>, runs' = 0 => runs = 0,
         \A n \in Tasks : Pushed(n)' <=> Pushed(n)
  PROVE  HasTask' /\ WaitCounted' /\ QueueOnce' /\ WorkerOnce' /\ Accounted'
<1>1. UNCHANGED <<wk, cur, nWaiting, q, outcome>>
  BY DEF workerVars
<1>2. HasTask'
  BY <1>1 DEF IInv, HasTask
<1>3. WaitCounted'
  BY <1>1, WaitStays DEF InWait
<1> QED
  BY <1>1, <1>2, <1>3, TasksStay

\* What it keeps if it leaves the futures and the summary alone as well.
LEMMA FuturesStay ==
  ASSUME IInv, UNCHANGED <<futs, stats, mixed>>, \A n \in Tasks : Pushed(n) => Pushed(n)',
         main' \in Starting /\ ~isDone' => main \in Starting /\ ~isDone
  PROVE  FuturesInOrder' /\ SummaryBehind'
<1>1. FuturesInOrder /\ SummaryBehind
  BY DEF IInv
<1>2. FuturesInOrder'
  BY <1>1 DEF FuturesInOrder
<1>3. SummaryBehind'
  BY <1>1 DEF SummaryBehind
<1> QED
  BY <1>2, <1>3

\* SelectFramework keeps the invariant.
LEMMA KeepsSelectFramework ==
  ASSUME IInv, NEW f \in Frameworks, SelectFramework(f)
  PROVE  IInv'
<1>1. /\ main = "gui" /\ main' \in {"gui", "aborted"} /\ sel' = f
      /\ UNCHANGED <<workerVars, q, outcome>>
      /\ UNCHANGED <<wk, cur, nWaiting, flag, isStop, isDone, runs, futs, fw, stats, mixed>>
  BY DEF SelectFramework, workerVars, poolVars
<1>2. \A n \in Tasks : Pushed(n)' <=> Pushed(n)
  BY <1>1 DEF Pushed
<1>3. HasTask' /\ WaitCounted' /\ QueueOnce' /\ WorkerOnce' /\ Accounted'
  BY <1>1, <1>2, WorkersStay
<1>4. FuturesInOrder' /\ SummaryBehind'
  BY <1>1, <1>2, FuturesStay DEF Starting
<1>5. MainPlace' /\ FlagPrefix'
  BY <1>1 DEF IInv, MainPlace, FlagPrefix
<1>6. TypeOK'
  BY <1>1 DEF IInv, TypeOK
<1> QED
  BY <1>3, <1>4, <1>5, <1>6 DEF IInv

\* Run keeps the invariant: the summary is empty until the task has been pushed.
LEMMA KeepsRun ==
  ASSUME IInv, Run
  PROVE  IInv'
<1>1. /\ main = "gui" /\ runs < MaxRuns /\ runs' = runs + 1 /\ main' = "idle"
      /\ fw' = [fw EXCEPT ![runs + 1] = sel] /\ stats' = [k \in Keys |-> Absent]
      /\ mixed' = Mixed(runs + 1)
      /\ wk' = IF runs = 0 THEN [w \in Workers |-> "pop"] ELSE wk
      /\ UNCHANGED <<cur, nWaiting, q, flag, isStop, isDone, futs, sel, outcome>>
  BY DEF Run, poolVars
<1>2. TypeOK /\ HasTask /\ MainPlace /\ WaitCounted /\ FuturesInOrder
  BY DEF IInv
<1>3. runs \in 0 .. MaxRuns /\ ~isDone
  BY <1>1, <1>2 DEF TypeOK, MainPlace
<1>4. \A n \in Tasks : Pushed(n)' <=> Pushed(n)
  BY <1>1, <1>3, ConstantsOK DEF Pushed, Tasks
<1>5. QueueOnce' /\ WorkerOnce' /\ Accounted'
  BY <1>1, <1>4, TasksStay
<1>6. \A w \in Workers : wk'[w] = IF runs = 0 THEN "pop" ELSE wk[w]
  BY <1>1
<1>7. \A w \in Workers : InWait(w)' <=> InWait(w)
  BY <1>2, <1>6 DEF WaitCounted, InWait
<1>8. WaitCounted'
  BY <1>1, <1>3, <1>7, WaitStays, ConstantsOK
<1>9. HasTask'
  BY <1>1, <1>2, <1>6 DEF HasTask, WaitCounted
<1>10. FuturesInOrder'
  BY <1>1, <1>2, <1>4 DEF FuturesInOrder
<1>11. SummaryBehind'
  BY <1>1 DEF SummaryBehind, Absent
<1>12. MainPlace' /\ FlagPrefix'
  BY <1>1, <1>3, ConstantsOK DEF IInv, MainPlace, FlagPrefix
<1>13. runs + 1 \in Tasks /\ 1 .. runs \subseteq Tasks
  BY <1>1, <1>3, ConstantsOK DEF Tasks
<1>14. mixed' \subseteq Tasks
  BY <1>1, <1>2, <1>13 DEF Mixed, TypeOK
<1>15. fw' \in [Tasks -> Frameworks]
  BY <1>1, <1>2, <1>13 DEF TypeOK
<1>16. stats' \in [Keys -> Absent .. MaxRuns] /\ runs' \in 0 .. MaxRuns
  BY <1>1, <1>3, ConstantsOK DEF Absent
<1>17. wk' \in [Workers -> WorkerPlaces]
  BY <1>1, <1>2 DEF TypeOK, WorkerPlaces
<1>18. TypeOK'
  BY <1>1, <1>2, <1>14, <1>15, <1>16, <1>17 DEF TypeOK, WorkerPlaces
<1> QED
  BY <1>5, <1>8, <1>9, <1>10, <1>11, <1>12, <1>18 DEF IInv

\* A step within stop, or on to it, that leaves tasks and workers alone.
LEMMA KeepsStopMove ==
  ASSUME IInv, main \in Starting, main' \in Starting \cup {"ended"},
         main' = "ended" => isDone, isDone => main' \in {"notify", "join", "reclear", "ended"},
         UNCHANGED <<workerVars, q, isDone, guiVars, outcome>>,
         isStop' \in BOOLEAN, flag' \subseteq Workers, FlagPrefix'
  PROVE  IInv'
<1>1. UNCHANGED <<wk, cur, nWaiting, q, outcome, runs, futs, sel, fw, stats, mixed, isDone>>
  BY DEF workerVars, guiVars, benchVars
<1>2. TypeOK /\ MainPlace
  BY DEF IInv
<1>3. \A n \in Tasks : Pushed(n)' <=> Pushed(n)
  BY <1>1 DEF Pushed, Starting
<1>4. HasTask' /\ WaitCounted' /\ QueueOnce' /\ WorkerOnce' /\ Accounted'
  BY <1>1, <1>3, WorkersStay
<1>5. FuturesInOrder' /\ SummaryBehind'
  BY <1>1, <1>3, FuturesStay DEF Starting
<1>6. MainPlace'
  BY <1>1, <1>2 DEF MainPlace, Starting
<1>7. TypeOK'
  BY <1>1, <1>2 DEF TypeOK, Starting
<1> QED
  BY <1>4, <1>5, <1>6, <1>7 DEF IInv

\* CheckIdle keeps the invariant.
LEMMA KeepsCheckIdle ==
  ASSUME IInv, CheckIdle
  PROVE  IInv'
<1>1. /\ main = "idle" /\ main' \in {"push", "flags"} /\ UNCHANGED flag
      /\ UNCHANGED <<workerVars, q, isDone, guiVars, outcome>>
  BY DEF CheckIdle
<1>2. isStop' \in BOOLEAN
  BY DEF CheckIdle, IInv, TypeOK
<1>3. flag' \subseteq Workers /\ FlagPrefix'
  BY <1>1 DEF IInv, TypeOK, FlagPrefix
<1>4. ~isDone
  BY <1>1 DEF IInv, MainPlace
<1> QED
  BY <1>1, <1>2, <1>3, <1>4, KeepsStopMove DEF Starting

\* SetFlag keeps the invariant: the next flag is that of a thread of the pool.
LEMMA KeepsSetFlag ==
  ASSUME IInv, SetFlag
  PROVE  IInv'
<1>1. /\ main = "flags" /\ main' \in {"flags", "clear"} /\ UNCHANGED isStop
      /\ UNCHANGED <<workerVars, q, isDone, guiVars, outcome>>
  BY DEF SetFlag
<1>2. isStop' \in BOOLEAN
  BY <1>1 DEF IInv, TypeOK
<1>3. ~isDone
  BY <1>1 DEF IInv, MainPlace
<1>4. PICK k \in 0 .. NumThreads : flag = 0 .. k - 1
  BY DEF IInv, FlagPrefix
<1>5. Cardinality(flag) = k
  BY <1>4, FS_Interval, ConstantsOK
<1>6. flag' \subseteq Workers /\ FlagPrefix'
  <2>1. CASE flag # Workers /\ flag' = flag \cup {Cardinality(flag)}
    <3>1. k # NumThreads
      BY <2>1, <1>4 DEF Workers
    <3>2. flag' = 0 .. (k + 1) - 1 /\ k + 1 \in 0 .. NumThreads
      BY <2>1, <3>1, <1>4, <1>5, ConstantsOK
    <3> QED
      BY <3>2, ConstantsOK DEF FlagPrefix, Workers
  <2>2. CASE UNCHANGED flag
    BY <2>2 DEF IInv, TypeOK, FlagPrefix
  <2> QED
    BY <2>1, <2>2 DEF SetFlag
<1> QED
  BY <1>1, <1>2, <1>3, <1>6, KeepsStopMove DEF Starting

\* ClearQueue keeps the invariant.
LEMMA KeepsClearQueue ==
  ASSUME IInv, ClearQueue
  PROVE  IInv'
<1>1. /\ main \in {"clear", "reclear"} /\ UNCHANGED <<workerVars, poolVars, guiVars>>
      /\ UNCHANGED <<flag, isStop, isDone, wk, cur, nWaiting>>
      /\ UNCHANGED <<runs, futs, sel, fw, stats, mixed>>
  BY DEF ClearQueue, workerVars, poolVars, guiVars, benchVars
<1>2. /\ TypeOK /\ MainPlace /\ FlagPrefix' /\ flag' \subseteq Workers /\ isStop' \in BOOLEAN
  BY <1>1 DEF IInv, TypeOK, FlagPrefix
<1>3. CASE q = <<>> /\ UNCHANGED <<q, outcome>>
  <2>1. main' = CASE main = "clear" -> "notify"
                  [] main = "reclear" /\ ~isDone -> "push"
                  [] main = "reclear" /\ isDone -> "ended"
    BY <1>3 DEF ClearQueue
  <2>2. \/ main = "clear" /\ main' = "notify"
        \/ main = "reclear" /\ ~isDone /\ main' = "push"
        \/ main = "reclear" /\ isDone /\ main' = "ended"
    BY <1>1, <2>1, Zenon
  <2>3. main = "clear" => ~isDone
    BY <1>2 DEF MainPlace
  <2> QED
    BY <1>1, <1>2, <1>3, <2>2, <2>3, KeepsStopMove DEF Starting
<1>4. CASE /\ q # <<>> /\ q' = Tail(q) /\ UNCHANGED main
           /\ outcome' = [outcome EXCEPT ![Head(q)] = "broken"]
  <2>1. \A n \in Tasks : Pushed(n)' <=> Pushed(n)
    BY <1>1, <1>4 DEF Pushed
  <2>2. QueueOnce' /\ WorkerOnce' /\ Accounted' /\ Head(q) \in Tasks
    BY <1>1, <1>4, <2>1, TasksBroken
  <2>3. HasTask'
    BY <1>1 DEF IInv, HasTask
  <2>4. WaitCounted'
    BY <1>1, WaitStays DEF InWait
  <2>5. FuturesInOrder' /\ SummaryBehind'
    BY <1>1, <1>4, <2>1, FuturesStay
  <2>6. MainPlace'
    BY <1>1, <1>2, <1>4 DEF MainPlace
  <2>7. \A i \in 1 .. Len(q') : q'[i] \in Tasks
    BY <2>2 DEF QueueOnce
  <2>8. TypeOK'
    BY <1>1, <1>2, <1>4, <2>2, <2>7 DEF TypeOK
  <2> QED
    BY <1>2, <2>2, <2>3, <2>4, <2>5, <2>6, <2>8 DEF IInv
<1> QED
  BY <1>3, <1>4 DEF ClearQueue

\* What a notification keeps: it moves sleeping workers to "woken" and the GUI thread on.
LEMMA KeepsNotify ==
  ASSUME IInv, wk' \in [Workers -> WorkerPlaces],
         \A w \in Workers : wk'[w] = wk[w] \/ (wk[w] = "asleep" /\ wk'[w] = "woken"),
         \/ main = "notify" /\ main' = "join"
         \/ main = "one" /\ main' = "gui",
         UNCHANGED <<cur, nWaiting, q, poolVars, guiVars, outcome>>
  PROVE  IInv'
<1>1. UNCHANGED <<cur, nWaiting, q, flag, isStop, isDone, runs, futs, sel, fw, stats,
                  mixed, outcome>>
  BY DEF poolVars, guiVars, benchVars
<1>2. TypeOK /\ MainPlace /\ HasTask
  BY DEF IInv
<1>3. \A n \in Tasks : Pushed(n)' <=> Pushed(n)
  BY <1>1 DEF Pushed
<1>4. QueueOnce' /\ WorkerOnce' /\ Accounted'
  BY <1>1, <1>3, TasksStay
<1>5. \A w \in Workers : InWait(w)' <=> InWait(w)
  BY DEF InWait
<1>6. WaitCounted'
  <2>1. runs = 0 => \A w \in Workers : wk'[w] = wk[w]
    BY DEF IInv, WaitCounted
  <2> QED
    BY <1>1, <1>5, <2>1, WaitStays
<1>7. HasTask'
  BY <1>1, <1>2 DEF HasTask
<1>8. FuturesInOrder' /\ SummaryBehind'
  BY <1>1, <1>3, FuturesStay DEF Starting
<1>9. MainPlace' /\ FlagPrefix'
  BY <1>1, <1>2 DEF IInv, MainPlace, FlagPrefix
<1>10. TypeOK'
  BY <1>1, <1>2 DEF TypeOK, WorkerPlaces
<1> QED
  BY <1>4, <1>6, <1>7, <1>8, <1>9, <1>10 DEF IInv

\* NotifyAll and NotifyOne keep the invariant.
LEMMA KeepsNotifications ==
  ASSUME IInv, NotifyAll \/ NotifyOne
  PROVE  IInv'
<1>1. wk \in [Workers -> WorkerPlaces]
  BY DEF IInv, TypeOK, WorkerPlaces
<1>2. CASE NotifyAll
  <2>1. wk' = [w \in Workers |-> IF wk[w] = "asleep" THEN "woken" ELSE wk[w]]
    BY <1>2 DEF NotifyAll
  <2>2. wk' \in [Workers -> WorkerPlaces]
    BY <1>1, <2>1 DEF WorkerPlaces
  <2> QED
    BY <1>2, <2>1, <2>2, KeepsNotify DEF NotifyAll
<1>3. CASE NotifyOne
  <2>1. CASE UNCHANGED wk
    BY <1>1, <1>3, <2>1, KeepsNotify DEF NotifyOne
  <2>2. CASE \E w \in Workers : wk[w] = "asleep" /\ wk' = [wk EXCEPT ![w] = "woken"]
    <3>1. PICK w \in Workers : wk[w] = "asleep" /\ wk' = [wk EXCEPT ![w] = "woken"]
      BY <2>2
    <3>2. wk' \in [Workers -> WorkerPlaces]
      BY <1>1, <3>1 DEF WorkerPlaces
    <3> QED
      BY <1>1, <1>3, <3>1, <3>2, KeepsNotify DEF NotifyOne
  <2> QED
    BY <1>3, <2>1, <2>2 DEF NotifyOne
<1> QED
  BY <1>2, <1>3

\* Join keeps the invariant.
LEMMA KeepsJoin ==
  ASSUME IInv, Join
  PROVE  IInv'
<1>1. /\ main = "join" /\ main' = "reclear" /\ UNCHANGED <<flag, isStop>>
      /\ UNCHANGED <<workerVars, q, isDone, guiVars, outcome>>
  BY DEF Join, poolVars
<1>2. /\ FlagPrefix' /\ flag' \subseteq Workers /\ isStop' \in BOOLEAN
  BY <1>1 DEF IInv, TypeOK, FlagPrefix
<1> QED
  BY <1>1, <1>2, KeepsStopMove DEF Starting

\* Push keeps the invariant: the new future is the last.
LEMMA KeepsPush ==
  ASSUME IInv, Push
  PROVE  IInv'
<1>1. /\ main = "push" /\ main' = "one" /\ futs' = Append(futs, runs)
      /\ UNCHANGED <<wk, cur, nWaiting, flag, isStop, isDone, runs, sel, fw, stats, mixed,
                     outcome>>
  BY DEF Push, workerVars, poolVars, benchVars
<1>2. TypeOK /\ MainPlace /\ FuturesInOrder /\ SummaryBehind
  BY DEF IInv
<1>3. runs \in Tasks /\ ~isDone
  BY <1>1, <1>2, ConstantsOK DEF TypeOK, MainPlace, Tasks
<1>4. /\ ~Pushed(runs)
      /\ \A n \in Tasks : Pushed(n)' <=> Pushed(n) \/ n = runs
      /\ \A n \in Tasks : Pushed(n) => n < runs
  BY <1>1, <1>3, ConstantsOK DEF Pushed, Tasks
<1>5. QueueOnce' /\ WorkerOnce' /\ Accounted'
  BY <1>3, <1>4, TasksPushed
<1>6. HasTask'
  BY <1>1 DEF IInv, HasTask
<1>7. WaitCounted'
  BY <1>1, WaitStays DEF InWait
<1>8. futs \in Seq(Tasks)
  BY <1>2 DEF FuturesInOrder
<1>9. /\ futs' \in Seq(Tasks) /\ Len(futs') = Len(futs) + 1 /\ Len(futs) \in Nat
      /\ futs'[Len(futs) + 1] = runs
      /\ \A i \in 1 .. Len(futs) : futs'[i] = futs[i] /\ futs[i] \in Tasks
  BY <1>1, <1>3, <1>8
<1>10. \A i \in 1 .. Len(futs') : i = Len(futs) + 1 \/ i \in 1 .. Len(futs)
  BY <1>9
<1>11. \A i \in 1 .. Len(futs) : futs[i] < runs
  BY <1>2, <1>4, <1>9 DEF FuturesInOrder
<1>12. \A i, j \in 1 .. Len(futs') : i < j => futs'[i] < futs'[j]
  <2> SUFFICES ASSUME NEW i \in 1 .. Len(futs'), NEW j \in 1 .. Len(futs'), i < j
               PROVE  futs'[i] < futs'[j]
    OBVIOUS
  <2>1. i \in 1 .. Len(futs)
    BY <1>9
  <2>2. CASE j \in 1 .. Len(futs)
    BY <1>2, <1>9, <2>1, <2>2 DEF FuturesInOrder
  <2>3. CASE j = Len(futs) + 1
    BY <1>9, <1>11, <2>1, <2>3
  <2> QED
    BY <1>10, <2>2, <2>3
<1>13. \A i \in 1 .. Len(futs') : futs'[i] < runs' \/ (futs'[i] = runs' /\ main' = "one")
  BY <1>1, <1>9, <1>10, <1>11
<1>14. FuturesInOrder'
  BY <1>9, <1>12, <1>13 DEF FuturesInOrder, Pushed
<1>15. SummaryBehind'
  BY <1>1, <1>2, <1>3 DEF SummaryBehind, Starting, Absent
<1>16. MainPlace' /\ FlagPrefix'
  BY <1>1, <1>2, <1>3 DEF IInv, MainPlace, FlagPrefix
<1>17. /\ \A i \in 1 .. Len(futs') : futs'[i] \in Tasks
       /\ \A i \in 1 .. Len(q') : q'[i] \in Tasks
  BY <1>5, <1>9 DEF QueueOnce
<1>18. TypeOK'
  BY <1>1, <1>2, <1>17 DEF TypeOK
<1> QED
  BY <1>5, <1>6, <1>7, <1>14, <1>15, <1>16, <1>18 DEF IInv

\* What PollFuture does to the summary: a key keeps its number, loses it, or gets one of
\* the oldest benchmark, or of a mixed one.
LEMMA SummaryValues ==
  ASSUME NEW n, NEW m \in Numbers(n), NEW p, NEW k \in Keys
  PROVE  /\ Summary(m, p)[k] \in {stats[k], 0, m}
         /\ m = n \/ m \in mixed
         /\ n \in mixed => m \in mixed
BY DEF Summary, SnpeSummary, TfliteSummary, Numbers

\* PollFuture keeps the invariant, and does not take the summary back to an earlier
\* benchmark.
LEMMA KeepsPollFuture ==
  ASSUME IInv, PollFuture
  PROVE  /\ IInv'
         /\ \A k \in Keys :
              stats[k] > 0 /\ stats'[k] > 0 /\ {stats[k], stats'[k]} \cap mixed = {}
                => stats'[k] >= stats[k]
<1>1. /\ main = "gui" /\ futs # <<>> /\ UNCHANGED <<workerVars, q, outcome>>
      /\ UNCHANGED <<wk, cur, nWaiting, flag, isStop, isDone, runs, sel, fw, mixed>>
  BY DEF PollFuture, workerVars, poolVars
<1>2. TypeOK /\ MainPlace /\ FuturesInOrder /\ SummaryBehind
  BY DEF IInv
<1>3. CASE main' = "aborted" /\ UNCHANGED <<futs, stats>>
  <2>1. \A n \in Tasks : Pushed(n)' <=> Pushed(n)
    BY <1>1, <1>3 DEF Pushed
  <2>2. HasTask' /\ WaitCounted' /\ QueueOnce' /\ WorkerOnce' /\ Accounted'
    BY <1>1, <2>1, WorkersStay
  <2>3. FuturesInOrder' /\ SummaryBehind'
    BY <1>1, <1>3, <2>1, FuturesStay DEF Starting
  <2>4. MainPlace' /\ FlagPrefix'
    BY <1>1, <1>2, <1>3 DEF IInv, MainPlace, FlagPrefix
  <2>5. TypeOK'
    BY <1>1, <1>2, <1>3 DEF TypeOK
  <2>6. \A k \in Keys : stats[k] \in Int /\ stats'[k] = stats[k]
    BY <1>2, <1>3, ConstantsOK DEF TypeOK, Absent
  <2> QED
    BY <2>2, <2>3, <2>4, <2>5, <2>6 DEF IInv
<1>4. CASE futs' = Tail(futs) /\ UNCHANGED main
  <2>1. \A n \in Tasks : Pushed(n)' <=> Pushed(n)
    BY <1>1, <1>4 DEF Pushed
  <2>2. HasTask' /\ WaitCounted' /\ QueueOnce' /\ WorkerOnce' /\ Accounted'
    BY <1>1, <2>1, WorkersStay
  <2> DEFINE h == Head(futs)
  <2>3. futs \in Seq(Tasks)
    BY <1>2 DEF FuturesInOrder
  <2>4. /\ h \in Tasks /\ h = futs[1] /\ 1 \in 1 .. Len(futs) /\ Len(futs) \in Nat
        /\ futs' \in Seq(Tasks) /\ Len(futs') = Len(futs) - 1
        /\ \A i \in 1 .. Len(futs') :
             i + 1 \in 1 .. Len(futs) /\ futs'[i] = futs[i + 1] /\ futs[i + 1] \in Tasks
    BY <1>1, <1>4, <2>3
  <2> HIDE DEF h
  <2>5. FuturesInOrder'
    <3>1. \A i, j \in 1 .. Len(futs') : i < j => futs'[i] < futs'[j]
      BY <1>2, <2>4 DEF FuturesInOrder
    <3>2. \A i \in 1 .. Len(futs') : Pushed(futs[i + 1])
      BY <1>2, <2>4 DEF FuturesInOrder
    <3>3. \A i \in 1 .. Len(futs') : futs'[i] < runs' \/ (futs'[i] = runs' /\ main' = "gui")
      BY <1>1, <1>4, <2>4, <3>2 DEF Pushed
    <3> QED
      BY <2>4, <3>1, <3>3 DEF FuturesInOrder, Pushed
  <2>6. \A k \in Keys : \/ stats'[k] \in {stats[k], 0, h}
                        \/ stats'[k] \in mixed
    <3>1. CASE UNCHANGED stats
      BY <3>1
    <3>2. CASE \E p \in Parsers(Head(futs)), m \in Numbers(Head(futs)) : stats' = Summary(m, p)
      BY <3>2, SummaryValues DEF h
    <3> QED
      BY <1>4, <3>1, <3>2 DEF PollFuture
  <2>7. stats' \in [Keys -> Absent .. MaxRuns]
    <3>1. \A k \in Keys : stats'[k] \in Absent .. MaxRuns
      <4>1. h \in Absent .. MaxRuns /\ 0 \in Absent .. MaxRuns
        BY <2>4, ConstantsOK DEF Absent, Tasks
      <4>2. mixed \subseteq Absent .. MaxRuns
        BY <1>2, ConstantsOK DEF TypeOK, Absent, Tasks
      <4>3. \A k \in Keys : stats[k] \in Absent .. MaxRuns
        BY <1>2 DEF TypeOK
      <4> QED
        BY <2>6, <4>1, <4>2, <4>3
    <3>2. stats' = stats \/ stats' = [k \in Keys |-> stats'[k]]
      BY <1>4, Zenon DEF PollFuture, Summary, SnpeSummary, TfliteSummary
    <3> QED
      BY <1>2, <3>1, <3>2 DEF TypeOK
  <2>8. \A k \in Keys : /\ stats[k] \in Int /\ stats'[k] \in Int
                        /\ stats[k] > 0 /\ stats[k] \notin mixed => stats[k] < h
    BY <1>2, <2>4, <2>7, ConstantsOK DEF TypeOK, Absent, SummaryBehind
  <2>9. \A i \in 1 .. Len(futs') : h < futs'[i]
    <3>1. \A i \in 1 .. Len(futs') : 1 < i + 1
      BY <2>4
    <3> QED
      BY <1>2, <2>4, <3>1 DEF FuturesInOrder
  <2>10. SummaryBehind'
    <3> SUFFICES ASSUME NEW k \in Keys, NEW i \in 1 .. Len(futs'),
                        stats'[k] > 0, stats'[k] \notin mixed
                 PROVE  stats'[k] < futs'[i]
      BY <1>1, <1>4 DEF SummaryBehind, Starting
    <3>1. stats'[k] = h \/ (stats'[k] = stats[k] /\ stats[k] < h)
      BY <2>6, <2>8
    <3> QED
      BY <2>4, <2>8, <2>9, <3>1, ConstantsOK DEF Tasks
  <2>11. \A k \in Keys :
           stats[k] > 0 /\ stats'[k] > 0 /\ {stats[k], stats'[k]} \cap mixed = {}
             => stats'[k] >= stats[k]
    <3> SUFFICES ASSUME NEW k \in Keys, stats[k] > 0, stats'[k] > 0,
                        stats[k] \notin mixed, stats'[k] \notin mixed
                 PROVE  stats'[k] >= stats[k]
      OBVIOUS
    <3> QED
      BY <2>4, <2>6, <2>8, ConstantsOK DEF Tasks
  <2>12. MainPlace' /\ FlagPrefix'
    BY <1>1, <1>2, <1>4 DEF IInv, MainPlace, FlagPrefix
  <2>13. \A i \in 1 .. Len(futs') : futs'[i] \in Tasks
    BY <2>4
  <2>14. TypeOK'
    BY <1>1, <1>2, <1>4, <2>7, <2>13 DEF TypeOK
  <2> QED
    BY <2>2, <2>5, <2>10, <2>11, <2>12, <2>14 DEF IInv
<1> QED
  BY <1>3, <1>4 DEF PollFuture

\* ClearSummary keeps the invariant.
LEMMA KeepsClearSummary ==
  ASSUME IInv, ClearSummary
  PROVE  IInv'
<1>1. /\ stats' = [k \in Keys |-> Absent] /\ UNCHANGED <<workerVars, q, outcome>>
      /\ UNCHANGED <<main, wk, cur, nWaiting, flag, isStop, isDone, runs, futs, sel, fw, mixed>>
  BY DEF ClearSummary, workerVars, poolVars
<1>2. TypeOK /\ MainPlace /\ FuturesInOrder
  BY DEF IInv
<1>3. \A n \in Tasks : Pushed(n)' <=> Pushed(n)
  BY <1>1 DEF Pushed
<1>4. HasTask' /\ WaitCounted' /\ QueueOnce' /\ WorkerOnce' /\ Accounted'
  BY <1>1, <1>3, WorkersStay
<1>5. FuturesInOrder'
  BY <1>1, <1>2 DEF FuturesInOrder, Pushed
<1>6. SummaryBehind'
  BY <1>1 DEF SummaryBehind, Absent
<1>7. MainPlace' /\ FlagPrefix'
  BY <1>1, <1>2 DEF IInv, MainPlace, FlagPrefix
<1>8. stats' \in [Keys -> Absent .. MaxRuns]
  BY <1>1, ConstantsOK DEF Absent
<1>9. TypeOK'
  BY <1>1, <1>2, <1>8 DEF TypeOK
<1> QED
  BY <1>4, <1>5, <1>6, <1>7, <1>9 DEF IInv

\* Exit keeps the invariant: the last task has been pushed when the destructor runs.
LEMMA KeepsExit ==
  ASSUME IInv, Exit
  PROVE  IInv'
<1>1. /\ main = "gui" /\ UNCHANGED <<workerVars, q, outcome>>
      /\ UNCHANGED <<wk, cur, nWaiting, flag, isStop, runs, futs, sel, fw, stats, mixed>>
  BY DEF Exit, workerVars, guiVars, benchVars
<1>2. \/ main' = "ended" /\ UNCHANGED isDone
      \/ main' = "notify" /\ isDone' = TRUE /\ runs # 0
  BY DEF Exit
<1>3. TypeOK /\ MainPlace /\ FuturesInOrder /\ SummaryBehind
  BY DEF IInv
<1>4. ~isDone /\ isDone' \in BOOLEAN
  BY <1>1, <1>2, <1>3 DEF MainPlace, TypeOK
<1>5. \A n \in Tasks : Pushed(n)' <=> Pushed(n)
  BY <1>1, <1>2 DEF Pushed
<1>6. HasTask' /\ WaitCounted' /\ QueueOnce' /\ WorkerOnce' /\ Accounted'
  BY <1>1, <1>5, WorkersStay
<1>7. FuturesInOrder'
  BY <1>1, <1>2, <1>3 DEF FuturesInOrder, Pushed
<1>8. SummaryBehind'
  BY <1>1, <1>2, <1>3 DEF SummaryBehind, Starting
<1>9. MainPlace' /\ FlagPrefix'
  BY <1>1, <1>2, <1>3, <1>4 DEF IInv, MainPlace, FlagPrefix
<1>10. TypeOK'
  BY <1>1, <1>2, <1>3, <1>4 DEF TypeOK
<1> QED
  BY <1>6, <1>7, <1>8, <1>9, <1>10 DEF IInv

-----------------------------------------------------------------------------
(* The theorems *)

\* The pool starts with nothing to do.
LEMMA InitIInv == Init => IInv
<1> SUFFICES ASSUME Init PROVE IInv
  OBVIOUS
<1>1. /\ wk = [w \in Workers |-> "none"] /\ cur = [w \in Workers |-> 0] /\ q = <<>>
      /\ flag = {} /\ isStop = FALSE /\ isDone = FALSE /\ nWaiting = 0 /\ main = "gui"
      /\ runs = 0 /\ futs = <<>> /\ outcome = [n \in Tasks |-> "pending"]
      /\ sel = "tflite" /\ fw = [n \in Tasks |-> "tflite"] /\ stats = [k \in Keys |-> 0]
      /\ mixed = {}
  BY DEF Init
<1>2. isStop \in BOOLEAN /\ isDone \in BOOLEAN
  BY <1>1
<1>3. TypeOK
  BY <1>1, <1>2, ConstantsOK DEF TypeOK, Frameworks, Absent
<1>4. HasTask /\ MainPlace
  BY <1>1 DEF HasTask, MainPlace
<1>5. FlagPrefix
  <2>1. flag = 0 .. 0 - 1 /\ 0 \in 0 .. NumThreads
    BY <1>1, ConstantsOK
  <2> QED
    BY <2>1 DEF FlagPrefix
<1>6. WaitCounted
  <2>1. Waiting = {}
    BY <1>1 DEF Waiting, InWait
  <2> QED
    BY <1>1, <2>1, FS_EmptySet DEF WaitCounted
<1>7. \A n : ~Queued(n)
  BY <1>1 DEF Queued
<1>8. \A n \in Tasks : ~WithWorker(n) /\ ~Pushed(n)
  BY <1>1, ConstantsOK DEF WithWorker, Pushed, Tasks
<1>9. QueueOnce /\ WorkerOnce /\ Accounted
  BY <1>1, <1>7, <1>8 DEF QueueOnce, WorkerOnce, Accounted
<1>10. FuturesInOrder /\ SummaryBehind
  BY <1>1 DEF FuturesInOrder, SummaryBehind, Starting
<1> QED
  BY <1>3, <1>4, <1>5, <1>6, <1>9, <1>10 DEF IInv

\* Every step keeps the invariant.
LEMMA NextIInv == IInv /\ [Next]_vars => IInv'
<1> SUFFICES ASSUME IInv, [Next]_vars PROVE IInv'
  OBVIOUS
<1>1. CASE UNCHANGED vars
  <2>1. /\ UNCHANGED <<poolVars, main, guiVars, workerVars, q, outcome>>
        /\ UNCHANGED <<wk, cur, nWaiting, flag, isStop, isDone, runs, futs, sel, fw, stats, mixed>>
    BY <1>1 DEF vars, workerVars, poolVars, guiVars, benchVars
  <2>2. /\ MainPlace' /\ FlagPrefix' /\ FuturesInOrder' /\ SummaryBehind'
        /\ \A n \in Tasks : Pushed(n)' <=> Pushed(n)
    BY <2>1, GuiStays
  <2>3. HasTask' /\ WaitCounted' /\ QueueOnce' /\ WorkerOnce' /\ Accounted'
    BY <2>1, <2>2, WorkersStay
  <2>4. TypeOK'
    BY <2>1 DEF IInv, TypeOK
  <2> QED
    BY <2>2, <2>3, <2>4 DEF IInv
<1>2. CASE Next
  BY <1>2, KeepsWorkerStep, KeepsSelectFramework, KeepsRun, KeepsCheckIdle, KeepsSetFlag,
     KeepsClearQueue, KeepsNotifications, KeepsJoin, KeepsPush, KeepsPollFuture,
     KeepsClearSummary, KeepsExit DEF Next, StopStep
<1> QED
  BY <1>1, <1>2

\* IInv holds in every state that atop's GUI thread and the pool reach: tasks, futures,
\* flags and the count of waiting threads agree, for every size of the pool.
THEOREM Inductive == Spec => []IInv
BY InitIInv, NextIInv, PTL DEF Spec

\* A task has one place if it was pushed and none if not.
LEMMA OnePlace ==
  ASSUME IInv, NEW n \in Tasks
  PROVE  Cardinality(Places(n)) = IF Pushed(n) THEN 1 ELSE 0
<1> DEFINE Q == {j \in 1 .. Len(q) : q[j] = n}
           W == {v \in Workers : cur[v] = n}
<1>1. QueueOnce /\ WorkerOnce /\ Accounted /\ n # 0
  BY ConstantsOK DEF IInv, Tasks
<1>2. Places(n) = {<<"queue", i>> : i \in Q} \cup {<<"worker", w>> : w \in W}
                    \cup (IF outcome[n] # "pending" THEN {<<"future", 0>>} ELSE {})
  BY DEF Places
<1>3. (Queued(n) <=> Q # {}) /\ (WithWorker(n) <=> W # {})
  BY DEF Queued, WithWorker
<1>4. \A i, j \in Q : i = j
  BY <1>1 DEF QueueOnce
<1>5. \A v, w \in W : v = w
  BY <1>1 DEF WorkerOnce
<1>6. Q = {} \/ W = {}
  BY <1>1 DEF WorkerOnce, Queued
<1> HIDE DEF Q, W
<1>7. CASE Q # {}
  <2>1. PICK i : Q = {i}
    BY <1>4, <1>7
  <2>2. W = {} /\ outcome[n] = "pending" /\ Pushed(n)
    BY <1>1, <1>3, <1>6, <1>7 DEF Accounted
  <2>3. Places(n) = {<<"queue", i>>}
    BY <1>2, <2>1, <2>2
  <2> QED
    BY <2>2, <2>3, FS_Singleton
<1>8. CASE W # {}
  <2>1. PICK w : W = {w}
    BY <1>5, <1>8
  <2>2. Q = {} /\ outcome[n] = "pending" /\ Pushed(n)
    BY <1>1, <1>3, <1>6, <1>8 DEF Accounted
  <2>3. Places(n) = {<<"worker", w>>}
    BY <1>2, <2>1, <2>2
  <2> QED
    BY <2>2, <2>3, FS_Singleton
<1>9. CASE Q = {} /\ W = {}
  <2>1. Pushed(n) <=> outcome[n] # "pending"
    BY <1>1, <1>3, <1>9 DEF Accounted
  <2>2. Places(n) = IF Pushed(n) THEN {<<"future", 0>>} ELSE {}
    BY <1>2, <1>9, <2>1
  <2> QED
    BY <2>2, FS_Singleton, FS_EmptySet
<1> QED
  BY <1>7, <1>8, <1>9

\* No benchmark is lost, run twice, or run and deleted: whatever workers, their wait's
\* predicate and clear_queue pop from the queue, a task is at one place.
THEOREM TasksAccountedHolds == Spec => []TasksAccounted
<1>1. IInv => TasksAccounted
  <2> SUFFICES ASSUME IInv, NEW n \in Tasks
               PROVE  Cardinality(Places(n)) =
                        IF n < runs \/ (n = runs /\ main \in {"gui", "one", "aborted", "ended"})
                          \/ (n = runs /\ isDone) THEN 1 ELSE 0
    BY DEF TasksAccounted
  <2> QED
    BY OnePlace DEF Pushed
<1> QED
  BY <1>1, Inductive, PTL

\* The summary never goes back from a later benchmark to an earlier one, in whatever order
\* the benchmarks end.
THEOREM SummaryInOrderHolds == Spec => SummaryInOrder
<1> DEFINE Step == \A k \in Keys :
                     stats[k] > 0 /\ stats'[k] > 0 /\ {stats[k], stats'[k]} \cap mixed = {}
                       => stats'[k] >= stats[k]
<1>1. IInv /\ [Next]_vars => [Step]_vars
  <2> SUFFICES ASSUME IInv, Next PROVE Step
    OBVIOUS
  <2>1. \A k \in Keys : stats[k] \in Int
    BY ConstantsOK DEF IInv, TypeOK, Absent
  <2>2. CASE PollFuture
    BY <2>2, KeepsPollFuture
  <2>3. CASE Run \/ ClearSummary
    <3>1. stats' = [k \in Keys |-> Absent]
      BY <2>3 DEF Run, ClearSummary
    <3> QED
      BY <3>1 DEF Absent
  <2>4. CASE UNCHANGED stats
    BY <2>1, <2>4
  <2>5. \/ PollFuture \/ Run \/ ClearSummary \/ UNCHANGED stats
    BY DEF Next, WorkerStep, PopTask, TaskDone, LockWait, PredPop, PredDecide, Sleep,
       SpuriousWake, Relock, SelectFramework, CheckIdle, StopStep, SetFlag, ClearQueue,
       NotifyAll, Join, Push, NotifyOne, Exit, guiVars, benchVars
  <2> QED
    BY <2>2, <2>3, <2>4, <2>5
<1> QED
  BY <1>1, Inductive, PTL DEF Spec, SummaryInOrder

=============================================================================
