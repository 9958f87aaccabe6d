--------------------------- MODULE AtopStreamProofs ---------------------------
(***************************************************************************)
(* What AtopStream promises about the lines of a log, proved for every     *)
(* capacity of the FIFO and every number of polls, lines and buttons.      *)
(***************************************************************************)
EXTENDS AtopStream, FiniteSetTheorems, WellFoundedInduction, TLAPS

\* The values of the variables that the lines depend on.
Typed ==
  /\ kind \in Kinds
  /\ log \in Seq([ts : Nat, tag : Tags(kind)])
  /\ since \in Int
  /\ polled \in 0 .. Len(log)
  /\ latest.fresh \in BOOLEAN
  /\ latest.lines \in [Tags(kind) -> SUBSET (1 .. polled)]
  /\ given \subseteq 1 .. polled
  /\ counted \in [Lines -> Int]
  /\ consumed \in BOOLEAN

\* Before the threads are there nothing has been polled.
Unstarted ==
  gui \in {"reqs", "start"} =>
    th = "none" /\ log \in OldLogs /\ polled = 0 /\ since = 0

\* The log is in the order of its time stamps, which never reach Future.
LogOrdered ==
  \A i \in 1 .. Len(log) :
    /\ 1 <= log[i].ts /\ log[i].ts <= i + 1 /\ log[i].ts <= MaxLines + 1
    /\ \A j \in i .. Len(log) : log[i].ts <= log[j].ts

\* A line after the last one polled that carries its time stamp was printed later.
LateKnown ==
  \A i \in polled + 1 .. Len(log) :
    polled > 0 /\ log[i].ts = log[polled].ts => i \in late

\* latest_ts stands for the last line that was polled. Where the time for logcat comes out
\* too early, all lines polled so far are handed out again.
SinceMatches ==
  /\ kind = "dmesg" => since = IF polled > 0 THEN log[polled].ts ELSE 0
  /\ kind = "cpu" => since = polled
  /\ kind = "logcat" =>
       \/ since = NoTime /\ polled = 0
       \/ since = 0 /\ 1 .. polled \subseteq again
       \/ since = Future /\ "future" \in hist
       \/ polled > 0 /\ since = log[polled].ts + 1

Overrun == "overrun" \in hist

\* Without an overrun the streamer and the GUI take turns: the FIFO holds at most the
\* sample of the latest batch, and the latest batch is not replaced between the pop of its
\* sample and the frame that works on its lines.
Turns ==
  /\ kind = "cpu" => ~latest.fresh
  /\ kind # "cpu" /\ ~Overrun =>
       /\ ~consumed => /\ fifo = <<>> /\ th # "push"
                       /\ gui \in {"frame", "aborted"} \/ ~latest.fresh
       /\ th = "push" => fifo = <<>>
       /\ fifo = <<>> \/ \E x : fifo = <<x>>

\* A new batch on its way to the GUI has no line of an earlier one, and one that the GUI
\* was given is in given.
BatchNew ==
  kind # "cpu" /\ ~Overrun /\ latest.fresh =>
    /\ th = "push" \/ fifo # <<>> => LinesOf(latest.lines) \cap given \subseteq again
    /\ ~consumed => LinesOf(latest.lines) \subseteq given

\* Every line that was given has been counted once, but for those that the frame is about
\* to work on.
CountedOnce ==
  ~Overrun => \A i \in Lines \ again :
                counted[i] = IF i \in given \ Worked THEN 1 ELSE 0

IInv ==
  /\ Typed /\ Unstarted /\ LogOrdered /\ LateKnown /\ SinceMatches /\ NoLineLost
  /\ Turns /\ BatchNew /\ CountedOnce

-----------------------------------------------------------------------------
(* Lines, tags and time stamps *)

\* The tags of each kind of log.
LEMMA TagsOf ==
  /\ Tags("dmesg") = DmesgProbes
  /\ Tags("logcat") = LogcatProbes
  /\ Tags("cpu") = {"busy", "idle"}
<1>1. \A k : Tags(k) = CASE k = "dmesg" -> DmesgProbes
                         [] k = "logcat" -> LogcatProbes
                         [] k = "cpu" -> {"busy", "idle"}
  BY Zenon DEF Tags
<1>2. "dmesg" # "logcat" /\ "dmesg" # "cpu" /\ "logcat" # "cpu"
  OBVIOUS
<1> QED
  BY <1>1, <1>2, Zenon

\* What stands in the log when atop starts: at most one line, printed in tick 1.
LEMMA OldLog ==
  ASSUME kind \in Kinds, log \in OldLogs
  PROVE  /\ log \in Seq([ts : Nat, tag : Tags(kind)])
         /\ Len(log) \in {0, 1}
         /\ \A i \in 1 .. Len(log) : log[i].ts = 1
         /\ \A i \in 1 .. Len(log) : log[i].tag \notin {"TIME_invoke", "TIME_ioctl"}
<1>1. CASE log = <<>>
  BY <1>1
<1>2. CASE log # <<>>
  <2>1. log = <<[ts |-> 1, tag |-> CASE kind = "dmesg"  -> "IOCTL"
                                    [] kind = "logcat" -> "tflite"
                                    [] kind = "cpu"    -> "busy"]>>
    BY <1>2, Zenon DEF OldLogs
  <2>2. PICK g : g = CASE kind = "dmesg"  -> "IOCTL"
                       [] kind = "logcat" -> "tflite"
                       [] kind = "cpu"    -> "busy"
    BY Zenon
  <2>3. /\ kind = "dmesg"  => g = "IOCTL"
        /\ kind = "logcat" => g = "tflite"
        /\ kind = "cpu"    => g = "busy"
    <3>1. "dmesg" # "logcat" /\ "dmesg" # "cpu" /\ "logcat" # "cpu"
      OBVIOUS
    <3> QED
      BY <2>2, <3>1, Zenon
  <2>4. g \in Tags(kind)
    BY <2>3, TagsOf DEF Kinds, DmesgProbes, LogcatProbes
  <2>5. log = <<[ts |-> 1, tag |-> g]>>
    BY <2>1, <2>2, Zenon
  <2>6. g \notin {"TIME_invoke", "TIME_ioctl"}
    BY <2>3 DEF Kinds
  <2>7. log \in Seq([ts : Nat, tag : Tags(kind)]) /\ Len(log) = 1 /\ log[1].ts = 1
    BY <2>4, <2>5
  <2>8. log[1].tag = g
    BY <2>5
  <2>9. \A i \in 1 .. Len(log) : i = 1
    BY <2>7
  <2> QED
    BY <2>6, <2>7, <2>8, <2>9
<1> QED
  BY <1>1, <1>2

\* What a line of the log is.
LEMMA LogEntries ==
  ASSUME Typed
  PROVE  /\ Len(log) \in Nat
         /\ \A i \in 1 .. Len(log) : log[i].ts \in Nat /\ log[i].tag \in Tags(kind)
<1> DEFINE R == [ts : Nat, tag : Tags(kind)]
<1>1. log \in Seq(R)
  BY DEF Typed
<1>2. \A r \in R : r.ts \in Nat /\ r.tag \in Tags(kind)
  OBVIOUS
<1> HIDE DEF R
<1>3. Len(log) \in Nat /\ \A i \in 1 .. Len(log) : log[i] \in R
  BY <1>1
<1> QED
  BY <1>2, <1>3

\* Sorting lines by their tag keeps them all.
LEMMA ByTagKeeps ==
  ASSUME Typed, NEW S, S \subseteq 1 .. Len(log)
  PROVE  /\ ByTag(S) \in [Tags(kind) -> SUBSET S]
         /\ LinesOf(ByTag(S)) = S
<1>1. \A i \in S : log[i].tag \in Tags(kind)
  BY LogEntries
<1>2. ByTag(S) = [g \in Tags(kind) |-> {i \in S : log[i].tag = g}]
  BY DEF ByTag
<1>3. ByTag(S) \in [Tags(kind) -> SUBSET S] /\ DOMAIN ByTag(S) = Tags(kind)
  BY <1>2
<1>4. \A i \in S : i \in ByTag(S)[log[i].tag]
  BY <1>1, <1>2
<1>5. LinesOf(ByTag(S)) = S
  BY <1>1, <1>3, <1>4 DEF LinesOf
<1> QED
  BY <1>3, <1>5

\* The newest of lines that include the last of the log is the last.
LEMMA LastIsNewest ==
  ASSUME Typed, LogOrdered, NEW S, S \subseteq 1 .. Len(log), Len(log) \in S
  PROVE  LastTs(S) = log[Len(log)].ts
<1> DEFINE T == {log[i].ts : i \in S}
           m == log[Len(log)].ts
<1>1. \A i \in 1 .. Len(log) : log[i].ts \in Nat /\ log[i].ts <= m
  BY LogEntries DEF LogOrdered
<1>2. m \in T /\ \A y \in T : y \in Nat /\ m >= y
  BY <1>1
<1>3. LastTs(S) = CHOOSE x \in T : \A y \in T : x >= y
  BY DEF LastTs, Max
<1> HIDE DEF T, m
<1>4. LastTs(S) \in T /\ \A y \in T : LastTs(S) >= y
  BY <1>2, <1>3
<1>5. LastTs(S) = m
  BY <1>2, <1>4
<1> QED
  BY <1>5 DEF m

\* The lines of a batch are among those its tags may hold.
LEMMA LinesBounded ==
  ASSUME NEW G, NEW S, NEW batch \in [G -> SUBSET S]
  PROVE  LinesOf(batch) \subseteq S
BY DEF LinesOf

-----------------------------------------------------------------------------
(* The device *)

\* A line that the device prints, of whatever tag, keeps the invariant.
LEMMA KeepsEmit ==
  ASSUME IInv, NEW tag \in Tags(kind), Emit(tag)
  PROVE  IInv'
<1>1. /\ th = "more" /\ Len(log) < MaxLines
      /\ UNCHANGED <<kind, since, th, latest, polled, lost, again, fifo, gui, hist>>
      /\ UNCHANGED <<window, exiting, consumed, given, counted>>
  BY DEF Emit, streamVars, frameVars
<1>2. /\ Typed /\ Unstarted /\ LogOrdered /\ LateKnown /\ SinceMatches /\ NoLineLost
      /\ Turns /\ BatchNew /\ CountedOnce
  BY DEF IInv
<1>3. PICK ts \in {LastPrinted, LastPrinted + 1} :
        /\ log' = Append(log, [ts |-> ts, tag |-> tag])
        /\ late' = IF polled > 0 /\ ts = log[polled].ts THEN late \cup {Len(log) + 1} ELSE late
  BY DEF Emit
<1>4. /\ log \in Seq([ts : Nat, tag : Tags(kind)]) /\ Len(log) \in Nat
      /\ polled \in 0 .. Len(log)
      /\ \A i \in 1 .. Len(log) : log[i].ts \in Nat
  BY <1>2, LogEntries DEF Typed
<1>5. /\ ts \in Nat /\ ts >= 1 /\ ts <= Len(log) + 2 /\ ts <= MaxLines + 1
      /\ \A i \in 1 .. Len(log) : log[i].ts <= ts
  <2>1. CASE log = <<>>
    BY <1>1, <1>3, <2>1, ConstantsOK DEF LastPrinted
  <2>2. CASE log # <<>>
    <3>1. Len(log) \in 1 .. Len(log) /\ LastPrinted = log[Len(log)].ts
      BY <1>4, <2>2 DEF LastPrinted
    <3>2. /\ LastPrinted \in Nat /\ LastPrinted >= 1 /\ LastPrinted <= Len(log) + 1
          /\ \A i \in 1 .. Len(log) : log[i].ts <= LastPrinted
      BY <1>2, <1>4, <3>1 DEF LogOrdered
    <3>3. ts = LastPrinted \/ ts = LastPrinted + 1
      BY <1>3
    <3>4. MaxLines \in Nat /\ Len(log) \in Nat /\ Len(log) + 1 <= MaxLines
      BY <1>1, <1>4, ConstantsOK
    <3>5. /\ ts \in Nat /\ ts >= 1 /\ ts <= Len(log) + 2 /\ ts <= MaxLines + 1
          /\ LastPrinted <= ts
      BY ONLY <3>2, <3>3, <3>4
    <3>6. \A i \in 1 .. Len(log) : log[i].ts <= ts
      BY ONLY <1>4, <3>2, <3>5
    <3> QED
      BY <3>5, <3>6
  <2> QED
    BY <2>1, <2>2
<1>6. /\ log' \in Seq([ts : Nat, tag : Tags(kind)]) /\ Len(log') = Len(log) + 1
      /\ log'[Len(log) + 1].ts = ts
      /\ \A i \in 1 .. Len(log) : log'[i] = log[i]
  BY <1>3, <1>4, <1>5
<1>7. \A i \in 1 .. Len(log') : i \in 1 .. Len(log) \/ i = Len(log) + 1
  BY <1>4, <1>6
<1>8. Typed'
  BY <1>1, <1>2, <1>4, <1>6 DEF Typed
<1>9. Unstarted'
  BY <1>1, <1>2 DEF Unstarted
<1>10. LogOrdered'
  <2>1. \A i \in 1 .. Len(log') : /\ 1 <= log'[i].ts /\ log'[i].ts <= i + 1
                                  /\ log'[i].ts <= MaxLines + 1
    <3>1. \A i \in 1 .. Len(log) : /\ 1 <= log[i].ts /\ log[i].ts <= i + 1
                                   /\ log[i].ts <= MaxLines + 1
      BY <1>2 DEF LogOrdered
    <3>2. \A i \in 1 .. Len(log) : log'[i].ts = log[i].ts
      BY <1>6
    <3>3. ASSUME NEW i \in 1 .. Len(log')
          PROVE  1 <= log'[i].ts /\ log'[i].ts <= i + 1 /\ log'[i].ts <= MaxLines + 1
      <4>1. CASE i \in 1 .. Len(log)
        BY <3>1, <3>2, <4>1
      <4>2. CASE i = Len(log) + 1
        <5>1. log'[i].ts = ts /\ i + 1 = Len(log) + 2
          BY <1>4, <1>6, <4>2
        <5> QED
          BY <1>5, <5>1
      <4> QED
        BY <1>7, <4>1, <4>2
    <3> QED
      BY <3>3
  <2>2. ASSUME NEW i \in 1 .. Len(log'), NEW j \in i .. Len(log')
        PROVE  log'[i].ts <= log'[j].ts
    <3>1. CASE j \in 1 .. Len(log)
      <4>1. i \in 1 .. Len(log) /\ j \in i .. Len(log)
        BY <1>4, <3>1
      <4> QED
        BY <4>1, <3>1, <1>2, <1>6 DEF LogOrdered
    <3>2. CASE j = Len(log) + 1 /\ i \in 1 .. Len(log)
      BY <3>2, <1>5, <1>6
    <3>3. CASE j = Len(log) + 1 /\ i = Len(log) + 1
      BY <3>3, <1>5, <1>6
    <3> QED
      BY <1>4, <1>6, <1>7, <3>1, <3>2, <3>3
  <2> QED
    BY <2>1, <2>2 DEF LogOrdered
<1>11. LateKnown'
  <2> SUFFICES ASSUME NEW i \in polled + 1 .. Len(log'), polled > 0, log'[i].ts = log'[polled].ts
               PROVE  i \in late'
    BY <1>1 DEF LateKnown
  <2>1. log'[polled] = log[polled]
    BY <1>4, <1>6
  <2>2. CASE i = Len(log) + 1
    BY <1>3, <1>6, <2>1, <2>2
  <2>3. CASE i \in polled + 1 .. Len(log)
    <3>1. i \in 1 .. Len(log)
      BY <1>4, <2>3
    <3> QED
      BY <1>2, <1>3, <1>6, <2>1, <2>3, <3>1 DEF LateKnown
  <2>4. i = Len(log) + 1 \/ i \in polled + 1 .. Len(log)
    <3>1. polled \in Int /\ Len(log) \in Int /\ Len(log') = Len(log) + 1
      BY <1>4, <1>6
    <3> QED
      BY <3>1
  <2> QED
    BY <2>2, <2>3, <2>4
<1>12. SinceMatches'
  <2>1. polled > 0 => log'[polled] = log[polled]
    BY <1>4, <1>6
  <2> QED
    BY <1>1, <1>2, <2>1 DEF SinceMatches
<1>13. NoLineLost' /\ Turns' /\ BatchNew' /\ CountedOnce'
  BY <1>1, <1>2 DEF NoLineLost, Turns, BatchNew, CountedOnce, Overrun, Worked
<1> QED
  BY <1>8, <1>9, <1>10, <1>11, <1>12, <1>13 DEF IInv

\* Every line the device prints keeps the invariant.
LEMMA KeepsDevice ==
  ASSUME IInv, KgslIoctl \/ InvokeTime \/ IoctlTime \/ LogcatLine \/ CpuTick
  PROVE  IInv'
<1>1. PICK tag : Emit(tag) /\ \/ kind = "dmesg" /\ tag \in DmesgProbes
                              \/ kind = "logcat" /\ tag \in LogcatProbes
                              \/ kind = "cpu" /\ tag \in {"busy", "idle"}
  BY DEF KgslIoctl, InvokeTime, IoctlTime, LogcatLine, CpuTick, DmesgProbes
<1>2. tag \in Tags(kind)
  BY <1>1, TagsOf
<1> QED
  BY <1>1, <1>2, KeepsEmit

-----------------------------------------------------------------------------
(* The streamer thread *)

\* A poll keeps the invariant if it leaves out only late lines, takes lines that were
\* polled before only to hand them out again, and notes an overrun.
LEMMA KeepsPolled ==
  ASSUME IInv, NEW batch \in [Tags(kind) -> SUBSET (1 .. Len(log))], NEW fresh \in BOOLEAN,
         NEW sample, Polled(batch, fresh, sample), Running,
         hist \subseteq hist', again \subseteq again', since' \in Int, SinceMatches',
         kind # "cpu" /\ Unhandled => "overrun" \in hist',
         kind = "cpu" => ~fresh,
         "future" \in hist' \/ polled + 1 .. Len(log) \subseteq late \cup LinesOf(batch),
         kind # "cpu" => LinesOf(batch) \cap (1 .. polled) \subseteq again'
  PROVE  IInv'
<1>1. /\ th = "more" /\ th' = "push" /\ polled' = Len(log)
      /\ latest' = [id |-> latest.id + 1, fresh |-> fresh, sample |-> sample, lines |-> batch]
      /\ lost' = lost \cup ((polled + 1 .. Len(log)) \ (late \cup LinesOf(batch)))
      /\ UNCHANGED <<kind, log, first, late, fifo, gui, consumed, given, counted>>
  BY DEF Polled, Running, logVars, frameVars
<1>2. /\ Typed /\ Unstarted /\ LogOrdered /\ LateKnown /\ SinceMatches /\ NoLineLost
      /\ Turns /\ BatchNew /\ CountedOnce
  BY DEF IInv
<1>3. latest'.fresh = fresh /\ latest'.lines = batch
  BY <1>1
<1>4. Len(log) \in Nat /\ polled \in 0 .. Len(log) /\ given \subseteq 1 .. polled
  BY <1>2 DEF Typed
<1>5. Typed'
  <2>1. given \subseteq 1 .. Len(log)
    BY <1>4
  <2>2. fresh \in BOOLEAN
    OBVIOUS
  <2> QED
    BY <1>1, <1>2, <1>3, <1>4, <2>1, <2>2 DEF Typed
<1>6. Unstarted'
  BY <1>1, <1>2 DEF Unstarted
<1>7. LogOrdered'
  BY <1>1, <1>2 DEF LogOrdered
<1>8. LateKnown'
  BY <1>1, <1>4 DEF LateKnown
<1>9. NoLineLost'
  BY <1>1, <1>2 DEF NoLineLost
<1>10. kind # "cpu" /\ ~Overrun' => fifo = <<>> /\ consumed /\ ~Overrun
  BY DEF Overrun, Unhandled
<1>11. Turns'
  BY <1>1, <1>3, <1>10 DEF Turns
<1>12. BatchNew'
  <2> SUFFICES ASSUME kind # "cpu", ~Overrun', fresh
               PROVE  LinesOf(batch) \cap given \subseteq again'
    BY <1>1, <1>3, <1>10 DEF BatchNew
  <2> QED
    BY <1>4
<1>13. CountedOnce'
  <2> SUFFICES ASSUME ~Overrun', NEW i \in Lines \ again'
               PROVE  counted[i] = IF i \in given \ Worked' THEN 1 ELSE 0
    BY <1>1 DEF CountedOnce
  <2>1. ~Overrun /\ i \in Lines \ again
    BY DEF Overrun
  <2>2. Worked = {} /\ Worked' = {}
    <3>1. CASE kind = "cpu"
      BY <1>1, <1>2, <1>3, <3>1 DEF Worked, Turns
    <3>2. CASE kind # "cpu"
      BY <1>1, <1>10, <3>2 DEF Worked
    <3> QED
      BY <3>1, <3>2
  <2> QED
    BY <1>2, <2>1, <2>2 DEF CountedOnce
<1> QED
  BY <1>5, <1>6, <1>7, <1>8, <1>9, <1>11, <1>12, <1>13 DEF IInv

\* A line printed after the last poll is later than the last line polled, unless it is
\* one of the late ones.
LEMMA LaterThanPolled ==
  ASSUME IInv, polled > 0
  PROVE  /\ log[polled].ts \in Nat /\ log[polled].ts >= 1 /\ log[polled].ts <= MaxLines + 1
         /\ \A i \in polled + 1 .. Len(log) : i \notin late => log[i].ts > log[polled].ts
         /\ \A i \in 1 .. polled : log[i].ts <= log[polled].ts
         /\ log[polled].ts <= log[Len(log)].ts
<1>1. /\ LogOrdered /\ LateKnown /\ Len(log) \in Nat /\ polled \in 1 .. Len(log)
      /\ \A i \in 1 .. Len(log) : log[i].ts \in Nat
  BY LogEntries DEF IInv, Typed
<1>2. \A i \in polled + 1 .. Len(log) : log[i].ts >= log[polled].ts
  BY <1>1 DEF LogOrdered
<1>3. \A i \in polled + 1 .. Len(log) : i \notin late => log[i].ts > log[polled].ts
  BY <1>1, <1>2 DEF LateKnown
<1>4. \A i \in 1 .. polled : log[i].ts <= log[polled].ts
  BY <1>1 DEF LogOrdered
<1> QED
  BY <1>1, <1>3, <1>4 DEF LogOrdered

\* DmesgMore keeps the invariant.
LEMMA KeepsDmesgMore ==
  ASSUME IInv, DmesgMore
  PROVE  IInv'
<1> DEFINE new == {i \in 1 .. Len(log) : Newer(i)}
<1>1. /\ kind = "dmesg" /\ Running
      /\ since' = IF new = {} THEN since ELSE LastTs(new)
      /\ Polled(ByTag(new), new # {}, Interactions(ByTag(new)))
      /\ hist \subseteq hist' /\ (Unhandled => "overrun" \in hist') /\ UNCHANGED again
  BY DEF DmesgMore
<1>2. /\ polled' = Len(log) /\ UNCHANGED <<kind, log>>
  BY <1>1 DEF Polled, logVars
<1>3. /\ Typed /\ LogOrdered /\ since = IF polled > 0 THEN log[polled].ts ELSE 0
      /\ Len(log) \in Nat /\ polled \in 0 .. Len(log)
      /\ \A i \in 1 .. Len(log) : log[i].ts \in Nat /\ log[i].ts >= 1
  BY <1>1, LogEntries DEF IInv, SinceMatches, Typed, LogOrdered
<1>4. new \subseteq 1 .. Len(log) /\ \A i \in 1 .. Len(log) : i \in new <=> log[i].ts > since
  BY DEF Newer
<1>5. \A i \in polled + 1 .. Len(log) : i \in late \/ i \in new
  BY <1>3, <1>4, LaterThanPolled
<1>6. new \cap (1 .. polled) = {}
  BY <1>3, <1>4, LaterThanPolled
<1> HIDE DEF new
<1>7. since' = IF Len(log) > 0 THEN log[Len(log)].ts ELSE 0
  <2>1. CASE new = {}
    <3>1. CASE Len(log) = 0
      BY <1>1, <1>3, <2>1, <3>1
    <3>2. CASE Len(log) > 0
      <4>1. Len(log) \in 1 .. Len(log) /\ log[Len(log)].ts <= since
        BY <1>3, <1>4, <2>1, <3>2
      <4>2. polled > 0
        BY <1>3, <4>1
      <4> QED
        BY <1>1, <1>3, <2>1, <3>2, <4>1, <4>2, LaterThanPolled
    <3> QED
      BY <1>3, <3>1, <3>2
  <2>2. CASE new # {}
    <3>1. PICK i \in 1 .. Len(log) : log[i].ts > since
      BY <1>4, <2>2
    <3>2. Len(log) \in 1 .. Len(log) /\ log[Len(log)].ts >= log[i].ts
      BY <1>3, <3>1 DEF LogOrdered
    <3>3. Len(log) \in new
      BY <1>3, <1>4, <3>1, <3>2
    <3>4. LastTs(new) = log[Len(log)].ts
      BY <1>3, <1>4, <3>3, LastIsNewest
    <3> QED
      BY <1>1, <1>3, <2>2, <3>2, <3>4
  <2> QED
    BY <2>1, <2>2
<1>8. since' \in Int
  <2>1. Len(log) > 0 => Len(log) \in 1 .. Len(log)
    BY <1>3
  <2> QED
    BY <1>3, <1>7, <2>1
<1>9. SinceMatches'
  BY <1>1, <1>2, <1>7 DEF SinceMatches
<1>10. ByTag(new) \in [Tags(kind) -> SUBSET new] /\ LinesOf(ByTag(new)) = new
  BY <1>3, <1>4, ByTagKeeps
<1>11. ByTag(new) \in [Tags(kind) -> SUBSET (1 .. Len(log))]
  BY <1>4, <1>10
<1>12. polled + 1 .. Len(log) \subseteq late \cup LinesOf(ByTag(new))
  BY <1>5, <1>10
<1>13. LinesOf(ByTag(new)) \cap (1 .. polled) \subseteq again'
  BY <1>6, <1>10
<1>14. (new # {}) \in BOOLEAN
  OBVIOUS
<1> QED
  BY <1>1, <1>8, <1>9, <1>11, <1>12, <1>13, <1>14, KeepsPolled

\* LogcatMore keeps the invariant.
LEMMA KeepsLogcatMore ==
  ASSUME IInv, LogcatMore
  PROVE  IInv'
<1> DEFINE read == Logcat
           batch == [g \in Tags(kind) |->
                       IF ByTag(read)[g] = {} THEN latest.lines[g] ELSE ByTag(read)[g]]
           fresh == IF read = {} THEN FALSE ELSE since # NoTime \/ latest.fresh
<1>1. /\ kind = "logcat" /\ Running
      /\ \/ read = {} /\ since' = since
         \/ read # {} /\ since' \in NextSince(LastTs(read))
      /\ Polled(batch, fresh, 0)
      /\ again' = again \cup (LinesOf(batch) \ read)
                        \cup (IF since' = 0 THEN 1 .. Len(log) ELSE {})
      /\ hist' = hist \cup (IF Unhandled THEN {"overrun"} ELSE {})
                      \cup (IF since' = Future THEN {"future"} ELSE {})
  BY DEF LogcatMore
<1>2. /\ polled' = Len(log) /\ UNCHANGED <<kind, log>>
  BY <1>1 DEF Polled, logVars
<1>3. /\ Typed /\ LogOrdered /\ Len(log) \in Nat /\ polled \in 0 .. Len(log) /\ since \in Int
      /\ \A i \in 1 .. Len(log) :
           log[i].ts \in Nat /\ log[i].ts >= 1 /\ log[i].ts <= MaxLines + 1
      /\ latest.lines \in [Tags(kind) -> SUBSET (1 .. polled)]
      /\ MaxLines \in Nat
  BY LogEntries, ConstantsOK DEF IInv, Typed, LogOrdered
<1>4. /\ read \subseteq 1 .. Len(log)
      /\ \A i \in 1 .. Len(log) : i \in read <=> log[i].ts >= since
  BY DEF Logcat
<1>5. fresh \in BOOLEAN
  BY <1>3 DEF Typed
<1> HIDE DEF read, fresh
<1>6. ByTag(read) \in [Tags(kind) -> SUBSET read] /\ LinesOf(ByTag(read)) = read
  BY <1>3, <1>4, ByTagKeeps
<1>7. batch \in [Tags(kind) -> SUBSET (1 .. Len(log))]
  <2>1. \A g \in Tags(kind) : /\ ByTag(read)[g] \subseteq 1 .. Len(log)
                              /\ latest.lines[g] \subseteq 1 .. Len(log)
    <3>1. 1 .. polled \subseteq 1 .. Len(log)
      BY <1>3
    <3>2. \A g \in Tags(kind) : /\ ByTag(read)[g] \subseteq read
                                /\ latest.lines[g] \subseteq 1 .. polled
      BY <1>3, <1>6
    <3> QED
      BY <1>4, <3>1, <3>2
  <2> QED
    BY <2>1
<1>8. read \subseteq LinesOf(batch)
  <2>1. ASSUME NEW i \in read PROVE i \in LinesOf(batch)
    <3>1. PICK g \in DOMAIN ByTag(read) : i \in ByTag(read)[g]
      BY <1>6 DEF LinesOf
    <3>2. g \in Tags(kind) /\ i \in batch[g]
      BY <1>6, <3>1
    <3> QED
      BY <3>2 DEF LinesOf
  <2> QED
    BY <2>1
<1> HIDE DEF batch
<1>9. /\ hist \subseteq hist' /\ again \subseteq again' /\ (Unhandled => "overrun" \in hist')
      /\ LinesOf(batch) \ read \subseteq again'
      /\ (since' = 0 => 1 .. Len(log) \subseteq again')
      /\ (since' = Future => "future" \in hist')
  BY <1>1
<1>10. \/ since = NoTime /\ polled = 0
       \/ since = 0 /\ 1 .. polled \subseteq again
       \/ since = Future /\ "future" \in hist
       \/ polled > 0 /\ since = log[polled].ts + 1
  BY <1>1 DEF IInv, SinceMatches
<1>11. /\ "future" \in hist' \/ polled + 1 .. Len(log) \subseteq late \cup read
       /\ read \cap (1 .. polled) \subseteq again
  <2>1. CASE since = NoTime /\ polled = 0
    BY <1>3, <1>4, <2>1 DEF NoTime
  <2>2. CASE since = 0 /\ 1 .. polled \subseteq again
    <3>1. \A i \in polled + 1 .. Len(log) : i \in 1 .. Len(log)
      BY <1>3
    <3> QED
      BY <1>3, <1>4, <2>2, <3>1
  <2>3. CASE since = Future /\ "future" \in hist
    <3>1. read = {}
      BY <1>3, <1>4, <2>3 DEF Future
    <3> QED
      BY <1>9, <2>3, <3>1
  <2>4. CASE polled > 0 /\ since = log[polled].ts + 1
    <3>1. /\ log[polled].ts \in Nat
          /\ \A i \in polled + 1 .. Len(log) : i \notin late => log[i].ts > log[polled].ts
          /\ \A i \in 1 .. polled : log[i].ts <= log[polled].ts
      BY <2>4, LaterThanPolled
    <3>2. /\ \A i \in polled + 1 .. Len(log) : i \in 1 .. Len(log)
          /\ \A i \in 1 .. polled : i \in 1 .. Len(log)
      BY <1>3
    <3>3. \A i \in polled + 1 .. Len(log) : i \in late \/ i \in read
      BY <1>3, <1>4, <2>4, <3>1, <3>2
    <3>4. \A i \in 1 .. polled : i \notin read
      BY <1>3, <1>4, <2>4, <3>1, <3>2
    <3> QED
      BY <3>3, <3>4
  <2> QED
    BY <1>10, <2>1, <2>2, <2>3, <2>4
<1>12. since' \in Int /\ SinceMatches'
  <2>1. CASE read = {} /\ since' = since
    <3>1. \A i \in 1 .. Len(log) : log[i].ts < since
      BY <1>3, <1>4, <2>1
    <3>2. since \in {NoTime, 0} => Len(log) = 0
      <4>1. Len(log) > 0 => Len(log) \in 1 .. Len(log)
        BY <1>3
      <4> QED
        BY <1>3, <3>1, <4>1 DEF NoTime
    <3>3. polled > 0 /\ since = log[polled].ts + 1 =>
            Len(log) > 0 /\ since = log[Len(log)].ts + 1
      <4> SUFFICES ASSUME polled > 0, since = log[polled].ts + 1
                   PROVE  Len(log) > 0 /\ since = log[Len(log)].ts + 1
        OBVIOUS
      <4>1. Len(log) \in 1 .. Len(log) /\ Len(log) > 0
        BY <1>3
      <4>2. log[polled].ts \in Nat /\ log[polled].ts <= log[Len(log)].ts
        BY LaterThanPolled
      <4> QED
        BY <1>3, <3>1, <4>1, <4>2
    <3>4. since' \in Int /\ (since = 0 => 1 .. Len(log) \subseteq again')
      BY <1>3, <2>1, <3>2
    <3> QED
      BY <1>1, <1>2, <1>3, <1>9, <1>10, <2>1, <3>2, <3>3, <3>4 DEF SinceMatches
  <2>2. CASE read # {} /\ since' \in NextSince(LastTs(read))
    <3>1. PICK i \in 1 .. Len(log) : log[i].ts >= since
      BY <1>4, <2>2
    <3>2. Len(log) \in 1 .. Len(log) /\ log[Len(log)].ts >= log[i].ts
      BY <1>3, <3>1 DEF LogOrdered
    <3>3. Len(log) \in read /\ Len(log) > 0
      BY <1>3, <1>4, <3>1, <3>2
    <3>4. LastTs(read) = log[Len(log)].ts /\ log[Len(log)].ts \in Nat
      BY <1>3, <1>4, <3>2, <3>3, LastIsNewest
    <3>5. since' \in {log[Len(log)].ts + 1, 0, Future}
      BY <2>2, <3>4 DEF NextSince
    <3>6. since' \in Int
      BY <1>3, <3>4, <3>5 DEF Future
    <3> QED
      BY <1>1, <1>2, <1>9, <3>3, <3>5, <3>6 DEF SinceMatches
  <2> QED
    BY <1>1, <2>1, <2>2
<1>13. "future" \in hist' \/ polled + 1 .. Len(log) \subseteq late \cup LinesOf(batch)
  BY <1>8, <1>11
<1>14. LinesOf(batch) \cap (1 .. polled) \subseteq again'
  BY <1>9, <1>11
<1> QED
  BY <1>1, <1>5, <1>7, <1>9, <1>12, <1>13, <1>14, KeepsPolled

\* CpuMore keeps the invariant.
LEMMA KeepsCpuMore ==
  ASSUME IInv, CpuMore
  PROVE  IInv'
<1> DEFINE new == since + 1 .. Len(log)
           sample == Cardinality(new) - Cardinality(ByTag(new)["idle"])
<1>1. /\ kind = "cpu" /\ Running /\ Polled(ByTag(new), FALSE, sample)
      /\ since' = Len(log) /\ UNCHANGED <<again, hist>>
  BY DEF CpuMore
<1>2. polled' = Len(log) /\ UNCHANGED <<kind, log>>
  BY <1>1 DEF Polled, logVars
<1>3. Typed /\ Len(log) \in Nat /\ polled \in 0 .. Len(log) /\ since = polled
  BY <1>1, LogEntries DEF IInv, SinceMatches, Typed
<1>4. new \subseteq 1 .. Len(log) /\ new = polled + 1 .. Len(log)
  BY <1>3
<1> HIDE DEF new, sample
<1>5. ByTag(new) \in [Tags(kind) -> SUBSET new] /\ LinesOf(ByTag(new)) = new
  BY <1>3, <1>4, ByTagKeeps
<1>6. ByTag(new) \in [Tags(kind) -> SUBSET (1 .. Len(log))]
  BY <1>4, <1>5
<1>7. since' \in Int /\ SinceMatches'
  BY <1>1, <1>2, <1>3 DEF SinceMatches
<1>8. polled + 1 .. Len(log) \subseteq late \cup LinesOf(ByTag(new))
  BY <1>4, <1>5
<1>9. FALSE \in BOOLEAN
  OBVIOUS
<1> QED
  BY <1>1, <1>6, <1>7, <1>8, <1>9, KeepsPolled

-----------------------------------------------------------------------------
(* The FIFO and the GUI loop *)

\* What a step keeps that leaves the log and the streamer's state alone.
LEMMA StreamStays ==
  ASSUME IInv, UNCHANGED <<kind, log, late, since, latest, polled, lost, again, hist>>,
         given' \subseteq 1 .. polled, counted' \in [Lines -> Int], consumed' \in BOOLEAN,
         gui' \in {"reqs", "start"} => gui \in {"reqs", "start"} /\ th' = th
  PROVE  Typed' /\ Unstarted' /\ LogOrdered' /\ LateKnown' /\ SinceMatches' /\ NoLineLost'
<1>1. Typed /\ Unstarted /\ LogOrdered /\ LateKnown /\ SinceMatches /\ NoLineLost
  BY DEF IInv
<1>2. Typed'
  BY <1>1 DEF Typed
<1>3. Unstarted'
  BY <1>1 DEF Unstarted, OldLogs
<1>4. LogOrdered'
  BY <1>1 DEF LogOrdered
<1>5. LateKnown'
  BY <1>1 DEF LateKnown
<1>6. SinceMatches'
  BY <1>1 DEF SinceMatches
<1>7. NoLineLost'
  BY <1>1 DEF NoLineLost
<1> QED
  BY <1>2, <1>3, <1>4, <1>5, <1>6, <1>7

\* What it keeps if the GUI is between a frame and the next pop.
LEMMA KeepsGuiMove ==
  ASSUME IInv, UNCHANGED <<kind, log, late, since, latest, polled, lost, again, hist, fifo>>,
         UNCHANGED <<given, counted, consumed>>,
         gui \notin {"frame", "aborted"},
         gui' \in {"reqs", "start"} => gui \in {"reqs", "start"} /\ th' = th,
         th' = "push" => th = "push"
  PROVE  IInv'
<1>1. /\ Typed /\ Turns /\ BatchNew /\ CountedOnce
  BY DEF IInv
<1>2. given \subseteq 1 .. polled /\ counted \in [Lines -> Int] /\ consumed \in BOOLEAN
  BY <1>1 DEF Typed
<1>3. Typed' /\ Unstarted' /\ LogOrdered' /\ LateKnown' /\ SinceMatches' /\ NoLineLost'
  BY <1>2, StreamStays
<1>4. Turns'
  BY <1>1 DEF Turns, Overrun
<1>5. BatchNew'
  BY <1>1 DEF BatchNew, Overrun
<1>6. CountedOnce'
  BY <1>1 DEF CountedOnce, Overrun, Worked
<1> QED
  BY <1>3, <1>4, <1>5, <1>6 DEF IInv

\* StreamEnd keeps the invariant.
LEMMA KeepsStreamEnd ==
  ASSUME IInv, StreamEnd
  PROVE  IInv'
<1>1. /\ th = "more" /\ th' = "done"
      /\ UNCHANGED <<kind, log, late, since, latest, polled, lost, again, hist, fifo>>
      /\ UNCHANGED <<given, counted, consumed, gui>>
  BY DEF StreamEnd, logVars, frameVars
<1>2. /\ Typed /\ Unstarted /\ Turns /\ BatchNew /\ CountedOnce
  BY DEF IInv
<1>3. given \subseteq 1 .. polled /\ counted \in [Lines -> Int] /\ consumed \in BOOLEAN
  BY <1>2 DEF Typed
<1>4. gui \notin {"reqs", "start"}
  BY <1>1, <1>2 DEF Unstarted
<1>5. Typed' /\ Unstarted' /\ LogOrdered' /\ LateKnown' /\ SinceMatches' /\ NoLineLost'
  BY <1>1, <1>3, <1>4, StreamStays
<1>6. Turns' /\ BatchNew' /\ CountedOnce'
  BY <1>1, <1>2 DEF Turns, BatchNew, CountedOnce, Overrun, Worked
<1> QED
  BY <1>5, <1>6 DEF IInv

\* PushData keeps the invariant: without an overrun the FIFO was empty.
LEMMA KeepsPushData ==
  ASSUME IInv, PushData
  PROVE  IInv'
<1>1. /\ th = "push" /\ th' = "more" /\ fifo' = Append(fifo, latest.sample)
      /\ UNCHANGED <<kind, log, late, since, latest, polled, lost, again, hist>>
      /\ UNCHANGED <<given, counted, consumed, gui>>
  BY DEF PushData, logVars, frameVars
<1>2. /\ Typed /\ Unstarted /\ Turns /\ BatchNew /\ CountedOnce
  BY DEF IInv
<1>3. given \subseteq 1 .. polled /\ counted \in [Lines -> Int] /\ consumed \in BOOLEAN
  BY <1>2 DEF Typed
<1>4. gui \notin {"reqs", "start"}
  BY <1>1, <1>2 DEF Unstarted
<1>5. Typed' /\ Unstarted' /\ LogOrdered' /\ LateKnown' /\ SinceMatches' /\ NoLineLost'
  BY <1>1, <1>3, <1>4, StreamStays
<1>6. kind # "cpu" /\ ~Overrun => fifo' = <<latest.sample>> /\ consumed
  BY <1>1, <1>2 DEF Turns
<1>7. Turns'
  BY <1>1, <1>2, <1>6 DEF Turns, Overrun
<1>8. BatchNew' /\ CountedOnce'
  BY <1>1, <1>2 DEF BatchNew, CountedOnce, Overrun, Worked
<1> QED
  BY <1>5, <1>7, <1>8 DEF IInv

\* Start keeps the invariant.
LEMMA KeepsStart ==
  ASSUME IInv, Start
  PROVE  IInv'
<1>1. /\ gui = "start" /\ gui' = "poll" /\ th' = "more" /\ since' = FirstSince
      /\ polled' = IF kind = "dmesg" THEN Len(log) ELSE 0
      /\ UNCHANGED <<kind, log, late, latest, lost, again, fifo, consumed, given, counted, hist>>
  BY DEF Start
<1>2. /\ Typed /\ Unstarted /\ LogOrdered /\ NoLineLost /\ Turns /\ BatchNew /\ CountedOnce
  BY DEF IInv
<1>3. th = "none" /\ log \in OldLogs /\ polled = 0 /\ kind \in Kinds
  BY <1>1, <1>2 DEF Unstarted, Typed
<1>4. /\ log \in Seq([ts : Nat, tag : Tags(kind)])
      /\ Len(log) \in {0, 1} /\ \A i \in 1 .. Len(log) : log[i].ts = 1
  BY <1>3, OldLog
<1>5. /\ kind = "dmesg"  => since' = Len(log)
      /\ kind = "logcat" => since' = NoTime
      /\ kind = "cpu"    => since' = 0
  <2>1. FirstSince = CASE kind = "dmesg"  -> Len(log)
                       [] kind = "logcat" -> NoTime
                       [] kind = "cpu"    -> 0
    BY Zenon DEF FirstSince
  <2>2. "dmesg" # "logcat" /\ "dmesg" # "cpu" /\ "logcat" # "cpu"
    OBVIOUS
  <2> QED
    BY <1>1, <2>1, <2>2, Zenon
<1>6. since' \in Int /\ polled' \in 0 .. Len(log) /\ polled' \in Nat
  BY <1>1, <1>3, <1>4, <1>5 DEF Kinds, NoTime
<1>7. 1 .. polled = {}
  BY <1>3
<1>8. given = {} /\ latest.lines \in [Tags(kind) -> SUBSET {}]
  BY <1>2, <1>7 DEF Typed
<1>9. latest.lines \in [Tags(kind) -> SUBSET (1 .. polled')]
  BY <1>8
<1>10. Typed'
  BY <1>1, <1>2, <1>4, <1>6, <1>8, <1>9 DEF Typed
<1>11. Unstarted' /\ LogOrdered'
  BY <1>1, <1>2 DEF Unstarted, LogOrdered
<1>12. LateKnown'
  BY <1>1, <1>4 DEF LateKnown
<1>13. SinceMatches'
  BY <1>1, <1>4, <1>5 DEF SinceMatches
<1>14. NoLineLost'
  BY <1>1, <1>2 DEF NoLineLost
<1>15. Turns'
  BY <1>1, <1>2, <1>3 DEF Turns, Overrun
<1>16. BatchNew' /\ CountedOnce'
  BY <1>1, <1>2, <1>3 DEF BatchNew, CountedOnce, Overrun, Worked
<1> QED
  BY <1>10, <1>11, <1>12, <1>13, <1>14, <1>15, <1>16 DEF IInv

\* PopData keeps the invariant: the lines of the batch that was popped are due in this
\* frame.
LEMMA KeepsPopData ==
  ASSUME IInv, PopData
  PROVE  IInv'
<1>1. /\ gui = "pop" /\ gui' = "frame"
      /\ UNCHANGED <<kind, log, late, since, th, latest, polled, lost, again, hist, counted>>
  BY DEF PopData, logVars, streamVars
<1>2. /\ Typed /\ Turns /\ BatchNew /\ CountedOnce
  BY DEF IInv
<1>3. given \subseteq 1 .. polled /\ counted \in [Lines -> Int] /\ consumed \in BOOLEAN
  BY <1>2 DEF Typed
<1>4. CASE UNCHANGED <<fifo, given, consumed>>
  <2>1. Typed' /\ Unstarted' /\ LogOrdered' /\ LateKnown' /\ SinceMatches' /\ NoLineLost'
    BY <1>1, <1>3, <1>4, StreamStays
  <2>2. Turns'
    BY <1>1, <1>2, <1>4 DEF Turns, Overrun
  <2>3. BatchNew' /\ CountedOnce'
    BY <1>1, <1>2, <1>4 DEF BatchNew, CountedOnce, Overrun, Worked
  <2> QED
    BY <2>1, <2>2, <2>3 DEF IInv
<1>5. CASE /\ fifo # <<>> /\ fifo' = Tail(fifo) /\ consumed' = FALSE
           /\ given' = IF "overrun" \notin hist /\ latest.fresh
                       THEN given \cup LinesOf(latest.lines) ELSE given
  <2> DEFINE L == LinesOf(latest.lines)
  <2>1. L \subseteq 1 .. polled /\ latest.fresh \in BOOLEAN
    <3>1. latest.lines \in [Tags(kind) -> SUBSET (1 .. polled)]
      BY <1>2 DEF Typed
    <3> QED
      BY <1>2, <3>1, LinesBounded DEF Typed
  <2> HIDE DEF L
  <2>2. given' \subseteq 1 .. polled
    BY <1>3, <1>5, <2>1 DEF L
  <2>3. consumed' \in BOOLEAN
    BY <1>5
  <2>4. Typed' /\ Unstarted' /\ LogOrdered' /\ LateKnown' /\ SinceMatches' /\ NoLineLost'
    BY <1>1, <1>3, <2>2, <2>3, StreamStays
  <2>5. kind # "cpu" /\ ~Overrun => fifo' = <<>> /\ th # "push" /\ consumed
    <3> SUFFICES ASSUME kind # "cpu", ~Overrun
                 PROVE  fifo' = <<>> /\ th # "push" /\ consumed
      OBVIOUS
    <3>1. /\ ~consumed => fifo = <<>>
          /\ th = "push" => fifo = <<>>
          /\ fifo = <<>> \/ \E x : fifo = <<x>>
      BY <1>2 DEF Turns
    <3>2. consumed /\ th # "push"
      BY <1>5, <3>1
    <3>3. PICK x : fifo = <<x>>
      BY <1>5, <3>1
    <3> QED
      BY <1>5, <3>2, <3>3
  <2>6. Turns'
    BY <1>1, <1>2, <1>5, <2>5 DEF Turns, Overrun
  <2>7. BatchNew'
    <3> SUFFICES ASSUME kind # "cpu", ~Overrun, latest.fresh
                 PROVE  /\ ~(th = "push" \/ fifo' # <<>>)
                        /\ LinesOf(latest.lines) \subseteq given'
      BY <1>1 DEF BatchNew, Overrun
    <3> QED
      BY <1>5, <2>5 DEF Overrun
  <2>8. CountedOnce'
    <3> SUFFICES ASSUME ~Overrun, NEW i \in Lines \ again
                 PROVE  counted[i] = IF i \in given' \ Worked' THEN 1 ELSE 0
      BY <1>1 DEF CountedOnce, Overrun
    <3>1. CASE latest.fresh
      <4>1. kind # "cpu"
        BY <1>2, <3>1 DEF Turns
      <4>2. Worked = {} /\ Worked' = L /\ given' = given \cup L
        BY <1>1, <1>5, <2>5, <3>1, <4>1 DEF Worked, L, Overrun
      <4>3. i \in L => i \notin given
        BY <1>2, <1>5, <3>1, <4>1 DEF BatchNew, L
      <4> QED
        BY <1>2, <4>2, <4>3 DEF CountedOnce
    <3>2. CASE ~latest.fresh
      <4>1. Worked = {} /\ Worked' = {} /\ given' = given
        BY <1>1, <1>5, <3>2 DEF Worked
      <4> QED
        BY <1>2, <4>1 DEF CountedOnce
    <3> QED
      BY <3>1, <3>2
  <2> QED
    BY <2>4, <2>6, <2>7, <2>8 DEF IInv
<1> QED
  BY <1>4, <1>5 DEF PopData, Pop

\* Frame keeps the invariant: it counts the lines it works on.
LEMMA KeepsFrame ==
  ASSUME IInv, Frame
  PROVE  IInv'
<1>1. /\ gui = "frame" /\ gui' \in {"poll", "join"} /\ counted' = Counted /\ consumed' = TRUE
      /\ UNCHANGED <<kind, log, late, since, th, latest, polled, lost, again, hist, fifo, given>>
  BY DEF Frame, streamVars
<1>2. /\ Typed /\ Turns /\ BatchNew /\ CountedOnce
  BY DEF IInv
<1>3. given \subseteq 1 .. polled /\ counted \in [Lines -> Int] /\ consumed' \in BOOLEAN
  BY <1>1, <1>2 DEF Typed
<1>4. /\ Overrun => counted' = counted
      /\ ~Overrun => counted' = [i \in Lines |-> counted[i] + (IF i \in Worked THEN 1 ELSE 0)]
  BY <1>1 DEF Counted, Overrun
<1>5. counted' \in [Lines -> Int]
  BY <1>3, <1>4
<1>6. Typed' /\ Unstarted' /\ LogOrdered' /\ LateKnown' /\ SinceMatches' /\ NoLineLost'
  BY <1>1, <1>3, <1>5, StreamStays
<1>7. Turns' /\ BatchNew'
  BY <1>1, <1>2 DEF Turns, BatchNew, Overrun
<1>8. CountedOnce'
  <2> SUFFICES ASSUME ~Overrun, NEW i \in Lines \ again
               PROVE  counted'[i] = IF i \in given \ Worked' THEN 1 ELSE 0
    BY <1>1 DEF CountedOnce, Overrun
  <2>1. Worked' = {}
    BY <1>1 DEF Worked
  <2>2. i \in Worked => i \in given
    BY <1>2 DEF Worked, Turns, BatchNew
  <2>3. counted[i] = IF i \in given \ Worked THEN 1 ELSE 0
    BY <1>2 DEF CountedOnce
  <2>4. counted'[i] = counted[i] + (IF i \in Worked THEN 1 ELSE 0)
    BY <1>4
  <2> QED
    BY <2>1, <2>2, <2>3, <2>4
<1> QED
  BY <1>6, <1>7, <1>8 DEF IInv

-----------------------------------------------------------------------------
(* The theorems *)

\* main is entered with nothing polled, given or counted.
LEMMA InitIInv == Init => IInv
<1> SUFFICES ASSUME Init PROVE IInv
  OBVIOUS
<1>1. /\ kind \in Kinds /\ log \in OldLogs /\ since = 0 /\ th = "none" /\ fifo = <<>>
      /\ latest = [id |-> 0, fresh |-> FALSE, sample |-> 0, lines |-> [g \in Tags(kind) |-> {}]]
      /\ gui = "reqs" /\ consumed = FALSE /\ polled = 0
      /\ late = {} /\ lost = {} /\ given = {} /\ again = {} /\ hist = {}
      /\ counted = [i \in Lines |-> 0]
  BY DEF Init
<1>2. /\ log \in Seq([ts : Nat, tag : Tags(kind)])
      /\ Len(log) \in {0, 1} /\ \A i \in 1 .. Len(log) : log[i].ts = 1
  BY <1>1, OldLog
<1>3. latest.fresh = FALSE /\ latest.lines = [g \in Tags(kind) |-> {}]
  BY <1>1
<1>4. latest.fresh \in BOOLEAN /\ consumed \in BOOLEAN
  BY <1>1, <1>3
<1>5. Typed
  BY <1>1, <1>2, <1>3, <1>4 DEF Typed
<1>6. Unstarted
  BY <1>1 DEF Unstarted
<1>7. LogOrdered
  BY <1>2, ConstantsOK DEF LogOrdered
<1>8. LateKnown /\ NoLineLost
  BY <1>1 DEF LateKnown, NoLineLost
<1>9. SinceMatches
  BY <1>1 DEF SinceMatches
<1>10. Turns /\ BatchNew
  BY <1>1, <1>3 DEF Turns, BatchNew
<1>11. CountedOnce
  BY <1>1 DEF CountedOnce
<1> QED
  BY <1>5, <1>6, <1>7, <1>8, <1>9, <1>10, <1>11 DEF IInv

\* Abort keeps the invariant: no line is worked on any more.
LEMMA KeepsAbort ==
  ASSUME IInv, Abort
  PROVE  IInv'
<1>1. /\ gui' = "aborted"
      /\ UNCHANGED <<kind, log, late, since, th, latest, polled, lost, again, hist, fifo>>
      /\ UNCHANGED <<given, counted, consumed>>
  BY DEF Abort, logVars, streamVars, frameVars
<1>2. /\ Typed /\ Turns /\ BatchNew /\ CountedOnce
  BY DEF IInv
<1>3. given \subseteq 1 .. polled /\ counted \in [Lines -> Int] /\ consumed \in BOOLEAN
  BY <1>2 DEF Typed
<1>4. Typed' /\ Unstarted' /\ LogOrdered' /\ LateKnown' /\ SinceMatches' /\ NoLineLost'
  BY <1>1, <1>3, StreamStays
<1>5. Turns' /\ BatchNew' /\ CountedOnce'
  BY <1>1, <1>2 DEF Turns, BatchNew, CountedOnce, Overrun, Worked
<1> QED
  BY <1>4, <1>5 DEF IInv

\* Every step keeps the invariant.
LEMMA NextIInv == IInv /\ [Next]_vars => IInv'
<1> SUFFICES ASSUME IInv, [Next]_vars PROVE IInv'
  OBVIOUS
<1>1. CASE UNCHANGED vars
  <2>1. /\ UNCHANGED <<kind, log, late, since, th, latest, polled, lost, again, hist, fifo>>
        /\ UNCHANGED <<given, counted, consumed, gui>>
    BY <1>1 DEF vars, logVars, streamVars, frameVars
  <2>2. /\ Typed /\ Turns /\ BatchNew /\ CountedOnce
    BY DEF IInv
  <2>3. given \subseteq 1 .. polled /\ counted \in [Lines -> Int] /\ consumed \in BOOLEAN
    BY <2>2 DEF Typed
  <2>4. Typed' /\ Unstarted' /\ LogOrdered' /\ LateKnown' /\ SinceMatches' /\ NoLineLost'
    BY <2>1, <2>3, StreamStays
  <2>5. Turns' /\ BatchNew' /\ CountedOnce'
    BY <2>1, <2>2 DEF Turns, BatchNew, CountedOnce, Overrun, Worked
  <2> QED
    BY <2>4, <2>5 DEF IInv
<1>2. CASE CheckReqs
  BY <1>2, KeepsGuiMove DEF CheckReqs, logVars, streamVars, frameVars
<1>3. CASE PollEvents \/ WindowClosed
  BY <1>3, KeepsGuiMove DEF PollEvents, WindowClosed, logVars, streamVars, frameVars
<1>4. CASE JoinThreads
  BY <1>4, KeepsGuiMove DEF JoinThreads, logVars, streamVars, frameVars
<1>5. CASE Next /\ ~(CheckReqs \/ PollEvents \/ WindowClosed \/ JoinThreads)
  BY <1>5, KeepsDevice, KeepsDmesgMore, KeepsLogcatMore, KeepsCpuMore, KeepsStreamEnd,
     KeepsPushData, KeepsStart, KeepsPopData, KeepsFrame, KeepsAbort DEF Next
<1> QED
  BY <1>1, <1>2, <1>3, <1>4, <1>5

\* IInv holds in every state that a streamer, its FIFO and the GUI loop reach.
THEOREM Inductive == Spec => []IInv
BY InitIInv, NextIInv, PTL DEF Spec

\* A line that was in the log at a poll has been in a batch, unless it carries the time
\* stamp of a line polled before it or the time for logcat came out in the future.
THEOREM NoLineLostHolds == Spec => []NoLineLost
<1>1. IInv => NoLineLost
  BY DEF IInv
<1> QED
  BY <1>1, Inductive, PTL

\* Without an overrun, every line of the new batches that were popped is worked on exactly
\* once, and no other line is.
THEOREM LinesCountedOnceHolds == Spec => []LinesCountedOnce
<1>1. IInv => LinesCountedOnce
  <2> SUFFICES ASSUME IInv, gui = "poll", "overrun" \notin hist, NEW i \in Lines, i \notin again
               PROVE  counted[i] = IF i \in given THEN 1 ELSE 0
    BY DEF LinesCountedOnce
  <2>1. Worked = {}
    BY DEF IInv, Turns, Overrun, Worked
  <2> QED
    BY <2>1 DEF IInv, CountedOnce, Overrun
<1> QED
  BY <1>1, Inductive, PTL

-----------------------------------------------------------------------------
(* Sums: the operators of the community modules fold a function that is defined by *)
(* recursion over the subsets of a finite set, so what they compute is shown on a    *)
(* smallest subset for which it fails.                                               *)

\* Among subsets of a finite set there is one that no longer is among them when it loses an
\* element.
LEMMA SmallestSubset ==
  ASSUME NEW S, IsFiniteSet(S), NEW B, B \subseteq SUBSET S, B # {}
  PROVE  \E u \in B : \A x \in u : u \ {x} \notin B
<1> DEFINE R == StrictSubsetOrdering(S)
<1>1. IsWellFoundedOn(R, SUBSET S)
  BY FS_StrictSubsetOrderingWellFounded, FS_FiniteSubsetsOfFinite
<1>2. \A u, w \in SUBSET S : u \subseteq w /\ u # w => <<u, w>> \in R
  BY DEF StrictSubsetOrdering
<1> HIDE DEF R
<1>3. PICK u \in B : \A w \in B : ~(<<w, u>> \in R)
  BY <1>1, WFMin
<1>4. ASSUME NEW x \in u, u \ {x} \in B
      PROVE  FALSE
  <2>1. u \in SUBSET S /\ u \ {x} \in SUBSET S /\ u \ {x} \subseteq u /\ u \ {x} # u
    OBVIOUS
  <2> QED
    BY <1>2, <1>3, <1>4, <2>1
<1> QED
  BY <1>4

\* f gives every subset of S the sum of what v gives its elements.
Sums(S, v, f) ==
  /\ f \in [SUBSET S -> Int]
  /\ f[{}] = 0
  /\ \A u \in SUBSET S : \A x \in u : f[u] = f[u \ {x}] + v[x]

\* Finitely many integers have a sum.
LEMMA SumsExist ==
  ASSUME NEW S, IsFiniteSet(S), NEW v, \A x \in S : v[x] \in Int
  PROVE  \E f : Sums(S, v, f)
<1> DEFINE B == {T \in SUBSET S : ~ \E f : Sums(T, v, f)}
<1>1. SUFFICES ASSUME B # {} PROVE FALSE
  <2>1. S \in SUBSET S
    OBVIOUS
  <2> QED
    BY <1>1, <2>1
<1>2. PICK T \in B : \A x \in T : T \ {x} \notin B
  BY <1>1, SmallestSubset
<1>3. T \in SUBSET S /\ ~ \E f : Sums(T, v, f)
  BY <1>2
<1>4. CASE T = {}
  <2> DEFINE f == [u \in SUBSET T |-> 0]
  <2>1. \A u \in SUBSET T : u = {}
    BY <1>4
  <2>2. Sums(T, v, f)
    BY <2>1 DEF Sums
  <2> QED
    BY <1>3, <2>2
<1>5. CASE T # {}
  <2>1. PICK x \in T : TRUE
    BY <1>5
  <2>2. T \ {x} \in SUBSET S /\ T \ {x} \notin B
    BY <1>2
  <2>3. PICK g : Sums(T \ {x}, v, g)
    BY <2>2
  <2> DEFINE f == [u \in SUBSET T |-> g[u \ {x}] + (IF x \in u THEN v[x] ELSE 0)]
  <2>4. \A u \in SUBSET T : g[u \ {x}] \in Int /\ u \ {x} \in SUBSET (T \ {x})
    BY <2>3 DEF Sums
  <2>5. v[x] \in Int /\ \A y \in T : v[y] \in Int
    BY <1>3
  <2>6. f \in [SUBSET T -> Int]
    <3>1. ASSUME NEW u \in SUBSET T
          PROVE  g[u \ {x}] + (IF x \in u THEN v[x] ELSE 0) \in Int
      <4>1. g[u \ {x}] \in Int
        BY <2>4
      <4> QED
        BY <2>5, <4>1
    <3> QED
      BY <3>1, Zenon
  <2>7. f[{}] = 0
    <3>1. {} \ {x} = {} /\ g[{}] = 0
      BY <2>3 DEF Sums
    <3> QED
      BY <3>1
  <2>8. ASSUME NEW u \in SUBSET T, NEW y \in u
        PROVE  f[u] = f[u \ {y}] + v[y]
    <3>1. u \ {y} \in SUBSET T
      OBVIOUS
    <3>2. CASE y = x
      <4>1. (u \ {y}) \ {x} = u \ {x}
        BY <3>2
      <4>2. f[u] = g[u \ {x}] + v[x] /\ f[u \ {y}] = g[u \ {x}] + 0
        BY <3>1, <3>2, <4>1
      <4>3. g[u \ {x}] \in Int
        BY <2>4
      <4> HIDE DEF f
      <4> QED
        BY <2>5, <3>2, <4>2, <4>3
    <3>3. CASE y # x
      <4>1. (u \ {y}) \ {x} = (u \ {x}) \ {y} /\ y \in u \ {x} /\ (x \in u \ {y} <=> x \in u)
        BY <3>3
      <4>2. g[u \ {x}] = g[(u \ {x}) \ {y}] + v[y]
        BY <2>3, <2>4, <4>1 DEF Sums
      <4>3. f[u] = g[u \ {x}] + (IF x \in u THEN v[x] ELSE 0)
        OBVIOUS
      <4>4. f[u \ {y}] = g[(u \ {x}) \ {y}] + (IF x \in u THEN v[x] ELSE 0)
        BY <3>1, <4>1
      <4>5. g[(u \ {x}) \ {y}] \in Int /\ v[y] \in Int
        BY <2>4, <2>5, <3>1, <4>1
      <4> HIDE DEF f
      <4> QED
        BY <2>5, <4>2, <4>3, <4>4, <4>5
    <3> QED
      BY <3>2, <3>3
  <2> HIDE DEF f
  <2>9. Sums(T, v, f)
    BY <2>6, <2>7, <2>8 DEF Sums
  <2> QED
    BY <1>3, <2>9
<1> QED
  BY <1>4, <1>5

\* g adds up what v gives the elements of a subset of S in some order.
AddsUp(S, v, g) ==
  /\ g[{}] = 0
  /\ \A u \in SUBSET S : u # {} => \E x \in u : g[u] = g[u \ {x}] + v[x]

\* The order does not matter.
LEMMA SumsOne ==
  ASSUME NEW S, IsFiniteSet(S), NEW v, NEW f, Sums(S, v, f), NEW g, AddsUp(S, v, g)
  PROVE  g[S] = f[S]
<1> DEFINE B == {u \in SUBSET S : g[u] # f[u]}
<1>1. SUFFICES ASSUME B # {} PROVE FALSE
  <2>1. S \in SUBSET S
    OBVIOUS
  <2> QED
    BY <1>1, <2>1
<1>2. PICK u \in B : \A x \in u : u \ {x} \notin B
  BY <1>1, SmallestSubset
<1>3. u \in SUBSET S /\ g[u] # f[u] /\ u # {}
  BY <1>2 DEF Sums, AddsUp
<1>4. PICK x \in u : g[u] = g[u \ {x}] + v[x]
  BY <1>3 DEF AddsUp
<1>5. u \ {x} \in SUBSET S /\ g[u \ {x}] = f[u \ {x}]
  BY <1>2, <1>3
<1> QED
  BY <1>3, <1>4, <1>5 DEF Sums

\* What FoldLeft recurs on: a sequence is taken apart from its end.
Unfolds(s, f) ==
  f = [u \in SUBSET (DOMAIN s) |-> IF u = {} THEN 0 ELSE f[u \ {Max(u)}] + s[Max(u)]]

\* The sum of a sequence is a value of that function.
LEMMA AddedUnfolds ==
  ASSUME NEW s
  PROVE  Added(s) = (CHOOSE f : Unfolds(s, f))[DOMAIN s]
BY Zenon DEF Added, FoldLeft, MapThenFoldSet, Unfolds

\* The largest of finitely many indices is one of them.
LEMMA MaxIn ==
  ASSUME NEW n \in Nat, NEW u \in SUBSET (1 .. n), u # {}
  PROVE  Max(u) \in u
<1> DEFINE B == {w \in SUBSET (1 .. n) : w # {} /\ ~ \E x \in w : \A y \in w : x >= y}
<1>1. IsFiniteSet(1 .. n)
  BY FS_Interval
<1>2. B = {}
  <2> SUFFICES ASSUME B # {} PROVE FALSE
    OBVIOUS
  <2>1. PICK w \in B : \A x \in w : w \ {x} \notin B
    BY <1>1, SmallestSubset
  <2>2. w \in SUBSET (1 .. n) /\ w # {} /\ ~ \E x \in w : \A y \in w : x >= y
    BY <2>1
  <2>3. PICK x \in w : TRUE
    BY <2>2
  <2>4. CASE w \ {x} = {}
    BY <2>2, <2>3, <2>4
  <2>5. CASE w \ {x} # {}
    <3>1. PICK z \in w \ {x} : \A y \in w \ {x} : z >= y
      BY <2>1, <2>2, <2>5
    <3> QED
      BY <2>2, <3>1
  <2> QED
    BY <2>4, <2>5
<1>3. \E x \in u : \A y \in u : x >= y
  BY <1>2
<1> QED
  BY <1>3 DEF Max

\* The sum of a sequence of integers is that of its elements.
LEMMA AddedIs ==
  ASSUME NEW s \in Seq(Int), NEW f, Sums(DOMAIN s, s, f)
  PROVE  Added(s) = f[DOMAIN s]
<1>1. DOMAIN s = 1 .. Len(s) /\ Len(s) \in Nat /\ IsFiniteSet(DOMAIN s)
  BY FS_Interval
<1>2. \A u \in SUBSET (DOMAIN s) : u # {} => Max(u) \in u
  BY <1>1, MaxIn
<1>3. Unfolds(s, f)
  <2>1. \A u \in SUBSET (DOMAIN s) : f[u] = IF u = {} THEN 0 ELSE f[u \ {Max(u)}] + s[Max(u)]
    BY <1>2 DEF Sums
  <2>2. f = [u \in SUBSET (DOMAIN s) |-> f[u]]
    BY DEF Sums
  <2> QED
    BY <2>1, <2>2, Zenon DEF Unfolds
<1>4. PICK g : Unfolds(s, g) /\ Added(s) = g[DOMAIN s]
  BY <1>3, AddedUnfolds, Zenon
<1>5. \A u \in SUBSET (DOMAIN s) : g[u] = IF u = {} THEN 0 ELSE g[u \ {Max(u)}] + s[Max(u)]
  BY <1>4, Zenon DEF Unfolds
<1>6. AddsUp(DOMAIN s, s, g)
  BY <1>2, <1>5 DEF AddsUp
<1> QED
  BY <1>1, <1>4, <1>6, SumsOne

\* A sequence of integers has a sum.
LEMMA AddedSums ==
  ASSUME NEW s \in Seq(Int)
  PROVE  \E f : Sums(DOMAIN s, s, f)
<1>1. IsFiniteSet(DOMAIN s) /\ \A x \in DOMAIN s : s[x] \in Int
  BY FS_Interval
<1> QED
  BY <1>1, SumsExist

\* An empty FIFO holds nothing.
LEMMA AddedEmpty == Added(<<>>) = 0
<1> DEFINE s == <<>>
<1>1. s \in Seq(Int) /\ DOMAIN s = {}
  OBVIOUS
<1> HIDE DEF s
<1>2. PICK f : Sums(DOMAIN s, s, f)
  BY <1>1, AddedSums
<1>3. Added(s) = f[DOMAIN s] /\ f[{}] = 0
  BY <1>1, <1>2, AddedIs DEF Sums
<1> QED
  BY <1>1, <1>3 DEF s

\* The sum of integers is an integer.
LEMMA AddedInt ==
  ASSUME NEW s \in Seq(Int)
  PROVE  Added(s) \in Int
<1>1. PICK f : Sums(DOMAIN s, s, f)
  BY AddedSums
<1>2. DOMAIN s \in SUBSET (DOMAIN s) /\ Added(s) = f[DOMAIN s]
  BY <1>1, AddedIs
<1> QED
  BY <1>1, <1>2 DEF Sums

\* A sample that is pushed adds to the sum of the FIFO.
LEMMA AddedAppend ==
  ASSUME NEW s \in Seq(Int), NEW x \in Int
  PROVE  Added(Append(s, x)) = Added(s) + x
<1> DEFINE t == Append(s, x)
           n == Len(s)
<1>1. /\ t \in Seq(Int) /\ n \in Nat /\ DOMAIN t = 1 .. n + 1 /\ DOMAIN s = 1 .. n
      /\ t[n + 1] = x /\ \A i \in 1 .. n : t[i] = s[i]
  OBVIOUS
<1> HIDE DEF t, n
<1>2. PICK f : Sums(DOMAIN t, t, f)
  BY <1>1, AddedSums
<1> DEFINE g == [u \in SUBSET (DOMAIN s) |-> f[u]]
<1>3. (DOMAIN t) \ {n + 1} = DOMAIN s /\ n + 1 \in DOMAIN t
  BY <1>1
<1>4. Sums(DOMAIN s, s, g)
  <2>1. \A u \in SUBSET (DOMAIN s) : u \in SUBSET (DOMAIN t)
    BY <1>3
  <2>2. g \in [SUBSET (DOMAIN s) -> Int] /\ g[{}] = 0
    BY <1>2, <2>1 DEF Sums
  <2>3. ASSUME NEW u \in SUBSET (DOMAIN s), NEW y \in u
        PROVE  g[u] = g[u \ {y}] + s[y]
    <3>1. u \ {y} \in SUBSET (DOMAIN s) /\ t[y] = s[y]
      BY <1>1
    <3> QED
      BY <1>2, <2>1, <3>1 DEF Sums
  <2> HIDE DEF g
  <2> QED
    BY <2>2, <2>3 DEF Sums
<1>5. Added(s) = f[DOMAIN s]
  <2>1. Added(s) = g[DOMAIN s]
    BY <1>4, AddedIs
  <2> QED
    BY <2>1
<1>6. Added(t) = f[DOMAIN t] /\ f[DOMAIN t] = f[(DOMAIN t) \ {n + 1}] + t[n + 1]
  <2>1. DOMAIN t \in SUBSET (DOMAIN t)
    OBVIOUS
  <2>2. Added(t) = f[DOMAIN t]
    BY <1>1, <1>2, AddedIs
  <2> QED
    BY <1>2, <1>3, <2>1, <2>2 DEF Sums
<1>7. Added(t) = Added(s) + x
  BY <1>1, <1>3, <1>5, <1>6
<1> QED
  BY <1>7 DEF t

\* A sample that is popped is taken off it.
LEMMA AddedTail ==
  ASSUME NEW s \in Seq(Int), s # <<>>
  PROVE  Added(s) = Head(s) + Added(Tail(s))
<1> DEFINE t == Tail(s)
           n == Len(s)
           Up(u) == {i + 1 : i \in u}
<1>1. /\ t \in Seq(Int) /\ n \in Nat /\ DOMAIN s = 1 .. n /\ DOMAIN t = 1 .. n - 1
      /\ s[1] = Head(s) /\ \A i \in 1 .. n - 1 : t[i] = s[i + 1] /\ n >= 1
  OBVIOUS
<1> HIDE DEF t, n
<1>2. PICK f : Sums(DOMAIN s, s, f)
  BY AddedSums
<1> DEFINE g == [u \in SUBSET (DOMAIN t) |-> f[Up(u)]]
<1>3. \A u \in SUBSET (DOMAIN t) : Up(u) \in SUBSET (DOMAIN s)
  BY <1>1
<1>4. Sums(DOMAIN t, t, g)
  <2>1. g \in [SUBSET (DOMAIN t) -> Int] /\ g[{}] = 0
    <3>1. Up({}) = {}
      OBVIOUS
    <3> HIDE DEF Up
    <3> QED
      BY <1>2, <1>3, <3>1 DEF Sums
  <2>2. ASSUME NEW u \in SUBSET (DOMAIN t), NEW y \in u
        PROVE  g[u] = g[u \ {y}] + t[y]
    <3>1. u \ {y} \in SUBSET (DOMAIN t) /\ t[y] = s[y + 1]
      BY <1>1
    <3>2. Up(u \ {y}) = Up(u) \ {y + 1} /\ y + 1 \in Up(u)
      <4>1. \A i \in u : i \in Int /\ (i + 1 = y + 1 => i = y)
        BY <1>1
      <4>2. \A i \in u \ {y} : i + 1 # y + 1 /\ i \in u
        BY <4>1
      <4> QED
        BY <4>1, <4>2, Zenon
    <3> HIDE DEF Up
    <3>3. f[Up(u)] = f[Up(u) \ {y + 1}] + s[y + 1]
      BY <1>2, <1>3, <3>2 DEF Sums
    <3> QED
      BY <3>1, <3>2, <3>3
  <2> HIDE DEF g
  <2> QED
    BY <2>1, <2>2 DEF Sums
<1>5. Up(DOMAIN t) = (DOMAIN s) \ {1} /\ 1 \in DOMAIN s
  <2>1. ASSUME NEW i \in 2 .. n PROVE i \in Up(1 .. n - 1)
    <3>1. i - 1 \in 1 .. n - 1 /\ i = (i - 1) + 1
      BY <1>1
    <3> QED
      BY <3>1
  <2>2. (1 .. n) \ {1} = 2 .. n /\ 1 \in 1 .. n
    BY <1>1
  <2>3. \A i \in 1 .. n - 1 : i + 1 \in 2 .. n
    BY <1>1
  <2>4. Up(1 .. n - 1) = 2 .. n
    BY <2>1, <2>3
  <2> QED
    BY <1>1, <2>2, <2>4
<1>6. Added(t) = f[Up(DOMAIN t)]
  <2>1. Added(t) = g[DOMAIN t]
    BY <1>1, <1>4, AddedIs
  <2> QED
    BY <2>1
<1> HIDE DEF Up
<1>7. Added(s) = f[DOMAIN s] /\ f[DOMAIN s] = f[(DOMAIN s) \ {1}] + s[1]
  <2>1. DOMAIN s \in SUBSET (DOMAIN s)
    OBVIOUS
  <2> QED
    BY <1>2, <1>5, <2>1, AddedIs DEF Sums
<1>8. Added(t) \in Int
  BY <1>1, AddedInt
<1>9. Added(s) = Added(t) + s[1] /\ s[1] = Head(s) /\ s[1] \in Int
  <2>1. s[1] \in Int
    BY <1>1, <1>5
  <2>2. f[(DOMAIN s) \ {1}] = Added(t)
    BY <1>5, <1>6
  <2> QED
    BY <1>1, <1>7, <2>1, <2>2
<1>10. Added(s) = Head(s) + Added(t)
  BY <1>8, <1>9
<1> QED
  BY <1>10 DEF t

-----------------------------------------------------------------------------
(* The samples *)

\* The values of the variables that the samples depend on. Before the threads are there
\* nothing is in the FIFO.
SampleTyped ==
  /\ first \in 0 .. polled /\ shown \in Int /\ fifo \in Seq(Int) /\ latest.sample \in Int
  /\ gui \in {"reqs", "start"} => fifo = <<>> /\ shown = 0 /\ first = 0 /\ late = {}

\* A late line that is still to be polled carries the time stamp of the last line polled.
\* Ticks are never late.
LateOnly ==
  /\ late \subseteq 1 .. Len(log)
  /\ \A i \in late : i > polled => polled > 0 /\ log[i].ts = log[polled].ts
  /\ kind = "cpu" => late = {}

Sampling == SampleTyped /\ LateOnly /\ SamplesExact

\* The lines among the first n that the samples stand for.
Barred(n) == {i \in first + 1 .. n : Sampled(i)} \ late

\* The lines of a log are finitely many.
LEMMA LinesFinite ==
  ASSUME Typed, NEW S, S \subseteq 1 .. Len(log)
  PROVE  IsFiniteSet(S) /\ Cardinality(S) \in Nat
<1>1. Len(log) \in Nat /\ 1 \in Int
  BY LogEntries
<1>2. IsFiniteSet(1 .. Len(log))
  BY <1>1, FS_Interval
<1>3. IsFiniteSet(S)
  BY <1>2, FS_Subset
<1> QED
  BY <1>3, FS_CardinalityType

\* The sizes of disjoint sets add up.
LEMMA Disjoint ==
  ASSUME NEW S, NEW T, IsFiniteSet(S), IsFiniteSet(T), S \cap T = {}
  PROVE  Cardinality(S \cup T) = Cardinality(S) + Cardinality(T)
<1>1. Cardinality(S) \in Nat /\ Cardinality(T) \in Nat
  BY FS_CardinalityType
<1>2. Cardinality(S \cup T) = Cardinality(S) + Cardinality(T) - Cardinality(S \cap T)
  BY FS_Union
<1>3. Cardinality(S \cap T) = 0
  BY FS_EmptySet
<1> QED
  BY <1>1, <1>2, <1>3

\* dmesg's streamer takes the lines after the last poll that are not late.
LEMMA NewLines ==
  ASSUME IInv, LateOnly, kind = "dmesg"
  PROVE  {i \in 1 .. Len(log) : Newer(i)} = (polled + 1 .. Len(log)) \ late
<1>1. /\ since = IF polled > 0 THEN log[polled].ts ELSE 0
      /\ Len(log) \in Nat /\ polled \in 0 .. Len(log)
      /\ \A i \in 1 .. Len(log) : log[i].ts \in Nat /\ log[i].ts >= 1
  BY LogEntries DEF IInv, SinceMatches, Typed, LogOrdered
<1>2. ASSUME NEW i \in 1 .. Len(log), i \notin polled + 1 .. Len(log)
      PROVE  ~Newer(i)
  <2>1. i \in 1 .. polled /\ polled > 0
    BY <1>1, <1>2
  <2>2. log[i].ts <= log[polled].ts /\ log[polled].ts \in Nat
    BY <2>1, LaterThanPolled
  <2> QED
    BY <1>1, <2>1, <2>2 DEF Newer
<1>3. ASSUME NEW i \in polled + 1 .. Len(log)
      PROVE  i \in 1 .. Len(log) /\ (Newer(i) <=> i \notin late)
  <2>1. i \in 1 .. Len(log) /\ i > polled
    BY <1>1
  <2>2. CASE i \in late
    BY <1>1, <2>1, <2>2 DEF LateOnly, Newer
  <2>3. CASE i \notin late /\ polled > 0
    BY <1>1, <2>1, <2>3, LaterThanPolled DEF Newer
  <2>4. CASE i \notin late /\ ~(polled > 0)
    BY <1>1, <2>1, <2>4 DEF Newer
  <2> QED
    BY <2>1, <2>2, <2>3, <2>4
<1> QED
  BY <1>2, <1>3

\* A step that touches neither the log nor the samples keeps what they add up to.
LEMMA SamplingStays ==
  ASSUME Sampling, UNCHANGED <<kind, log, late, first, polled, shown, fifo, latest>>,
         th' = "push" <=> th = "push",
         gui' \in {"reqs", "start"} => gui \in {"reqs", "start"}
  PROVE  Sampling'
<1>1. SampleTyped'
  BY DEF Sampling, SampleTyped
<1>2. LateOnly'
  BY DEF Sampling, LateOnly
<1>3. SamplesExact'
  BY DEF Sampling, SamplesExact, Sampled
<1> QED
  BY <1>1, <1>2, <1>3 DEF Sampling

\* A poll keeps it if its sample stands for the lines polled.
LEMMA SamplingPolled ==
  ASSUME IInv, Sampling, NEW batch, NEW fresh, NEW sample \in Int,
         Polled(batch, fresh, sample), Running,
         kind # "logcat" =>
           sample = Cardinality({i \in (polled + 1 .. Len(log)) \ late : Sampled(i)})
  PROVE  Sampling'
<1>1. /\ th = "more" /\ th' = "push" /\ polled' = Len(log) /\ latest'.sample = sample
      /\ UNCHANGED <<kind, log, first, late, fifo, gui, shown>>
  BY DEF Polled, Running, logVars, frameVars
<1>2. /\ Typed /\ Unstarted /\ Len(log) \in Nat /\ polled \in 0 .. Len(log)
      /\ first \in 0 .. polled /\ shown \in Int /\ fifo \in Seq(Int) /\ LateOnly
  BY DEF IInv, Typed, Sampling, SampleTyped
<1>3. SampleTyped'
  BY <1>1, <1>2 DEF SampleTyped, Unstarted
<1>4. LateOnly'
  BY <1>1, <1>2 DEF LateOnly
<1>5. SamplesExact'
  <2> SUFFICES ASSUME kind # "logcat"
               PROVE  shown + Added(fifo) + sample = Cardinality(Barred(Len(log)))
    BY <1>1 DEF SamplesExact, Barred, Sampled
  <2> DEFINE more == {i \in (polled + 1 .. Len(log)) \ late : Sampled(i)}
  <2>1. shown + Added(fifo) + 0 = Cardinality(Barred(polled))
    BY <1>1 DEF Sampling, SamplesExact, Barred
  <2>2. Barred(Len(log)) = Barred(polled) \cup more /\ Barred(polled) \cap more = {}
    <3>1. \A i : i \in first + 1 .. Len(log) <=>
                  i \in first + 1 .. polled \/ i \in polled + 1 .. Len(log)
      BY <1>2
    <3>2. \A i \in first + 1 .. polled : i \notin polled + 1 .. Len(log)
      BY <1>2
    <3> QED
      BY <3>1, <3>2 DEF Barred
  <2>3. Barred(polled) \subseteq 1 .. Len(log) /\ more \subseteq 1 .. Len(log)
    <3>1. \A i \in first + 1 .. polled : i \in 1 .. Len(log)
      BY <1>2
    <3>2. \A i \in polled + 1 .. Len(log) : i \in 1 .. Len(log)
      BY <1>2
    <3> QED
      BY <3>1, <3>2 DEF Barred
  <2>4. sample = Cardinality(more)
    OBVIOUS
  <2> HIDE DEF more
  <2>5. Cardinality(Barred(Len(log))) = Cardinality(Barred(polled)) + Cardinality(more)
    BY <1>2, <2>2, <2>3, LinesFinite, Disjoint
  <2>6. Added(fifo) \in Int
    BY <1>2, AddedInt
  <2> QED
    BY <1>2, <2>1, <2>4, <2>5, <2>6
<1> QED
  BY <1>3, <1>4, <1>5 DEF Sampling

\* The polls of the three streamers.
LEMMA SamplingMore ==
  ASSUME IInv, Sampling, DmesgMore \/ LogcatMore \/ CpuMore
  PROVE  Sampling'
<1>1. /\ Typed /\ LateOnly /\ Len(log) \in Nat /\ polled \in 0 .. Len(log)
      /\ \A i \in 1 .. Len(log) : log[i].tag \in Tags(kind)
  BY LogEntries DEF IInv, Typed, Sampling
<1>2. CASE DmesgMore
  <2> DEFINE new == {i \in 1 .. Len(log) : Newer(i)}
             sample == Interactions(ByTag(new))
  <2>1. kind = "dmesg" /\ Running /\ Polled(ByTag(new), new # {}, sample)
    BY <1>2 DEF DmesgMore
  <2>2. new = (polled + 1 .. Len(log)) \ late /\ new \subseteq 1 .. Len(log)
    BY <1>1, <2>1, NewLines
  <2> HIDE DEF new
  <2>3. sample = Cardinality({i \in new : Sampled(i)})
    <3>1. sample = Cardinality({i \in new : log[i].tag = "IOCTL"})
      BY <2>1, TagsOf DEF Interactions, ByTag, DmesgProbes
    <3>2. \A i \in new : Sampled(i) <=> log[i].tag = "IOCTL"
      BY <1>1, <2>1, <2>2, TagsOf DEF Sampled, DmesgProbes
    <3>3. {i \in new : Sampled(i)} = {i \in new : log[i].tag = "IOCTL"}
      BY <3>2
    <3> QED
      BY <3>1, <3>3
  <2>4. sample \in Int
    <3>1. {i \in new : Sampled(i)} \subseteq 1 .. Len(log)
      BY <2>2
    <3> QED
      BY <1>1, <2>3, <3>1, LinesFinite
  <2>5. sample = Cardinality({i \in (polled + 1 .. Len(log)) \ late : Sampled(i)})
    BY <2>2, <2>3
  <2> HIDE DEF sample
  <2> QED
    BY <2>1, <2>4, <2>5, SamplingPolled
<1>3. CASE LogcatMore
  <2>1. PICK batch, fresh : kind = "logcat" /\ Running /\ Polled(batch, fresh, 0)
    BY <1>3 DEF LogcatMore
  <2> QED
    BY <2>1, SamplingPolled
<1>4. CASE CpuMore
  <2> DEFINE new == since + 1 .. Len(log)
             sample == Cardinality(new) - Cardinality(ByTag(new)["idle"])
             busy == {i \in new : Sampled(i)}
             idle == {i \in new : log[i].tag = "idle"}
  <2>1. kind = "cpu" /\ Running /\ Polled(ByTag(new), FALSE, sample)
    BY <1>4 DEF CpuMore
  <2>2. since = polled /\ late = {}
    BY <1>1, <2>1 DEF IInv, SinceMatches, LateOnly
  <2>3. new = (polled + 1 .. Len(log)) \ late /\ new \subseteq 1 .. Len(log)
    BY <1>1, <2>2
  <2>4. ByTag(new)["idle"] = idle
    BY <2>1, TagsOf DEF ByTag
  <2> HIDE DEF new
  <2>5. new = busy \cup idle /\ busy \cap idle = {}
    BY <1>1, <2>1, <2>3, TagsOf DEF Sampled
  <2>6. /\ IsFiniteSet(busy) /\ Cardinality(busy) \in Nat
        /\ IsFiniteSet(idle) /\ Cardinality(idle) \in Nat
    <3>1. busy \subseteq 1 .. Len(log) /\ idle \subseteq 1 .. Len(log)
      BY <2>3
    <3> HIDE DEF busy, idle
    <3> QED
      BY <1>1, <3>1, LinesFinite
  <2>7. sample = Cardinality(busy)
    <3> HIDE DEF busy, idle
    <3>1. Cardinality(new) = Cardinality(busy) + Cardinality(idle)
      BY <2>5, <2>6, Disjoint
    <3> QED
      BY <2>4, <2>6, <3>1
  <2>8. sample \in Int /\ sample = Cardinality({i \in (polled + 1 .. Len(log)) \ late : Sampled(i)})
    BY <2>3, <2>6, <2>7
  <2> HIDE DEF sample
  <2> QED
    BY <2>1, <2>8, SamplingPolled
<1> QED
  BY <1>2, <1>3, <1>4

\* A line that the device prints is behind the last poll.
LEMMA SamplingEmit ==
  ASSUME IInv, Sampling, NEW tag \in Tags(kind), Emit(tag)
  PROVE  Sampling'
<1>1. /\ th = "more"
      /\ UNCHANGED <<kind, first, th, latest, polled, fifo, gui, shown>>
  BY DEF Emit, streamVars, frameVars
<1>2. /\ Typed /\ Unstarted /\ LogOrdered /\ SampleTyped /\ LateOnly /\ SamplesExact
      /\ log \in Seq([ts : Nat, tag : Tags(kind)]) /\ Len(log) \in Nat
      /\ polled \in 0 .. Len(log) /\ first \in 0 .. polled
      /\ \A i \in 1 .. Len(log) : log[i].ts \in Nat
  BY LogEntries DEF IInv, Typed, Sampling, SampleTyped
<1>3. PICK ts \in {LastPrinted, LastPrinted + 1} :
        /\ kind = "cpu" => ts = LastPrinted + 1
        /\ log' = Append(log, [ts |-> ts, tag |-> tag])
        /\ late' = IF polled > 0 /\ ts = log[polled].ts THEN late \cup {Len(log) + 1} ELSE late
  BY DEF Emit
<1>4. ts \in Nat
  <2>1. log # <<>> => Len(log) \in 1 .. Len(log)
    BY <1>2
  <2> QED
    BY <1>2, <1>3, <2>1 DEF LastPrinted
<1>5. /\ Len(log') = Len(log) + 1 /\ log'[Len(log) + 1].ts = ts
      /\ \A i \in 1 .. Len(log) : log'[i] = log[i]
  BY <1>2, <1>3, <1>4
<1>6. kind = "cpu" => late' = late
  <2> SUFFICES ASSUME kind = "cpu", polled > 0, ts = log[polled].ts PROVE FALSE
    BY <1>3
  <2>1. log # <<>> /\ polled \in 1 .. Len(log)
    BY <1>2
  <2>2. Len(log) \in polled .. Len(log) /\ Len(log) \in 1 .. Len(log)
    BY <1>2
  <2>3. log[polled].ts <= log[Len(log)].ts
    BY <1>2, <2>1, <2>2 DEF LogOrdered
  <2>4. ts = log[Len(log)].ts + 1
    BY <1>3, <2>1 DEF LastPrinted
  <2> QED
    BY <1>2, <2>1, <2>2, <2>3, <2>4
<1>7. SampleTyped'
  BY <1>1, <1>2 DEF SampleTyped, Unstarted
<1>8. LateOnly'
  <2>1. polled > 0 => log'[polled] = log[polled]
    BY <1>2, <1>5
  <2>2. late' \subseteq 1 .. Len(log')
    <3>1. late \subseteq 1 .. Len(log)
      BY <1>2 DEF LateOnly
    <3>2. \A i \in 1 .. Len(log) : i \in 1 .. Len(log')
      BY <1>2, <1>5
    <3>3. Len(log) + 1 \in 1 .. Len(log')
      BY <1>2, <1>5
    <3> QED
      BY <1>3, <3>1, <3>2, <3>3
  <2>3. ASSUME NEW i \in late', i > polled
        PROVE  polled > 0 /\ log'[i].ts = log'[polled].ts
    <3>1. CASE i \in late
      BY <1>2, <1>5, <2>1, <2>3, <3>1 DEF LateOnly
    <3>2. CASE i \notin late
      BY <1>3, <1>5, <2>1, <3>2
    <3> QED
      BY <3>1, <3>2
  <2> QED
    BY <1>1, <1>2, <1>6, <2>2, <2>3 DEF LateOnly
<1>9. SamplesExact'
  <2>1. Barred(polled) = Barred(polled)'
    <3>1. \A i \in first + 1 .. polled :
            i \in 1 .. Len(log) /\ log'[i] = log[i] /\ (i \in late' <=> i \in late)
      BY <1>2, <1>3, <1>5
    <3> QED
      BY <1>1, <3>1 DEF Barred, Sampled
  <2> QED
    BY <1>1, <1>2, <2>1 DEF SamplesExact, Barred
<1> QED
  BY <1>7, <1>8, <1>9 DEF Sampling

\* PushData moves a sample into the FIFO.
LEMMA SamplingPush ==
  ASSUME IInv, Sampling, PushData
  PROVE  Sampling'
<1>1. /\ th = "push" /\ th' = "more" /\ fifo' = Append(fifo, latest.sample)
      /\ UNCHANGED <<kind, log, late, first, latest, polled, gui, shown>>
  BY DEF PushData, logVars, frameVars
<1>2. /\ Unstarted /\ SampleTyped /\ LateOnly /\ SamplesExact /\ fifo \in Seq(Int)
      /\ latest.sample \in Int /\ shown \in Int
  BY DEF IInv, Sampling, SampleTyped
<1>3. SampleTyped'
  BY <1>1, <1>2 DEF SampleTyped, Unstarted
<1>4. LateOnly'
  BY <1>1, <1>2 DEF LateOnly
<1>5. Added(fifo') = Added(fifo) + latest.sample /\ Added(fifo) \in Int
  BY <1>1, <1>2, AddedAppend, AddedInt
<1>6. SamplesExact'
  BY <1>1, <1>2, <1>5 DEF SamplesExact, Sampled
<1> QED
  BY <1>3, <1>4, <1>6 DEF Sampling

\* PopData moves a sample from the FIFO to the bars.
LEMMA SamplingPop ==
  ASSUME IInv, Sampling, PopData
  PROVE  Sampling'
<1>1. /\ gui' = "frame" /\ UNCHANGED <<kind, log, late, first, th, latest, polled>>
  BY DEF PopData, logVars, streamVars
<1>2. CASE UNCHANGED <<fifo, shown>>
  BY <1>1, <1>2, SamplingStays
<1>3. CASE fifo # <<>> /\ Pop
  <2>1. /\ SampleTyped /\ LateOnly /\ SamplesExact /\ fifo \in Seq(Int)
        /\ latest.sample \in Int /\ shown \in Int
        /\ fifo' = Tail(fifo) /\ shown' = shown + Head(fifo)
    BY <1>3 DEF Sampling, SampleTyped, Pop
  <2>2. fifo' \in Seq(Int) /\ Head(fifo) \in Int
    BY <1>3, <2>1
  <2>3. SampleTyped'
    BY <1>1, <2>1, <2>2 DEF SampleTyped
  <2>4. LateOnly'
    BY <1>1, <2>1 DEF LateOnly
  <2>5. Added(fifo) = Head(fifo) + Added(fifo') /\ Added(fifo') \in Int
    BY <1>3, <2>1, <2>2, AddedTail, AddedInt
  <2>6. SamplesExact'
    BY <1>1, <2>1, <2>2, <2>5 DEF SamplesExact, Sampled
  <2> QED
    BY <2>3, <2>4, <2>6 DEF Sampling
<1> QED
  BY <1>2, <1>3 DEF PopData

\* Start leaves nothing due.
LEMMA SamplingStart ==
  ASSUME IInv, Sampling, Start
  PROVE  Sampling'
<1>1. /\ gui = "start" /\ gui' = "poll" /\ th' = "more"
      /\ first' = (IF kind = "dmesg" THEN Len(log) ELSE 0) /\ polled' = first'
      /\ UNCHANGED <<kind, log, late, latest, fifo, shown>>
  BY DEF Start
<1>2. /\ Len(log) \in Nat /\ fifo = <<>> /\ shown = 0 /\ late = {}
      /\ latest.sample \in Int /\ fifo \in Seq(Int)
  BY <1>1, LogEntries DEF IInv, Sampling, SampleTyped
<1>3. first' \in Nat /\ polled' = first'
  BY <1>1, <1>2
<1>4. SampleTyped'
  BY <1>1, <1>2, <1>3 DEF SampleTyped
<1>5. LateOnly'
  BY <1>1, <1>2 DEF LateOnly
<1>6. SamplesExact'
  <2>1. Barred(polled)' = {}
    BY <1>3 DEF Barred
  <2>2. Cardinality(Barred(polled)') = 0 /\ Added(fifo') = 0
    BY <1>1, <1>2, <2>1, AddedEmpty, FS_EmptySet
  <2> QED
    BY <1>1, <1>2, <2>2 DEF SamplesExact, Barred
<1> QED
  BY <1>4, <1>5, <1>6 DEF Sampling

\* main is entered with nothing sampled.
LEMMA InitSampling == Init => Sampling
<1> SUFFICES ASSUME Init PROVE Sampling
  OBVIOUS
<1>1. /\ latest = [id |-> 0, fresh |-> FALSE, sample |-> 0, lines |-> [g \in Tags(kind) |-> {}]]
      /\ th = "none" /\ fifo = <<>> /\ polled = 0 /\ first = 0 /\ shown = 0 /\ late = {}
  BY DEF Init
<1>2. latest.sample = 0
  BY <1>1
<1>3. SampleTyped /\ LateOnly
  BY <1>1, <1>2 DEF SampleTyped, LateOnly
<1>4. SamplesExact
  <2>1. Barred(polled) = {}
    BY <1>1 DEF Barred
  <2>2. Cardinality(Barred(polled)) = 0 /\ Added(fifo) = 0
    BY <1>1, <2>1, AddedEmpty, FS_EmptySet
  <2> QED
    BY <1>1, <2>2 DEF SamplesExact, Barred
<1> QED
  BY <1>3, <1>4 DEF Sampling

\* Every step keeps what the samples add up to.
LEMMA NextSampling == IInv /\ Sampling /\ [Next]_vars => Sampling'
<1> SUFFICES ASSUME IInv, Sampling, [Next]_vars PROVE Sampling'
  OBVIOUS
<1>1. CASE KgslIoctl \/ InvokeTime \/ IoctlTime \/ LogcatLine \/ CpuTick
  <2>1. PICK tag : Emit(tag) /\ \/ kind = "dmesg" /\ tag \in DmesgProbes
                                \/ kind = "logcat" /\ tag \in LogcatProbes
                                \/ kind = "cpu" /\ tag \in {"busy", "idle"}
    BY <1>1 DEF KgslIoctl, InvokeTime, IoctlTime, LogcatLine, CpuTick, DmesgProbes
  <2>2. tag \in Tags(kind)
    BY <2>1, TagsOf
  <2> QED
    BY <2>1, <2>2, SamplingEmit
<1>2. CASE CheckReqs \/ PollEvents \/ WindowClosed
  BY <1>2, SamplingStays
  DEF CheckReqs, PollEvents, WindowClosed, logVars, streamVars, frameVars
<1>3. CASE StreamEnd \/ Frame \/ JoinThreads \/ Abort \/ UNCHANGED vars
  BY <1>3, SamplingStays
  DEF StreamEnd, Frame, JoinThreads, Abort, vars, logVars, streamVars, frameVars
<1> QED
  BY <1>1, <1>2, <1>3, SamplingMore, SamplingPush, SamplingPop, SamplingStart DEF Next

\* The bars show every IOCTL line and every busy tick exactly once: what was popped, what
\* is in the FIFO and what waits for a place in it add up to the lines polled.
THEOREM SamplesExactHolds == Spec => []SamplesExact
<1>1. Sampling => SamplesExact
  BY DEF Sampling
<1> QED
  BY <1>1, Inductive, InitSampling, NextSampling, PTL DEF Spec

-----------------------------------------------------------------------------
(* The offload time *)

\* The lines of S with a tag, and how many they are.
Tagged(S, tag) == {i \in S : log[i].tag = tag}
Count(S, tag) == Cardinality(Tagged(S, tag))

\* S has both TIME lines of every invocation it has a TIME line of.
Even(S) == Count(S, "TIME_invoke") = Count(S, "TIME_ioctl")

\* The outer TIME line of an invocation follows its inner one. As long as no poll falls
\* between the two and none is lost, the lines polled so far and the latest batch have both.
CallsPaired ==
  /\ Count(1 .. Len(log), "TIME_ioctl") <= Count(1 .. Len(log), "TIME_invoke")
  /\ kind = "dmesg" /\ "split" \notin hist /\ late = {} =>
       Even(1 .. polled) /\ Even(LinesOf(latest.lines))

Offloading == due \in Int /\ CallsPaired /\ OffloadExact

\* The lines with a tag are finitely many.
LEMMA CountType ==
  ASSUME Typed, NEW S, S \subseteq 1 .. Len(log), NEW tag
  PROVE  IsFiniteSet(Tagged(S, tag)) /\ Count(S, tag) \in Nat
<1>1. Tagged(S, tag) \subseteq 1 .. Len(log)
  BY DEF Tagged
<1> QED
  BY <1>1, LinesFinite DEF Count

\* The numbers of two sets that share no line add up.
LEMMA CountApart ==
  ASSUME Typed, NEW S, NEW T, S \subseteq 1 .. Len(log), T \subseteq 1 .. Len(log),
         S \cap T = {}, NEW tag
  PROVE  Count(S \cup T, tag) = Count(S, tag) + Count(T, tag)
<1>1. IsFiniteSet(Tagged(S, tag)) /\ IsFiniteSet(Tagged(T, tag))
  BY CountType
<1>2. /\ Tagged(S \cup T, tag) = Tagged(S, tag) \cup Tagged(T, tag)
      /\ Tagged(S, tag) \cap Tagged(T, tag) = {}
  BY DEF Tagged
<1> QED
  BY <1>1, <1>2, Disjoint DEF Count

\* The time a line stands for.
LEMMA TimeOf ==
  ASSUME NEW i
  PROVE  /\ log[i].tag = "IOCTL" => Time(i) = 1
         /\ log[i].tag = "TIME_ioctl" => Time(i) = 2
         /\ log[i].tag = "TIME_invoke" => Time(i) = -1
         /\ log[i].tag = "tflite" => Time(i) = 1
         /\ log[i].tag \in {"ExecutionBuilder", "busy", "idle"} => Time(i) = 0
<1> DEFINE g == log[i].tag
<1>1. Time(i) = CASE g = "IOCTL"            -> 1
                  [] g = "TIME_ioctl"       -> 2
                  [] g = "TIME_invoke"      -> -1
                  [] g = "tflite"           -> 1
                  [] g \in {"ExecutionBuilder", "busy", "idle"} -> 0
  BY Zenon DEF Time
<1> HIDE DEF g
<1>2. g = "IOCTL" => Time(i) = 1
  <2>1. "IOCTL" \notin {"TIME_ioctl", "TIME_invoke", "tflite", "ExecutionBuilder", "busy", "idle"}
    OBVIOUS
  <2> QED
    BY <1>1, <2>1, Zenon
<1>3. g = "TIME_ioctl" => Time(i) = 2
  <2>1. "TIME_ioctl" \notin {"IOCTL", "TIME_invoke", "tflite", "ExecutionBuilder", "busy", "idle"}
    OBVIOUS
  <2> QED
    BY <1>1, <2>1, Zenon
<1>4. g = "TIME_invoke" => Time(i) = -1
  <2>1. "TIME_invoke" \notin {"IOCTL", "TIME_ioctl", "tflite", "ExecutionBuilder", "busy", "idle"}
    OBVIOUS
  <2> QED
    BY <1>1, <2>1, Zenon
<1>5. g = "tflite" => Time(i) = 1
  <2>1. "tflite" \notin {"IOCTL", "TIME_ioctl", "TIME_invoke", "ExecutionBuilder", "busy", "idle"}
    OBVIOUS
  <2> QED
    BY <1>1, <2>1, Zenon
<1>6. g \in {"ExecutionBuilder", "busy", "idle"} => Time(i) = 0
  <2>1. g \in {"ExecutionBuilder", "busy", "idle"} =>
          g # "IOCTL" /\ g # "TIME_ioctl" /\ g # "TIME_invoke" /\ g # "tflite"
    OBVIOUS
  <2> QED
    BY <1>1, <2>1, Zenon
<1> QED
  BY <1>2, <1>3, <1>4, <1>5, <1>6 DEF g

\* The function that MapThenSumSet recurs on for Total.
TimesUnfold(S, f) ==
  f = [u \in SUBSET S |-> IF u = {} THEN 0
                          ELSE Time(CHOOSE x \in u : TRUE) + f[u \ {CHOOSE x \in u : TRUE}]]

\* Total is a value of that function.
LEMMA TotalUnfolds ==
  ASSUME NEW S
  PROVE  Total(S) = (CHOOSE f : TimesUnfold(S, f))[S]
BY Zenon DEF Total, MapThenSumSet, MapThenFoldSet, TimesUnfold

\* The times of lines, by their tags.
Weight(S) ==
  2 * Count(S, "TIME_ioctl") - Count(S, "TIME_invoke") + Count(S, "IOCTL") + Count(S, "tflite")

\* Total is the sum of the times of the lines, in whatever order they are added.
LEMMA TotalIs ==
  ASSUME Typed, NEW S, S \subseteq 1 .. Len(log)
  PROVE  Total(S) = Weight(S)
<1> DEFINE v == [i \in S |-> Time(i)]
           f == [u \in SUBSET S |-> Weight(u)]
<1>1. \A i \in S : log[i].tag \in {"IOCTL", "TIME_ioctl", "TIME_invoke", "tflite",
                                   "ExecutionBuilder", "busy", "idle"}
  BY LogEntries, TagsOf DEF Typed, Kinds, DmesgProbes, LogcatProbes
<1>2. \A i \in S : Time(i) \in Int /\ v[i] = Time(i)
  <2> SUFFICES ASSUME NEW i \in S PROVE Time(i) \in Int
    OBVIOUS
  <2> QED
    BY <1>1, TimeOf
<1>3. \A u \in SUBSET S : \A tag : Count(u, tag) \in Nat
  BY CountType
<1>4. ASSUME NEW u \in SUBSET S, NEW x \in u
      PROVE  Weight(u) = Weight(u \ {x}) + Time(x)
  <2> DEFINE one(tag) == IF log[x].tag = tag THEN 1 ELSE 0
  <2>1. ASSUME NEW tag
        PROVE  /\ Count(u, tag) \in Nat /\ Count(u \ {x}, tag) \in Nat
               /\ Count(u, tag) = Count(u \ {x}, tag) + one(tag)
    <3> DEFINE T == Tagged(u, tag)
    <3>1. IsFiniteSet(T) /\ Count(u, tag) \in Nat /\ Count(u \ {x}, tag) \in Nat
      BY <1>3, CountType
    <3>2. Tagged(u \ {x}, tag) = T \ {x} /\ (x \in T <=> log[x].tag = tag)
      BY DEF Tagged
    <3>3. Count(u, tag) = Cardinality(T) /\ Count(u \ {x}, tag) = Cardinality(T \ {x})
      BY <3>2 DEF Count
    <3> HIDE DEF T
    <3>4. Cardinality(T \ {x}) = IF x \in T THEN Cardinality(T) - 1 ELSE Cardinality(T)
      BY <3>1, FS_RemoveElement
    <3>5. CASE x \in T
      <4>1. Count(u \ {x}, tag) = Count(u, tag) - 1 /\ one(tag) = 1
        BY <3>2, <3>3, <3>4, <3>5, Zenon
      <4> HIDE DEF one
      <4> QED
        BY <3>1, <4>1
    <3>6. CASE x \notin T
      <4>1. Count(u \ {x}, tag) = Count(u, tag) /\ one(tag) = 0
        BY <3>2, <3>3, <3>4, <3>6, Zenon
      <4> HIDE DEF one
      <4> QED
        BY <3>1, <4>1
    <3> QED
      BY <3>5, <3>6
  <2>2. PICK a, b, c, d : /\ a = Count(u \ {x}, "TIME_ioctl") /\ b = Count(u \ {x}, "TIME_invoke")
                          /\ c = Count(u \ {x}, "IOCTL") /\ d = Count(u \ {x}, "tflite")
    OBVIOUS
  <2>3. /\ a \in Nat /\ Count(u, "TIME_ioctl") = a + one("TIME_ioctl")
        /\ b \in Nat /\ Count(u, "TIME_invoke") = b + one("TIME_invoke")
        /\ c \in Nat /\ Count(u, "IOCTL") = c + one("IOCTL")
        /\ d \in Nat /\ Count(u, "tflite") = d + one("tflite")
    <3> HIDE DEF one
    <3> QED
      BY <2>1, <2>2, Zenon
  <2>4. Weight(u \ {x}) = 2 * a - b + c + d
    BY <2>2, Zenon DEF Weight
  <2>5. /\ one("TIME_ioctl") \in Int /\ one("TIME_invoke") \in Int
        /\ one("IOCTL") \in Int /\ one("tflite") \in Int
        /\ Time(x) = 2 * one("TIME_ioctl") - one("TIME_invoke") + one("IOCTL") + one("tflite")
    <3>1. x \in S
      OBVIOUS
    <3>2. CASE log[x].tag = "IOCTL"
      BY <3>2, TimeOf
    <3>3. CASE log[x].tag = "TIME_ioctl"
      BY <3>3, TimeOf
    <3>4. CASE log[x].tag = "TIME_invoke"
      BY <3>4, TimeOf
    <3>5. CASE log[x].tag = "tflite"
      BY <3>5, TimeOf
    <3>6. CASE log[x].tag \in {"ExecutionBuilder", "busy", "idle"}
      BY <3>6, TimeOf
    <3> QED
      BY <1>1, <3>1, <3>2, <3>3, <3>4, <3>5, <3>6
  <2> HIDE DEF one
  <2>6. Weight(u) = 2 * (a + one("TIME_ioctl")) - (b + one("TIME_invoke"))
                      + (c + one("IOCTL")) + (d + one("tflite"))
    BY <2>3, Zenon DEF Weight
  <2>7. PICK p, q, r, s : /\ p = one("TIME_ioctl") /\ q = one("TIME_invoke")
                          /\ r = one("IOCTL") /\ s = one("tflite")
    OBVIOUS
  <2>8. p \in Int /\ q \in Int /\ r \in Int /\ s \in Int /\ Time(x) = 2 * p - q + r + s
    BY <2>5, <2>7
  <2>9. a \in Nat /\ b \in Nat /\ c \in Nat /\ d \in Nat
    BY <2>3
  <2>10. Weight(u) = 2 * (a + p) - (b + q) + (c + r) + (d + s)
    BY <2>6, <2>7
  <2> QED
    BY ONLY <2>4, <2>8, <2>9, <2>10
<1>5. Weight({}) = 0
  <2>1. \A tag : Count({}, tag) = 0
    <3>1. \A tag : Tagged({}, tag) = {}
      BY DEF Tagged
    <3> QED
      BY <3>1, FS_EmptySet DEF Count
  <2> QED
    BY <2>1 DEF Weight
<1>6. ASSUME NEW u \in SUBSET S PROVE Weight(u) \in Int
  <2>1. /\ Count(u, "TIME_ioctl") \in Nat /\ Count(u, "TIME_invoke") \in Nat
        /\ Count(u, "IOCTL") \in Nat /\ Count(u, "tflite") \in Nat
    BY <1>3, Zenon
  <2> QED
    BY <2>1 DEF Weight
<1>7. IsFiniteSet(S) /\ S \in SUBSET S
  BY LinesFinite
<1>8. Sums(S, v, f)
  <2>1. f \in [SUBSET S -> Int] /\ f[{}] = 0
    BY <1>5, <1>6
  <2>2. ASSUME NEW u \in SUBSET S, NEW x \in u
        PROVE  f[u] = f[u \ {x}] + v[x]
    <3>1. u \ {x} \in SUBSET S /\ x \in S
      OBVIOUS
    <3> QED
      BY <1>2, <1>4, <3>1
  <2> HIDE DEF f, v
  <2> QED
    BY <2>1, <2>2 DEF Sums
<1>9. f[S] = Weight(S)
  BY <1>7
<1>10. \A u \in SUBSET S : u # {} => (CHOOSE x \in u : TRUE) \in u
  OBVIOUS
<1> HIDE DEF v, f
<1>11. TimesUnfold(S, f)
  <2>1. ASSUME NEW u \in SUBSET S
        PROVE  f[u] = IF u = {} THEN 0
                      ELSE Time(CHOOSE x \in u : TRUE) + f[u \ {CHOOSE x \in u : TRUE}]
    <3>1. CASE u = {}
      BY <1>8, <3>1 DEF Sums
    <3>2. CASE u # {}
      <4>1. PICK y : y = CHOOSE x \in u : TRUE
        OBVIOUS
      <4>2. y \in u /\ y \in S
        BY <1>10, <3>2, <4>1
      <4>3. f[u] = f[u \ {y}] + v[y] /\ f[u \ {y}] \in Int /\ v[y] = Time(y) /\ Time(y) \in Int
        BY <1>2, <1>8, <4>2 DEF Sums
      <4>4. f[u] = Time(y) + f[u \ {y}]
        BY <4>3
      <4> QED
        BY <3>2, <4>1, <4>4, Zenon
    <3> QED
      BY <3>1, <3>2
  <2>2. f = [u \in SUBSET S |-> f[u]]
    BY <1>8 DEF Sums
  <2> QED
    BY <2>1, <2>2, Zenon DEF TimesUnfold
<1>12. PICK g : TimesUnfold(S, g) /\ Total(S) = g[S]
  BY <1>11, TotalUnfolds, Zenon
<1>13. \A u \in SUBSET S : g[u] = IF u = {} THEN 0
                                  ELSE Time(CHOOSE x \in u : TRUE) + g[u \ {CHOOSE x \in u : TRUE}]
  BY <1>12, Zenon DEF TimesUnfold
<1> DEFINE B == {u \in SUBSET S : g[u] # f[u]}
<1>14. ASSUME B # {} PROVE FALSE
  <2>1. PICK u \in B : \A x \in u : u \ {x} \notin B
    BY <1>7, <1>14, SmallestSubset
  <2>2. u \in SUBSET S /\ g[u] # f[u]
    BY <2>1
  <2>3. u # {}
    BY <1>8, <1>13, <2>2 DEF Sums
  <2>4. PICK y : y = CHOOSE x \in u : TRUE
    OBVIOUS
  <2>5. y \in u /\ y \in S
    BY <1>10, <2>2, <2>3, <2>4
  <2>6. g[u] = Time(y) + g[u \ {y}]
    BY <1>13, <2>2, <2>3, <2>4, Zenon
  <2>7. u \ {y} \in SUBSET S /\ g[u \ {y}] = f[u \ {y}]
    BY <2>1, <2>2, <2>5
  <2>8. f[u] = f[u \ {y}] + v[y] /\ f[u \ {y}] \in Int /\ v[y] = Time(y) /\ Time(y) \in Int
    BY <1>2, <1>8, <2>2, <2>5, <2>7 DEF Sums
  <2> QED
    BY <2>2, <2>6, <2>7, <2>8
<1>15. g[S] = f[S]
  BY <1>7, <1>14
<1> QED
  BY <1>9, <1>12, <1>15

\* The lines of S with one of the tags P, and how many of them have a tag.
Part(S, P) == {i \in S : log[i].tag \in P}
PartCount(S, P, tag) == IF tag \in P THEN Count(S, tag) ELSE 0

\* The times of a part of the lines.
LEMMA TotalPart ==
  ASSUME Typed, NEW S, S \subseteq 1 .. Len(log), NEW P
  PROVE  Total(Part(S, P)) =
           2 * PartCount(S, P, "TIME_ioctl") - PartCount(S, P, "TIME_invoke")
             + PartCount(S, P, "IOCTL") + PartCount(S, P, "tflite")
<1> DEFINE K == Part(S, P)
<1>1. ASSUME NEW tag PROVE Count(K, tag) = PartCount(S, P, tag)
  <2>1. CASE tag \in P
    <3>1. Tagged(K, tag) = Tagged(S, tag)
      BY <2>1 DEF Tagged, Part
    <3> QED
      BY <2>1, <3>1 DEF Count, PartCount
  <2>2. CASE tag \notin P
    <3>1. Tagged(K, tag) = {}
      BY <2>2 DEF Tagged, Part
    <3> QED
      BY <2>2, <3>1, FS_EmptySet DEF Count, PartCount
  <2> QED
    BY <2>1, <2>2
<1>2. K \subseteq 1 .. Len(log)
  BY DEF Part
<1> HIDE DEF K
<1>3. Total(K) = Weight(K)
  BY <1>2, TotalIs
<1>4. /\ Count(K, "TIME_ioctl") = PartCount(S, P, "TIME_ioctl")
      /\ Count(K, "TIME_invoke") = PartCount(S, P, "TIME_invoke")
      /\ Count(K, "IOCTL") = PartCount(S, P, "IOCTL")
      /\ Count(K, "tflite") = PartCount(S, P, "tflite")
  BY <1>1, Zenon
<1> QED
  BY <1>3, <1>4 DEF Weight, K

\* What the three functions of a frame add is the time of its lines, if it has both TIME
\* lines of every invocation: no part of it is negative and dropped.
LEMMA FrameAdds ==
  ASSUME Typed, NEW S, S \subseteq 1 .. Len(log), Even(S)
  PROVE  /\ KernelOffload(S) + GpuOffload(S) + DriverOffload(S) = Total(S)
         /\ KernelOffload(S) \in Int /\ GpuOffload(S) \in Int /\ DriverOffload(S) \in Int
<1>1. PICK a, b, c, d : /\ a = Count(S, "TIME_ioctl") /\ b = Count(S, "TIME_invoke")
                        /\ c = Count(S, "IOCTL") /\ d = Count(S, "tflite")
  OBVIOUS
<1>2. a \in Nat /\ b \in Nat /\ c \in Nat /\ d \in Nat /\ a = b
  BY <1>1, CountType DEF Even
<1>3. Total(S) = 2 * a - b + c + d
  BY <1>1, TotalIs DEF Weight
<1>4. Total({i \in S : log[i].tag \in {"TIME_ioctl", "TIME_invoke"}}) = 2 * a - b + 0 + 0
  <2> DEFINE P == {"TIME_ioctl", "TIME_invoke"}
  <2>1. /\ PartCount(S, P, "TIME_ioctl") = a /\ PartCount(S, P, "TIME_invoke") = b
        /\ PartCount(S, P, "IOCTL") = 0 /\ PartCount(S, P, "tflite") = 0
    BY <1>1 DEF PartCount
  <2>2. {i \in S : log[i].tag \in {"TIME_ioctl", "TIME_invoke"}} = Part(S, P)
    BY DEF Part
  <2> HIDE DEF P
  <2> QED
    BY <2>1, <2>2, TotalPart
<1>5. Total({i \in S : log[i].tag = "IOCTL"}) = 2 * 0 - 0 + c + 0
  <2> DEFINE P == {"IOCTL"}
  <2>1. /\ PartCount(S, P, "TIME_ioctl") = 0 /\ PartCount(S, P, "TIME_invoke") = 0
        /\ PartCount(S, P, "IOCTL") = c /\ PartCount(S, P, "tflite") = 0
    BY <1>1 DEF PartCount
  <2>2. {i \in S : log[i].tag = "IOCTL"} = Part(S, P)
    BY DEF Part
  <2> HIDE DEF P
  <2> QED
    BY <2>1, <2>2, TotalPart
<1>6. Total({i \in S : log[i].tag \in LogcatProbes}) = 2 * 0 - 0 + 0 + d
  <2> DEFINE P == LogcatProbes
  <2>1. /\ PartCount(S, P, "TIME_ioctl") = 0 /\ PartCount(S, P, "TIME_invoke") = 0
        /\ PartCount(S, P, "IOCTL") = 0 /\ PartCount(S, P, "tflite") = d
    BY <1>1 DEF PartCount, LogcatProbes
  <2>2. {i \in S : log[i].tag \in LogcatProbes} = Part(S, P)
    BY DEF Part
  <2> HIDE DEF P
  <2> QED
    BY <2>1, <2>2, TotalPart
<1>7. KernelOffload(S) = a /\ GpuOffload(S) = c /\ DriverOffload(S) = d
  BY <1>2, <1>4, <1>5, <1>6 DEF KernelOffload, GpuOffload, DriverOffload, AtLeastZero
<1> QED
  BY <1>2, <1>3, <1>7

\* The number of lines with a tag stays as long as the lines do.
LEMMA CountStays ==
  ASSUME NEW S, \A i \in S : log'[i] = log[i], NEW tag
  PROVE  Count(S, tag)' = Count(S, tag)
<1>1. Tagged(S, tag)' = Tagged(S, tag)
  BY DEF Tagged
<1> QED
  BY <1>1 DEF Count

\* So does whether it has both lines of every invocation.
LEMMA EvenStays ==
  ASSUME NEW S, \A i \in S : log'[i] = log[i]
  PROVE  Even(S)' <=> Even(S)
BY CountStays DEF Even

\* Lines of a log without TIME lines.
LEMMA EvenWithout ==
  ASSUME NEW S, \A i \in S : log[i].tag \notin {"TIME_invoke", "TIME_ioctl"}
  PROVE  Even(S)
<1>1. Tagged(S, "TIME_invoke") = {} /\ Tagged(S, "TIME_ioctl") = {}
  BY DEF Tagged
<1> QED
  BY <1>1 DEF Even, Count

\* A line that is printed adds to the number of lines with its tag.
LEMMA CountEmit ==
  ASSUME Typed, NEW n, n = Len(log), NEW r, log' = Append(log, r), NEW tag
  PROVE  /\ r.tag = tag => Count(1 .. n + 1, tag)' = Count(1 .. n, tag) + 1
         /\ r.tag # tag => Count(1 .. n + 1, tag)' = Count(1 .. n, tag)
<1>1. n \in Nat /\ log \in Seq([ts : Nat, tag : Tags(kind)])
  BY DEF Typed
<1>2. log'[n + 1] = r /\ \A i \in 1 .. n : log'[i] = log[i]
  BY <1>1
<1>3. 1 .. n + 1 = (1 .. n) \cup {n + 1} /\ n + 1 \notin 1 .. n
  BY <1>1
<1>4. IsFiniteSet(Tagged(1 .. n, tag)) /\ n + 1 \notin Tagged(1 .. n, tag)
  BY <1>3, CountType DEF Tagged
<1>5. CASE r.tag = tag
  <2>1. Tagged(1 .. n + 1, tag)' = Tagged(1 .. n, tag) \cup {n + 1}
    BY <1>2, <1>3, <1>5 DEF Tagged
  <2> QED
    BY <1>4, <1>5, <2>1, FS_AddElement DEF Count
<1>6. CASE r.tag # tag
  <2>1. Tagged(1 .. n + 1, tag)' = Tagged(1 .. n, tag)
    BY <1>2, <1>3, <1>6 DEF Tagged
  <2> QED
    BY <1>6, <2>1 DEF Count
<1> QED
  BY <1>5, <1>6

\* Every line that the device prints.
LEMMA OffloadingDevice ==
  ASSUME IInv, Offloading, KgslIoctl \/ InvokeTime \/ IoctlTime \/ LogcatLine \/ CpuTick
  PROVE  Offloading'
<1>1. PICK tag : Emit(tag) /\ (tag = "TIME_ioctl" => InCall)
  BY DEF KgslIoctl, InvokeTime, IoctlTime, LogcatLine, CpuTick, LogcatProbes
<1>2. PICK ts : /\ log' = Append(log, [ts |-> ts, tag |-> tag])
                /\ late \subseteq late'
                /\ UNCHANGED <<kind, polled, latest, hist, due, offload>>
  BY <1>1 DEF Emit, streamVars, frameVars
<1>3. PICK n, p, L : n = Len(log) /\ p = polled /\ L = LinesOf(latest.lines)
  OBVIOUS
<1>4. /\ Typed /\ n \in Nat /\ p \in 0 .. n /\ L \subseteq 1 .. p
      /\ log \in Seq([ts : Nat, tag : Tags(kind)])
  <2>1. Typed /\ latest.lines \in [Tags(kind) -> SUBSET (1 .. polled)]
    BY DEF IInv, Typed
  <2>2. LinesOf(latest.lines) \subseteq 1 .. polled
    BY <2>1, LinesBounded
  <2> QED
    BY <1>3, <2>1, <2>2 DEF Typed
<1>5. Len(log') = n + 1 /\ \A i \in 1 .. n : log'[i] = log[i]
  BY <1>2, <1>3, <1>4
<1>6. Count(1 .. Len(log), "TIME_ioctl")' <= Count(1 .. Len(log), "TIME_invoke")'
  <2>1. PICK a, b : a = Count(1 .. n, "TIME_ioctl") /\ b = Count(1 .. n, "TIME_invoke")
    OBVIOUS
  <2>2. a \in Nat /\ b \in Nat /\ a <= b
    BY <1>3, <1>4, <2>1, CountType DEF Offloading, CallsPaired
  <2>3. tag = "TIME_ioctl" => b > a
    BY <1>1, <1>3, <2>1 DEF InCall, Number, Count, Tagged
  <2>4. PICK r : r = [ts |-> ts, tag |-> tag] /\ r.tag = tag /\ log' = Append(log, r)
    BY <1>2
  <2>5. /\ tag = "TIME_ioctl" => Count(1 .. n + 1, "TIME_ioctl")' = a + 1
        /\ tag # "TIME_ioctl" => Count(1 .. n + 1, "TIME_ioctl")' = a
        /\ tag = "TIME_invoke" => Count(1 .. n + 1, "TIME_invoke")' = b + 1
        /\ tag # "TIME_invoke" => Count(1 .. n + 1, "TIME_invoke")' = b
    BY <1>3, <1>4, <2>1, <2>4, CountEmit
  <2>6. Count(1 .. n + 1, "TIME_ioctl")' <= Count(1 .. n + 1, "TIME_invoke")'
    BY <2>2, <2>3, <2>5
  <2> QED
    BY <1>5, <2>6
<1>7. ASSUME kind = "dmesg", "split" \notin hist, late' = {}
      PROVE  Even(1 .. polled)' /\ Even(LinesOf(latest.lines))'
  <2>1. Even(1 .. p) /\ Even(L)
    BY <1>2, <1>3, <1>7 DEF Offloading, CallsPaired
  <2>2. /\ \A i \in 1 .. p : log'[i] = log[i]
        /\ \A i \in L : log'[i] = log[i]
    BY <1>4, <1>5
  <2>3. Even(1 .. p)' /\ Even(L)'
    BY <2>1, <2>2, EvenStays
  <2>4. polled' = p /\ LinesOf(latest.lines)' = L
    BY <1>2, <1>3 DEF LinesOf
  <2> QED
    BY <2>3, <2>4
<1>8. OffloadExact' /\ due' \in Int
  BY <1>2 DEF Offloading, OffloadExact
<1> QED
  BY <1>2, <1>6, <1>7, <1>8 DEF Offloading, CallsPaired

\* A step that leaves the log, the latest batch and the histories alone, and adds the same
\* to the time shown as to the time due.
LEMMA OffloadingStays ==
  ASSUME IInv, Offloading, UNCHANGED <<kind, log, late, polled, latest, hist>>,
         due' \in Int, "split" \notin hist /\ late = {} => offload' = due'
  PROVE  Offloading'
<1>1. PICK n, p, L : n = Len(log) /\ p = polled /\ L = LinesOf(latest.lines)
  OBVIOUS
<1>2. Len(log)' = n /\ polled' = p /\ LinesOf(latest.lines)' = L
  BY <1>1 DEF LinesOf
<1>3. /\ \A S : Even(S)' <=> Even(S)
      /\ \A S, tag : Count(S, tag)' = Count(S, tag)
  BY EvenStays, CountStays
<1>4. CallsPaired'
  <2>1. Count(1 .. n, "TIME_ioctl")' <= Count(1 .. n, "TIME_invoke")'
    BY <1>1, <1>3 DEF Offloading, CallsPaired
  <2>2. kind = "dmesg" /\ "split" \notin hist /\ late = {} => Even(1 .. p)' /\ Even(L)'
    BY <1>1, <1>3 DEF Offloading, CallsPaired
  <2> QED
    BY <1>2, <2>1, <2>2 DEF CallsPaired
<1> QED
  BY <1>4 DEF Offloading, OffloadExact

\* A frame adds what is due.
LEMMA OffloadingFrame ==
  ASSUME IInv, Offloading, Frame
  PROVE  Offloading'
<1>1. UNCHANGED <<kind, log, late, polled, latest, hist>>
  BY DEF Frame, streamVars
<1>2. Typed /\ Turns /\ Worked \subseteq 1 .. Len(log)
  <2>1. Typed /\ Turns /\ latest.lines \in [Tags(kind) -> SUBSET (1 .. polled)]
    BY DEF IInv, Typed
  <2>2. LinesOf(latest.lines) \subseteq 1 .. polled
    BY <2>1, LinesBounded
  <2>3. 1 .. polled \subseteq 1 .. Len(log)
    BY <2>1 DEF Typed
  <2> QED
    BY <2>1, <2>2, <2>3 DEF Worked
<1>3. PICK c, fig : /\ fig \in SnpeOffload \cup {NoFigure}
                    /\ due' = Summed(due, Total(Worked), c, fig)
                    /\ offload' = Summed(offload, KernelOffload(Worked) + GpuOffload(Worked)
                                                  + DriverOffload(Worked), c, fig)
  BY DEF Frame
<1>4. PICK W : W = Worked
  OBVIOUS
<1>5. due \in Int /\ Total(W) \in Int
  <2>1. Total(W) = Weight(W)
    BY <1>2, <1>4, TotalIs
  <2>2. /\ Count(W, "TIME_ioctl") \in Nat /\ Count(W, "TIME_invoke") \in Nat
        /\ Count(W, "IOCTL") \in Nat /\ Count(W, "tflite") \in Nat
    BY <1>2, <1>4, CountType
  <2> QED
    BY <2>1, <2>2 DEF Weight, Offloading
<1>6. due' \in Int
  BY <1>3, <1>4, <1>5 DEF Summed, SnpeOffload, NoFigure
<1>7. ASSUME "split" \notin hist, late = {}
      PROVE  offload' = due'
  <2>1. Even(W)
    <3>1. CASE W = {}
      BY <3>1, EvenWithout
    <3>2. CASE W # {} /\ kind = "dmesg"
      <4>1. W = LinesOf(latest.lines)
        BY <1>4, <3>2 DEF Worked
      <4> QED
        BY <1>7, <3>2, <4>1 DEF Offloading, CallsPaired
    <3>3. CASE W # {} /\ kind # "dmesg"
      <4>1. kind = "logcat"
        BY <1>2, <1>4, <3>3 DEF Worked, Turns, Typed, Kinds
      <4>2. \A i \in W : log[i].tag \in LogcatProbes
        BY <1>2, <1>4, <4>1, LogEntries, TagsOf
      <4> QED
        BY <4>2, EvenWithout DEF LogcatProbes
    <3> QED
      BY <3>1, <3>2, <3>3
  <2>2. PICK x, y, z : x = KernelOffload(W) /\ y = GpuOffload(W) /\ z = DriverOffload(W)
    OBVIOUS
  <2>3. x + y + z = Total(W)
    BY <1>2, <1>4, <2>1, <2>2, FrameAdds
  <2>4. offload = due
    BY <1>7 DEF Offloading, OffloadExact
  <2> QED
    BY <1>3, <1>4, <2>2, <2>3, <2>4 DEF Summed
<1> QED
  BY <1>1, <1>6, <1>7, OffloadingStays

\* A poll between two invocations takes both TIME lines of every invocation before it.
LEMMA OffloadingDmesg ==
  ASSUME IInv, LateOnly, Offloading, DmesgMore
  PROVE  Offloading'
<1> DEFINE new == {i \in 1 .. Len(log) : Newer(i)}
<1>1. /\ kind = "dmesg" /\ Polled(ByTag(new), new # {}, Interactions(ByTag(new)))
      /\ hist \subseteq hist' /\ (InCall => "split" \in hist')
  BY DEF DmesgMore
<1>2. /\ polled' = Len(log) /\ latest'.lines = ByTag(new)
      /\ UNCHANGED <<kind, log, late, due, offload>>
  BY <1>1 DEF Polled, logVars, frameVars
<1>3. new = (polled + 1 .. Len(log)) \ late /\ new \subseteq 1 .. Len(log)
  BY <1>1, NewLines
<1> HIDE DEF new
<1>4. Typed /\ Len(log) \in Nat /\ polled \in 0 .. Len(log)
  BY DEF IInv, Typed
<1>5. PICK n, p, N : n = Len(log) /\ p = polled /\ N = new
  OBVIOUS
<1>6. LinesOf(latest.lines)' = N
  <2>1. LinesOf(latest.lines)' = LinesOf(ByTag(new))
    BY <1>2 DEF LinesOf
  <2> QED
    BY <1>3, <1>4, <1>5, <2>1, ByTagKeeps
<1>7. Len(log)' = n /\ polled' = n
  BY <1>2, <1>5
<1>8. /\ \A S : Even(S)' <=> Even(S)
      /\ \A S, tag : Count(S, tag)' = Count(S, tag)
  BY <1>2, EvenStays, CountStays
<1>9. ASSUME "split" \notin hist', late = {}
      PROVE  Even(1 .. n) /\ Even(N)
  <2>1. ~InCall /\ Even(1 .. p)
    BY <1>1, <1>5, <1>9 DEF Offloading, CallsPaired
  <2>2. /\ Count(1 .. n, "TIME_ioctl") \in Nat /\ Count(1 .. n, "TIME_invoke") \in Nat
        /\ Count(1 .. p, "TIME_ioctl") \in Nat /\ Count(1 .. p, "TIME_invoke") \in Nat
        /\ Count(N, "TIME_ioctl") \in Nat /\ Count(N, "TIME_invoke") \in Nat
    <3>1. /\ 1 .. n \subseteq 1 .. Len(log) /\ 1 .. p \subseteq 1 .. Len(log)
          /\ N \subseteq 1 .. Len(log)
      BY <1>3, <1>4, <1>5
    <3> QED
      BY <1>4, <3>1, CountType
  <2>3. Even(1 .. n)
    <3>1. ~(Count(1 .. n, "TIME_invoke") > Count(1 .. n, "TIME_ioctl"))
      BY <1>5, <2>1 DEF InCall, Number, Count, Tagged
    <3>2. Count(1 .. n, "TIME_ioctl") <= Count(1 .. n, "TIME_invoke")
      BY <1>5 DEF Offloading, CallsPaired
    <3> QED
      BY <2>2, <3>1, <3>2 DEF Even
  <2>4. /\ 1 .. n = (1 .. p) \cup N /\ (1 .. p) \cap N = {}
        /\ 1 .. p \subseteq 1 .. n /\ N \subseteq 1 .. n
    BY <1>3, <1>4, <1>5, <1>9
  <2>5. /\ Count(1 .. n, "TIME_ioctl") = Count(1 .. p, "TIME_ioctl") + Count(N, "TIME_ioctl")
        /\ Count(1 .. n, "TIME_invoke") = Count(1 .. p, "TIME_invoke") + Count(N, "TIME_invoke")
    <3>1. \A tag : Count((1 .. p) \cup N, tag) = Count(1 .. p, tag) + Count(N, tag)
      BY <1>4, <1>5, <2>4, CountApart
    <3> QED
      BY <2>4, <3>1
  <2> QED
    BY <2>1, <2>2, <2>3, <2>5 DEF Even
<1>10. CallsPaired'
  <2>1. Count(1 .. n, "TIME_ioctl")' <= Count(1 .. n, "TIME_invoke")'
    BY <1>5, <1>8 DEF Offloading, CallsPaired
  <2>2. "split" \notin hist' /\ late = {} => Even(1 .. n)' /\ Even(N)'
    BY <1>8, <1>9
  <2> QED
    BY <1>2, <1>6, <1>7, <2>1, <2>2 DEF CallsPaired
<1> QED
  BY <1>1, <1>2, <1>10 DEF Offloading, OffloadExact

\* The polls of the other streamers see no TIME line.
LEMMA OffloadingOther ==
  ASSUME IInv, Offloading, LogcatMore \/ CpuMore
  PROVE  Offloading'
<1>1. kind # "dmesg" /\ hist \subseteq hist' /\ UNCHANGED <<kind, log, late, due, offload>>
  BY DEF LogcatMore, CpuMore, Polled, logVars, frameVars
<1>2. PICK n : n = Len(log)
  OBVIOUS
<1>3. Len(log)' = n /\ \A S, tag : Count(S, tag)' = Count(S, tag)
  BY <1>1, <1>2, CountStays
<1>4. CallsPaired'
  <2>1. Count(1 .. n, "TIME_ioctl")' <= Count(1 .. n, "TIME_invoke")'
    BY <1>2, <1>3 DEF Offloading, CallsPaired
  <2> QED
    BY <1>1, <1>3, <2>1 DEF CallsPaired
<1> QED
  BY <1>1, <1>4 DEF Offloading, OffloadExact

\* When the threads start, no invocation has printed anything.
LEMMA OffloadingStart ==
  ASSUME IInv, Offloading, Start
  PROVE  Offloading'
<1>1. /\ gui = "start" /\ polled' = IF kind = "dmesg" THEN Len(log) ELSE 0
      /\ UNCHANGED <<kind, log, late, latest, hist, due, offload>>
  BY DEF Start
<1>2. \A i \in 1 .. Len(log) : log[i].tag \notin {"TIME_invoke", "TIME_ioctl"}
  BY <1>1, OldLog DEF IInv, Typed, Unstarted
<1>3. PICK n, L : n = Len(log) /\ L = LinesOf(latest.lines)
  OBVIOUS
<1>4. Len(log)' = n /\ LinesOf(latest.lines)' = L /\ (kind = "dmesg" => polled' = n)
  BY <1>1, <1>3 DEF LinesOf
<1>5. /\ \A S : Even(S)' <=> Even(S)
      /\ \A S, tag : Count(S, tag)' = Count(S, tag)
  BY <1>1, EvenStays, CountStays
<1>6. Even(1 .. n)
  BY <1>2, <1>3, EvenWithout
<1>7. CallsPaired'
  <2>1. Count(1 .. n, "TIME_ioctl")' <= Count(1 .. n, "TIME_invoke")'
    BY <1>3, <1>5 DEF Offloading, CallsPaired
  <2>2. kind = "dmesg" /\ "split" \notin hist /\ late = {} => Even(1 .. n)' /\ Even(L)'
    BY <1>3, <1>5, <1>6 DEF Offloading, CallsPaired
  <2> QED
    BY <1>1, <1>4, <2>1, <2>2 DEF CallsPaired
<1> QED
  BY <1>1, <1>7 DEF Offloading, OffloadExact

\* main is entered with no time due.
LEMMA InitOffloading == Init => Offloading
<1> SUFFICES ASSUME Init PROVE Offloading
  OBVIOUS
<1>1. /\ latest = [id |-> 0, fresh |-> FALSE, sample |-> 0, lines |-> [g \in Tags(kind) |-> {}]]
      /\ polled = 0 /\ due = 0 /\ offload = 0 /\ kind \in Kinds /\ log \in OldLogs
  BY DEF Init
<1>2. LinesOf(latest.lines) = {} /\ 1 .. polled = {}
  BY <1>1 DEF LinesOf
<1>3. Even({})
  BY EvenWithout
<1>4. \A i \in 1 .. Len(log) : log[i].tag \notin {"TIME_invoke", "TIME_ioctl"}
  BY <1>1, OldLog
<1>5. Count(1 .. Len(log), "TIME_ioctl") = 0 /\ Count(1 .. Len(log), "TIME_invoke") = 0
  BY <1>4, FS_EmptySet DEF Count, Tagged
<1>6. CallsPaired
  <2>1. Even(1 .. polled) /\ Even(LinesOf(latest.lines))
    BY <1>2, <1>3
  <2> QED
    BY <1>5, <2>1 DEF CallsPaired
<1> QED
  BY <1>1, <1>6 DEF Offloading, OffloadExact

\* Every step keeps the time shown equal to the time due.
LEMMA NextOffloading == IInv /\ LateOnly /\ Offloading /\ [Next]_vars => Offloading'
<1> SUFFICES ASSUME IInv, LateOnly, Offloading, [Next]_vars PROVE Offloading'
  OBVIOUS
<1>1. ASSUME UNCHANGED <<kind, log, late, polled, latest, hist, due, offload>>
      PROVE  Offloading'
  BY <1>1, OffloadingStays DEF Offloading, OffloadExact
<1>2. CASE CheckReqs \/ PollEvents \/ WindowClosed \/ PopData
  BY <1>1, <1>2 DEF CheckReqs, PollEvents, WindowClosed, PopData, logVars, streamVars, frameVars
<1>3. CASE StreamEnd \/ PushData \/ JoinThreads \/ Abort \/ UNCHANGED vars
  BY <1>1, <1>3 DEF StreamEnd, PushData, JoinThreads, Abort, vars, logVars, streamVars, frameVars
<1> QED
  BY <1>2, <1>3, OffloadingDevice, OffloadingDmesg, OffloadingOther, OffloadingStart,
     OffloadingFrame DEF Next

\* The offload time shown is that of the lines worked on since it was cleared or overwritten
\* by the figure of an SNPE benchmark, added to that figure, unless a poll fell between the
\* two TIME lines of an invocation or one of them was lost.
THEOREM OffloadExactHolds == Spec => []OffloadExact
<1>1. Offloading => OffloadExact
  BY DEF Offloading
<1>2. Sampling => LateOnly
  BY DEF Sampling
<1> QED
  BY <1>1, <1>2, Inductive, InitSampling, NextSampling, InitOffloading, NextOffloading, PTL
  DEF Spec

=============================================================================
