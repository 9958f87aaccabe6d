------------------------------ MODULE AtopStream ------------------------------
(***************************************************************************)
(* The data path of the atop monitor (android/cpp/src: main.cpp, atop.cpp, *)
(* fifo.cpp): the device prints log lines (adsprpc.c, kgsl_ioctl.c); a     *)
(* streamer thread polls its log for the lines after the last time stamp   *)
(* it has seen, keeps them as the latest batch in the streamer object and  *)
(* pushes a sample of the batch into a bounded FIFO; a frame of the GUI    *)
(* loop pops one sample, for the bars, and then adds the lines of the      *)
(* streamer's latest batch to the breakdown and the offload time; closing  *)
(* the window ends the threads and the program.                            *)
(*                                                                         *)
(* The streams share nothing but the GUI loop, which treats them one after *)
(* the other: a behaviour is about one stream, of one of the three kinds.  *)
(* A line is its position in the log; its text is a time stamp and a tag.  *)
(* The log of the CPU streamer is what /proc/stat adds up: ticks that a    *)
(* CPU spent busy or idle.                                                 *)
(***************************************************************************)
EXTENDS Integers, Sequences, FiniteSets, FiniteSetsExt, SequencesExt

CONSTANTS
  MaxData,     \* FIFO::max_data_sz
  MaxBatches,  \* bound: polls of the streamer
  MaxLines,    \* bound: lines the device prints
  MaxClicks    \* bound: buttons the user presses

ASSUME ConstantsOK ==
  {MaxData, MaxBatches, MaxLines, MaxClicks} \subseteq Nat

VARIABLES
  kind,      \* which streamer this is; never changes
  log,       \* the log on the device
  devlog,    \* the device prints lines for this log: kernel logging, or debug.nn.vlog
  before,    \* what is set at the end: off, or old_driver_logging_prop if it has a value
  since,     \* latest_ts: dmesg takes later lines, logcat lines from then on; total_tick
  th,        \* where the streamer thread is
  latest,    \* the streamer's latest_data, its sample and is_data_fresh
  fifo,      \* FIFO::data
  gui,       \* where the main thread is
  window,    \* window.isOpen()
  exiting,   \* the flag that ends the streamer threads
  paused,    \* utilization_paused
  status,    \* the button that switches logging shows it as on
  consumed,  \* data_got_consumed
  offload,   \* bench_summary.stats["offload"]
  running,   \* workloads_running: the benchmarks in benchmark_futures_q
  clicks,    \* buttons pressed so far
  first,     \* history: lines in the log that are no part of the stream
  polled,    \* history: lines in the log at the last poll
  late,      \* history: lines printed with the time stamp of a line polled before
  lost,      \* history: other lines that a poll found in the log and left out
  shown,     \* history: the sum of the samples that were popped
  given,     \* history: lines of new batches that were popped
  counted,   \* history: how often each line was worked on, until an overrun
  due,       \* history: what the summary was last set to, and the time of the lines since
  again,     \* history: lines that logcat's streamer hands out more than once
  hist       \* history: what happened that the streamer is not made for

logVars    == <<kind, log, devlog, before, first, late>>
streamVars == <<since, th, latest, polled, lost, again>>
frameVars  == <<window, exiting, paused, status, consumed, offload, running,
                clicks, shown, given, counted, due>>
vars == <<logVars, streamVars, fifo, gui, frameVars, hist>>

Kinds == {"dmesg", "logcat", "cpu"}
Lines == 1 .. MaxLines

\* What a line is: the line of a GPU ioctl or one of the two TIME lines of an invocation
\* in dmesg (the inner one is printed first), a line of one of two tags in logcat, or a
\* tick. The TIME line of another ioctl adds to the offload time as that of the GPU.
DmesgProbes == {"IOCTL", "TIME_invoke", "TIME_ioctl"}
LogcatProbes == {"ExecutionBuilder", "tflite"}
Tags(k) == CASE k = "dmesg"  -> DmesgProbes
             [] k = "logcat" -> LogcatProbes
             [] k = "cpu"    -> {"busy", "idle"}

NoTime == -1               \* an empty latest_ts_
Future == MaxLines + 2     \* later than every line

\* What stands in the log when atop starts.
OldLogs == {<<>>, <<[ts |-> 1, tag |-> CASE kind = "dmesg"  -> "IOCTL"
                                         [] kind = "logcat" -> "tflite"
                                         [] kind = "cpu"    -> "busy"]>>}

\* Init is the state in which main is entered.
Init ==
  /\ kind \in Kinds
  /\ log \in OldLogs
  /\ before \in CASE kind = "dmesg"  -> {"off"}
                   [] kind = "logcat" -> {"on", "off", "unset"}
                   [] kind = "cpu"    -> {"on"}
  /\ devlog = (before = "on")
  /\ status = FALSE
  /\ since = 0
  /\ th = "none"
  /\ latest = [id |-> 0, fresh |-> FALSE, sample |-> 0, lines |-> [g \in Tags(kind) |-> {}]]
  /\ fifo = <<>>
  /\ gui = "reqs"
  /\ window = TRUE /\ exiting = FALSE /\ paused = FALSE /\ consumed = FALSE
  /\ offload = 0 /\ running = 0 /\ clicks = 0 /\ polled = 0 /\ first = 0 /\ shown = 0
  /\ late = {} /\ lost = {} /\ given = {} /\ again = {} /\ hist = {}
  /\ counted = [i \in Lines |-> 0]
  /\ due = 0

-----------------------------------------------------------------------------
(* The start of the program *)

\* check_reqs, without --sim: the program exits unless exactly one device is connected
\* that allows adb, and adb is, or can be restarted as, root.
CheckReqs ==
  /\ gui = "reqs"
  /\ gui' \in {"start", "exited"}
  /\ UNCHANGED <<logVars, streamVars, fifo, frameVars, hist>>

\* latest_ts after the constructors of the streamers: dmesg starts after what is in the
\* log, logcat does not, and the first CPU sample covers all ticks since the boot.
FirstSince == CASE kind = "dmesg"  -> Len(log)
                [] kind = "logcat" -> NoTime
                [] kind = "cpu"    -> 0

\* The rest of main before its loop: the constructors, enable_kernel_logging, the threads.
Start ==
  /\ gui = "start"
  /\ since' = FirstSince
  /\ devlog' = (kind = "dmesg" \/ before = "on")
  /\ status' = devlog'
  /\ first' = IF kind = "dmesg" THEN Len(log) ELSE 0
  /\ polled' = first'
  /\ th' = "more"
  /\ gui' = "poll"
  /\ UNCHANGED <<kind, log, before, late, latest, lost, again, fifo, window, exiting, paused,
                 consumed, offload, running, clicks, shown, given, counted, due, hist>>

-----------------------------------------------------------------------------
(* The device *)

\* The program has not aborted.
Alive == gui # "aborted"

LastPrinted == IF log = <<>> THEN 1 ELSE log[Len(log)].ts
Number(tag) == Cardinality({i \in 1 .. Len(log) : log[i].tag = tag})

\* An invocation has printed its inner TIME line and not yet its outer one.
InCall == Number("TIME_invoke") > Number("TIME_ioctl")

\* The device prints a line, in the same tick of its clock as the last one or later.
\* Only a poll reads the log, so lines need only appear while the next poll is due.
Emit(tag) ==
  /\ devlog /\ Alive /\ th = "more" /\ Len(log) < MaxLines
  /\ \E ts \in IF kind = "cpu" THEN {LastPrinted + 1} ELSE {LastPrinted, LastPrinted + 1} :
       /\ log' = Append(log, [ts |-> ts, tag |-> tag])
       /\ late' = IF polled > 0 /\ ts = log[polled].ts THEN late \cup {Len(log) + 1} ELSE late
  /\ UNCHANGED <<kind, devlog, before, first, streamVars, fifo, gui, frameVars, hist>>

\* kgsl_ioctl_helper prints its line when the ioctl is over, if log_level_perf is 6; an
\* unknown command, one with too much data and a failing copy_in return before that.
KgslIoctl == kind = "dmesg" /\ Emit("IOCTL")

\* fastrpc_internal_invoke, once the answer of the DSP is there.
InvokeTime == kind = "dmesg" /\ Emit("TIME_invoke")

\* The end of fastrpc_device_ioctl for that invocation.
IoctlTime == kind = "dmesg" /\ InCall /\ Emit("TIME_ioctl")

\* NNAPI and its delegate for tflite, with debug.nn.vlog set.
LogcatLine == \E tag \in LogcatProbes : kind = "logcat" /\ Emit(tag)

CpuTick == \E tag \in {"busy", "idle"} : kind = "cpu" /\ Emit(tag)

-----------------------------------------------------------------------------
(* A streamer thread *)

LinesOf(batch) == UNION {batch[g] : g \in DOMAIN batch}

\* process_and_zip_dmesg_log and process_and_zip_logcat_log sort lines by their tag.
ByTag(S) == [g \in Tags(kind) |-> {i \in S : log[i].tag = g}]

LastTs(S) == Max({log[i].ts : i \in S})

\* The GUI has not yet worked on a batch it was given; until its first frame is over it
\* takes whatever is there for one (data_got_consumed starts as false).
Unhandled == fifo # <<>> \/ ~consumed

\* What a poll leaves behind: the new batch with its sample, and the histories.
Polled(batch, fresh, sample) ==
  /\ latest' = [id |-> latest.id + 1, fresh |-> fresh, sample |-> sample, lines |-> batch]
  /\ polled' = Len(log)
  /\ lost' = lost \cup ((polled + 1 .. Len(log)) \ (late \cup LinesOf(batch)))
  /\ th' = "push"
  /\ UNCHANGED <<logVars, fifo, gui, frameVars>>

\* The test of the loop of the streamer thread.
Running == Alive /\ th = "more" /\ ~exiting /\ latest.id < MaxBatches

\* Mutant of Newer: time stamps are read as whole seconds of two ticks.
NewerSeconds(i) == log[i].ts \div 2 > since \div 2

\* IoctlDmesgStreamer::more takes the lines after the last time stamp.
Newer(i) == log[i].ts > since

\* Mutant of Interactions: the numbers of the last poll are not reset.
InteractionsKept(batch) == latest.sample + Cardinality(batch["IOCTL"])

\* IoctlDmesgStreamer::interactions: the IOCTL lines of the batch, and 0 if it has none.
Interactions(batch) == Cardinality(batch["IOCTL"])

\* IoctlDmesgStreamer::more: read the log, sort the new lines by their probe, and
\* remember the time stamp of the newest.
DmesgMore ==
  /\ kind = "dmesg" /\ Running
  /\ LET new == {i \in 1 .. Len(log) : Newer(i)}
     IN  /\ since' = IF new = {} THEN since ELSE LastTs(new)
         /\ Polled(ByTag(new), new # {}, Interactions(ByTag(new)))
  /\ hist' = hist \cup (IF Unhandled THEN {"overrun"} ELSE {})
                  \cup (IF InCall THEN {"split"} ELSE {})
  /\ UNCHANGED again

\* logcat -d -T <time>: the lines from that time on, all without -T.
Logcat == {i \in 1 .. Len(log) : log[i].ts >= since}

\* Mutant of NextSince: the 1 ms is not added.
NextSinceIncluded(ts) == {ts, 0, Future}

\* The time for the next -T: 1 ms after the newest line, "to only get entries *after*
\* <time>". The log's time stamps have no year, for which date::parse takes the year 0:
\* in nanoseconds that overflows, and what is formatted for logcat can be the right
\* time, as it is where the clock counts microseconds, or months before or after it.
NextSince(ts) == {ts + 1, 0, Future}

\* LogcatStreamer::more: only the tags that have lines are replaced, and the lines of
\* the first poll are not called new.
LogcatMore ==
  /\ kind = "logcat" /\ Running
  /\ LET read == Logcat
         batch == [g \in Tags(kind) |->
                     IF ByTag(read)[g] = {} THEN latest.lines[g] ELSE ByTag(read)[g]]
     IN  /\ \/ read = {} /\ since' = since
            \/ read # {} /\ since' \in NextSince(LastTs(read))
         /\ Polled(batch, IF read = {} THEN FALSE ELSE since # NoTime \/ latest.fresh, 0)
         /\ again' = again \cup (LinesOf(batch) \ read)
                           \cup (IF since' = 0 THEN 1 .. Len(log) ELSE {})
         /\ hist' = hist \cup (IF Unhandled THEN {"overrun"} ELSE {})
                         \cup (IF since' = Future THEN {"future"} ELSE {})

\* CpuUtilizationStreamer::utilizations: the ticks since the last poll that were not idle.
\* They are shown as a percentage of all of these ticks.
CpuMore ==
  /\ kind = "cpu" /\ Running
  /\ LET new == since + 1 .. Len(log)
     IN  Polled(ByTag(new), FALSE, Cardinality(new) - Cardinality(ByTag(new)["idle"]))
  /\ since' = Len(log)
  /\ UNCHANGED <<again, hist>>

\* The flag is set: the thread ends.
StreamEnd ==
  /\ Alive /\ th = "more" /\ exiting
  /\ th' = "done"
  /\ UNCHANGED <<logVars, since, latest, polled, lost, again, fifo, gui, frameVars, hist>>

\* FIFO::push_data: spin while the queue holds more than max_data_sz elements.
PushData ==
  /\ Alive /\ th = "push"
  /\ ~(Len(fifo) > MaxData)
  /\ fifo' = Append(fifo, latest.sample)
  /\ th' = "more"
  /\ UNCHANGED <<logVars, since, latest, polled, lost, again, gui, frameVars, hist>>

-----------------------------------------------------------------------------
(* The GUI loop *)

\* The events of a frame.
PollEvents ==
  /\ gui = "poll"
  /\ gui' = "pop"
  /\ UNCHANGED <<logVars, streamVars, fifo, frameVars, hist>>

\* Mutant of WindowClosed: exiting is not set.
WindowClosedOnly ==
  /\ gui = "poll" /\ window
  /\ window' = FALSE
  /\ gui' = "pop"
  /\ UNCHANGED <<logVars, streamVars, fifo, exiting, paused, status, consumed, offload,
                 running, clicks, shown, given, counted, due, hist>>

\* The event that closes the window; the frame is still finished.
WindowClosed ==
  /\ gui = "poll" /\ window
  /\ window' = FALSE
  /\ exiting' = TRUE
  /\ gui' = "pop"
  /\ UNCHANGED <<logVars, streamVars, fifo, paused, status, consumed, offload, running,
                 clicks, shown, given, counted, due, hist>>

\* FIFO::pop_data. This thread is the only consumer.
Pop ==
  /\ fifo' = Tail(fifo)
  /\ shown' = shown + Head(fifo)

\* A sample is popped if there is one, and is on the bars from then on.
PopData ==
  /\ gui = "pop"
  /\ \/ /\ ~paused /\ fifo # <<>>
        /\ Pop
        /\ given' = IF "overrun" \notin hist /\ latest.fresh
                    THEN given \cup LinesOf(latest.lines) ELSE given
        /\ consumed' = FALSE
     \/ /\ paused \/ fifo = <<>>
        /\ UNCHANGED <<fifo, shown, given, consumed>>
  /\ gui' = "frame"
  /\ UNCHANGED <<logVars, streamVars, window, exiting, paused, status, offload, running, clicks,
                 counted, due, hist>>

\* The lines a frame works on: the streamer's latest ones, not the ones popped.
Worked == IF latest.fresh /\ ~consumed THEN LinesOf(latest.lines) ELSE {}

\* The time a line stands for; the inner time of an invocation is taken off. In
\* update_tflite_driver_offload the groups of both patterns are counted, so a line of
\* ExecutionBuilder is read as one of tflite and its two numbers are empty.
Time(i) == CASE log[i].tag = "IOCTL"            -> 1
             [] log[i].tag = "TIME_ioctl"       -> 2
             [] log[i].tag = "TIME_invoke"      -> -1
             [] log[i].tag = "tflite"           -> 1
             [] log[i].tag \in {"ExecutionBuilder", "busy", "idle"} -> 0

Total(S) == MapThenSumSet(Time, S)

\* update_tflite_offload drops a negative time.
AtLeastZero(n) == IF n >= 0 THEN n ELSE 0

\* Mutant of KernelOffload: the inner times are not taken off.
KernelOffloadOuter(S) == AtLeastZero(Total({i \in S : log[i].tag = "TIME_ioctl"}))

\* update_tflite_kernel_offload: the outer less the inner times of a batch.
KernelOffload(S) ==
  AtLeastZero(Total({i \in S : log[i].tag \in {"TIME_ioctl", "TIME_invoke"}}))

\* update_tflite_kernel_gpu_offload and, for each tag, update_tflite_driver_offload.
GpuOffload(S) == AtLeastZero(Total({i \in S : log[i].tag = "IOCTL"}))
DriverOffload(S) == AtLeastZero(Total({i \in S : log[i].tag \in LogcatProbes}))

\* ioctl_breakdown: the count of every line worked on goes up.
Counted == IF "overrun" \in hist THEN counted
           ELSE [i \in Lines |-> counted[i] + (IF i \in Worked THEN 1 ELSE 0)]

\* toggle_driver_logging reads the property and sets the other value; the buttons for
\* kernel logging set what they do not show.
Switched == IF kind = "logcat" THEN ~devlog ELSE ~status

\* What the user may do in a frame: pause, clear the summary, run a benchmark, or switch
\* logging on the device.
Click(c) ==
  /\ clicks' = IF c = "none" THEN clicks ELSE clicks + 1
  /\ clicks' <= MaxClicks
  /\ paused' = IF c = "pause" THEN ~paused ELSE paused
  /\ c = "switch" => kind # "cpu"
  /\ status' = IF c = "switch" THEN ~status ELSE status
  /\ devlog' = IF c = "switch" THEN Switched ELSE devlog

\* summarize_snpe_benchmark_output overwrites the offload time by a number from the
\* output of the benchmark, or by 0 when there is none.
NoFigure == -1
SnpeOffload == {0, 3}

\* What a frame makes of the time shown, n, in the order of the code: it adds the time of
\* the lines, then come "Clear", the figure of a benchmark that ended, and "Run", which
\* clears too.
Summed(n, time, c, fig) ==
  IF c = "run" THEN 0 ELSE IF fig # NoFigure THEN fig ELSE IF c = "clear" THEN 0 ELSE n + time

\* The rest of the frame: work on the data, see whether the oldest benchmark has ended,
\* look at the buttons, mark the data consumed. Only with "Summarize" checked and SNPE
\* selected by then does the end of a benchmark change the offload time.
Frame ==
  /\ gui = "frame"
  /\ \E c \in {"none", "pause", "clear", "run", "switch"},
        ended \in {0, 1}, fig \in SnpeOffload \cup {NoFigure} :
       /\ Click(c)
       /\ ended <= running
       /\ fig # NoFigure => ended = 1
       /\ running' = running - ended + (IF c = "run" THEN 1 ELSE 0)
       /\ due' = Summed(due, Total(Worked), c, fig)
       /\ offload' = Summed(offload, KernelOffload(Worked) + GpuOffload(Worked)
                                     + DriverOffload(Worked), c, fig)
  /\ counted' = Counted
  /\ consumed' = TRUE
  /\ gui' = IF window THEN "poll" ELSE "join"
  /\ UNCHANGED <<kind, log, before, first, late, streamVars, fifo, window, exiting, shown,
                 given, hist>>

\* An exception that nobody catches ends the program: of a benchmark that failed, of the
\* framework mlperf, or of a shell that cannot be started, here or in the thread.
Abort ==
  /\ gui \in {"poll", "pop", "frame", "join"}
  /\ gui' = "aborted"
  /\ UNCHANGED <<logVars, streamVars, fifo, frameVars, hist>>

\* After the loop: join the threads, then set the property back and disable kernel
\* logging on the device. A property that was not set is read as empty, and setprop
\* refuses to be called without a value.
JoinThreads ==
  /\ gui = "join" /\ th = "done"
  /\ gui' = "ended"
  /\ devlog' = IF before = "unset" THEN devlog ELSE before = "on"
  /\ UNCHANGED <<kind, log, before, first, late, streamVars, fifo, frameVars, hist>>

Next ==
  \/ KgslIoctl \/ InvokeTime \/ IoctlTime \/ LogcatLine \/ CpuTick
  \/ DmesgMore \/ LogcatMore \/ CpuMore \/ StreamEnd \/ PushData
  \/ CheckReqs \/ Start \/ PollEvents \/ WindowClosed \/ PopData \/ Frame \/ JoinThreads
  \/ Abort

Spec == Init /\ [][Next]_vars

\* The thread and the GUI loop keep running; nothing obliges the device to print a
\* line, the user to do anything or the program to abort.
Fairness ==
  /\ WF_vars(DmesgMore \/ LogcatMore \/ CpuMore \/ StreamEnd \/ PushData)
  /\ WF_vars(CheckReqs \/ Start \/ PollEvents \/ PopData \/ Frame \/ JoinThreads)

FairSpec == Spec /\ Fairness

-----------------------------------------------------------------------------
(* Correctness *)

\* Between frames, every line of the new batches that were popped has been worked on
\* exactly once and no other line at all, as main.cpp says ("One iteration => data in
\* streamer has been processed"), provided the log was never polled before the first
\* frame was over or while the GUI had a batch that it had not worked on: the frame works
\* on the latest batch and not on the one it popped. Lines that logcat's streamer hands
\* out more than once are excepted.
LinesCountedOnce ==
  gui = "poll" /\ "overrun" \notin hist =>
    \A i \in Lines : i \notin again => counted[i] = IF i \in given THEN 1 ELSE 0

\* What the streamer's sample counts.
Sampled(i) == log[i].tag \in {"IOCTL", "busy"}

\* The sum of a sequence of samples.
Added(s) == FoldLeft(+, 0, s)

\* The bars show every IOCTL line and every busy tick exactly once, however the polls, a
\* pause and the full FIFO fall together: the samples popped, the ones in the FIFO and the
\* one that waits for a place in it add up to the lines polled so far. Lines with the time
\* stamp of a line polled before are excepted.
SamplesExact ==
  kind # "logcat" =>
    shown + Added(fifo) + (IF th = "push" THEN latest.sample ELSE 0)
      = Cardinality({i \in first + 1 .. polled : Sampled(i)} \ late)

\* A line that was in the log when it was polled has been in a batch, unless it carries
\* the time stamp of a line polled before it was printed (the streamer asks for later
\* ones), or the time for logcat came out in the future.
NoLineLost == lost # {} => "future" \in hist

\* The offload time shown is that of the lines worked on since it was cleared or since the
\* summary of an SNPE benchmark last overwrote it, added to what that summary says, unless
\* a poll fell between the two TIME lines of an invocation, or one of them was lost: the
\* negative time of a batch with only the inner line is dropped, not carried over.
OffloadExact ==
  "split" \notin hist /\ late = {} => offload = due

\* A thread spins in push_data on a full FIFO.
Spinning == th = "push" /\ Len(fifo) > MaxData

\* After the window is closed, nothing but a thread that spins on a full FIFO and an
\* exception that nobody catches keeps the program from ending, with kernel logging
\* switched off and debug.nn.vlog as it was found. A property that was not set before is
\* excepted: it cannot be set back to that, and stays as it was last toggled.
ExitUnlessFull ==
  ~window ~> \/ gui = "ended" /\ (before = "unset" \/ devlog = (before = "on"))
             \/ Spinning
             \/ gui = "aborted"
=============================================================================
