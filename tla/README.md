# Verification of reasoned-soc

The repository instruments a Pixel 3 in order to see what happens when neural
networks are offloaded to a DSP. Its own logic is in two programs that run at
the same time and are hard to test:

* `android/adsprpc.c`, the Linux driver through which user processes call
  functions on the DSPs (FastRPC). Many threads, the glink receive callback
  and the restart notifiers share contexts, channels, sessions and mappings.
* `android/cpp/src`, the monitor *atop*: a GUI loop, three streamer threads
  that poll the device, and a pool of threads that runs benchmarks.

The TLA+ modules here model their concurrency, TLC checks them on small
instances, and TLAPS proves the safety invariants of all but one of the
components for every size.

## Inventory

| Component | State | Operations | Interaction | Hard behaviour | Correct when |
|---|---|---|---|---|---|
| Invocations (`adsprpc.c` 1080-1430, 1891-1938, 2067-2216, 2972-3003) | `smq_invoke_ctx`, `ctxtable`, lists `pending` and `interrupted` of a file | invoke, restart after a signal, close of a file | messages to the DSP and back; notifiers complete contexts | reuse of ids, signals, restarts of DSP and PD, callback without a lock | contexts neither leaked nor freed twice; the answer reaches its own call; every call returns |
| Channels (2906-2922, 3005-3028, 3139-3249, 3547-3619, 4025-4063) | `chan`, `kref`, link and port state, `ssrcount`, `smd_mutex` | open, close, restart notifications, glink events | every invocation goes through the handle; shutdown triggers the completion of contexts | timeouts against late events, count against restarts, waiting under a mutex | handle and glink's port agree; nobody loses the channel; opens return |
| Sessions (2926-3051, 3684-3727, 890-905) | `session[].used`, `fl->sctx`, `fl->secsctx` | GETINFO, secure mapping, close | mappings and buffers use the session's SMMU | a search without the mutex | a session serves one file and is given back |
| Maps and buffers (534-1077, 2511-2904) | `fastrpc_mmap` with `refs`, buffer cache, remote buffers | mmap, munmap, alloc, free | calls hold maps; the remote heap survives files | counts shared by several owners, restarts | no use after free, no leak, cache bounded |
| Marshalling (1109-1187, 1451-1889) | overlaps, copied and mapped arguments | `get_args`, `put_args`, cache maintenance | inside a call | overlapping buffers, sizes | copies are disjoint and complete |
| Processes (2240-2509) | `fl->pd`, `init_mem`, static PD attach | INIT, release | opens the channel, maps memory, calls the DSP | one step of several failing | a failed INIT leaves nothing behind |
| Device file (494-532, 2044-2063, 3122-3137, 3251-3545, 3621-4023) | `fl->cid`, `sctx`, `tgid`, QoS request, `fastrpc_perf` per thread, debugfs entry, `logging_enabled` | open, ioctl dispatch, GETINFO, CONTROL, SETMODE, GETPERF, debugfs, release | calls, sessions, processes; read by atop through dmesg | ioctls of one process without a common lock, a reader during release | what a file acquired is its own and gone after release |
| Module and probing (4097-4649) | registrations, session tables and counts, protection domains, VMIDs | init, probe, deinit, exit | fills the table that sessions are taken from | one step of several failing | what can be is taken back; counted sessions are usable |
| atop data path (`main.cpp` 395-510, 631-653, 875-947; `fifo.*`) | latest batch, three FIFOs, flags | poll, push, pop, frame, exit | streamer threads and GUI | queue at its limit, spinning producer, exit | every batch is worked on; the program ends |
| atop benchmark pool (`ctpl.h`, `atop.cpp` 393-480, `main.cpp` 659-675) | queue, flags, `nWaiting`, futures | run, stop, destructor | GUI starts benchmarks and polls futures | lost wake-ups, stop against pop | every benchmark runs once; stop returns |
| atop streamers (`atop.cpp` 130-332, 559-639, 760-1037) | last timestamp seen, latest lines | poll dmesg, logcat, /proc/stat; offload times | feed the data path | equal timestamps, pairs of lines split over polls, times without a year | every new line is taken once |
| atop parsing (`atop.cpp` 483-557, 641-758) | summary per key | summarise the output of a benchmark | GUI shows it for the selected framework | benchmarks that end out of order or share log files | numbers belong to the latest benchmark |
| `graph_app.c` | input chunks | run a network on the dev board through the vendor's library | | sequential | |
| KGSL excerpts | ioctl timing, log switches | ioctl dispatch | read by atop through dmesg | | |
| scripts, plots, notebooks, kernel configuration | | offline evaluation | | | |
| `date.h` | | | vendored | | |

The hazards that follow from this table are listed line by line in
`PROJECT.json`; each names the properties that would catch it.

## Modules

### FastRpcInvoke

One action per stretch of `fastrpc_internal_invoke` (and of the functions it
calls) that no other actor can observe half done: code that touches private
data only, or runs under one spin lock. `pc[t]` is the stretch a thread comes to
next, `cur[t]` its local `ctx`, `call[t]` its arguments and outcome.

| Code | Actions |
|---|---|
| `fastrpc_device_open`, `fastrpc_channel_open` | `DeviceOpen`, `ChannelOpen` |
| `fastrpc_internal_invoke`, `context_restore_interrupted` | `InvokeStart` |
| `context_alloc` | `ContextAlloc`, `ContextSlot` |
| `get_args`, `fastrpc_invoke_send`, `glink_tx` | `InvokeSend`, `GlinkTx` |
| the wait, `put_args`, `bail` | `WaitDone`, `WaitInterrupted`, `PutArgs`, `ContextSaveInterrupted`, `ContextUnlink`, `ContextFree`, `InvokeReturn` |
| `fastrpc_file_free` | `FileFreeStart` (the release call runs through the actions above), `FileUnhook`, `FileDtor` |
| `fastrpc_glink_notify_rx` | `RxCheck`, `RxNotify` (two steps, since it holds no lock) |
| `fastrpc_restart_notifier_cb`, `fastrpc_notify_drivers` | `SsrShutdown`, `NotifyDrivers`, `SsrPowerup` |
| `fastrpc_pdr_notifier_cb` | `PdrDown`, `NotifyPdrDrivers` |
| the DSP (external) | `DspAnswer`, `DspCrash`, `Lost` |

A context is an address from `Ctxs`; an address that was freed can be allocated
again. Its id is, as in the code, the page of the address with the table index,
so two contexts in one page can have the same id one after the other. `ser`
numbers the calls and exists only so that properties can tell answers apart.
`get_args` and `put_args` contribute their success or failure. The closing of
the channel by the last file is written here as the code intends it; whether
the reference count achieves that is the question of FastRpcChannel.

### RemoteCall, and the refinement of it

RemoteCall is what `FASTRPC_IOCTL_INVOKE` promises, without contexts, tables,
lists or messages: a call brings a job, the job is posted to the DSP at most
once and answered at most once, success takes a good answer to that very job,
and a signal leaves the job behind for the next call of the thread. The end of
FastRpcInvoke holds the refinement mapping (`Promise`): a job is the serial number of the call
that brought it; it is fresh until `glink_tx`, posted while the DSP, glink or the
receive callback has it, good once its context holds its own answer with retval 0,
and given up when the context is freed. `KeepsPromise` is `Promise!Spec`. The
promise is `voided` from the moment the driver frees a context whose answer is
still outstanding (`abandoned`), which closing a file and a PD restart can do.

### FastRpcChannel

One channel, its files, and glink. `pc[f]` is where a file's thread is in
`fastrpc_channel_open` or `fastrpc_file_free`. The completions `work` and
`workport` are counters, because a late event can leave one behind. `gl` is
glink's own view of the port. Calls do not appear, with one exception: the call
that unmaps the remote heap is made under `smd_mutex`, and its wait (`HeapReply`)
is what can block everybody. The `smd` transport, which this device does not
use, and ramdumps are left out.

### FastRpcSession

The session table of one channel. `fastrpc_session_alloc_locked` is two kinds of
steps, reading an entry (`SessionScan`) and marking it (`SessionTake`), because
GETINFO runs it without the mutex; two GETINFOs can therefore get the same
ordinary session, and the properties are about the secure ones, which only
searches under the mutex hand out. A channel with an empty table, for which the
driver shares entry 0, is not modelled. Shared context banks are taken not to be
secure: `fastrpc_cb_probe` reads the two properties independently (4191-4194), and a
bank that the device tree declared to be both would be handed out to several files
by design, against `SecureExclusive`.

### FastRpcMaps

The memory of the driver: `map` (`struct fastrpc_mmap`), `buf`
(`struct fastrpc_buf`), `initMem` and `map_mutex`. A step is a stretch under
`fl_map_mutex` or a `hlock`, or the return of a call to the DSP with the private
code after it; such a call is one step here that succeeds or fails.

| Code | Actions and operators |
|---|---|
| `fastrpc_mmap_find`, `_create`, `_free`, `_remove` | `Find`, `Share`, `Create`, `NewMap`, `CreateFails`, `Drop`, `Listed`, `Removable` |
| `fastrpc_buf_alloc`, `fastrpc_buf_free` | `BufAlloc`, `Cached`, `BufCache` |
| `get_args`, `put_args`, `context_free` | `Invoke`, `MapBufs`, `MapHandles`, `AllocArgs`, `PutOutBufs`, `PutFdlist`, `ContextFree` |
| MMAP, MUNMAP, MUNMAP_FD | `InternalMmap`, `AddPages`, `MmapOnDsp`, `InternalMunmap`, `MunmapPages`, `MunmapOnDsp`, `MunmapFd` |
| INIT | `InitCreate`, `InitFile`, `InitMem`, `InitDone`; `InitStatic`, `InitHeap`, `InitStaticDone` |
| restarts | `Restart`, `ChannelOpen`, `RemoveSsr`, `RemoveSsrDone` |
| `fastrpc_file_free` | `FileFree` |
| the DSP (external) | `DspRuns`, with the handles it lets go of |

The code keeps one number, `refs`. The model has it too, and next to it who owns
the references (`keep`, `hrefs`, `urefs`, and the threads that hold the mapping), so that
`RefsExact` can compare the two. A MUNMAP brings an address on the DSP and a length from user
space and nothing checks them: `fastrpc_mmap_remove` compares them with what is on the lists
and asks for a count of 1. Every mapping that the DSP has not mapped has address 0, so
`Listed` leaves out nothing that is on a list, and a MUNMAP may take the mapping of a call, of
an INIT or of an MMAP under way. `Owed` says which mappings a MUNMAP is meant for.

### FastRpcArgs

`context_build_overlap`, the loops of `get_args` that size, place and copy
arguments, and the cache maintenance around the call, one action per phase with
its loop as a fold over the sorted buffers. Addresses and sizes are numbers modulo
`AddrMax` (`Word`), as `uintptr_t` and `size_t` are modulo 2^64: a buffer can wrap, and so can
`copylen` and the remaining length that is checked against it. The check of one length against
`LONG_MAX` is there; `copylen >= 0` is always true. `sort` returns any order that its comparison
allows. The reference definition is in the properties: the message must hold
byte by byte what the buffers hold in user memory.

### FastRpcFile

A file of the device as the threads of one process use it. A step is one access
to state that they share, since the driver takes no lock around GETINFO, CONTROL
or SETMODE. INVOKE, MMAP and INIT appear with their entry checks and with what
they leave in the file or on the DSP. An INIT is two steps: `InitProcess` names the process, by
`fl->tgid` or, for a static one, by `current->tgid`, and `InitOnDsp` is the call that creates it
under that name, which a SETMODE of another thread may precede. One process uses the file, so
`current->tgid` is what `fl->tgid` was at first. `reader` is a process with the file's entry
in debugfs open; `debugfs_remove` waits for a reader that is inside.

### FastRpcModule

`fastrpc_device_init` step by step, with the labels that undo it
(`Unwound`), `fastrpc_device_exit`, `fastrpc_deinit`, and the probes of context
banks in both bindings, of the memory region, the VMIDs and the protection domains, with
what each registers. The kernel's services succeed or fail. `arm_iommu_create_mapping` leaves
an error pointer in the table when it fails, and `fastrpc_deinit` hands whatever is not NULL to
`arm_iommu_release_mapping`: the model ends in `oops` there, with the entries behind it
as they were (`Reached`). The platform driver is never unregistered, so devices are
probed also after an init that failed or an exit.

### AtopStream

The device's log, one streamer thread, its FIFO and the GUI loop; `kind` is which
of the three streamers it is (they share nothing but the GUI loop, so one at a time is
enough). The device prints lines (`KgslIoctl`, `InvokeTime`, `IoctlTime`,
`LogcatLine`, `CpuTick`) with time stamps that may repeat. The thread is
`DmesgMore`, `LogcatMore` or `CpuMore` (the test of `exiting`, the poll, the
sample), `PushData` and `StreamEnd`; main is `CheckReqs`, `Start`, then per frame
`PollEvents` or `WindowClosed`, `PopData`, `Frame` with at most one click, and
`JoinThreads`; `Abort` is an exception that nobody catches. A frame adds the time of the lines
first, then "Clear" may be pressed, then the oldest benchmark may have ended, whose
summary, if SNPE is selected, overwrites the offload time, and then "Run" may be pressed (`Summed`);
`running` is the number of benchmarks that are waited for. `push_data` spins without the lock; since one thread pushes and one
pops, the size it reads only shrinks afterwards, so test and push are one step.
A line stands for one unit of time of its kind, the inner time of an invocation
being taken off. `date::parse` gives a time without a year, whose nanoseconds
overflow; what logcat is asked for next is one of the outcomes builds can give.
`debug.nn.vlog` is on, off or not set at first (`before`): `getprop` prints nothing for
a property that is not set, and the `setprop` at the end, which then has no value, does nothing.

### ThreadPool

`ctpl.h` as `run_benchmark` uses it. A worker's life is `PopTask`, `TaskDone`,
`LockWait`, `PredPop`, `PredDecide`, `Sleep`, `Relock`; the predicate of
`cv.wait` is split because the queue and the flags change without the pool's
mutex. The GUI thread is `SelectFramework`, `Run`, `CheckIdle`, the steps of
`stop`, `Push`, `NotifyOne`, `PollFuture`, `ClearSummary` and `Exit`. The summary
holds, per key, the number of the benchmark whose figure it shows. `resize` to
fewer threads is never called.

## Runs

| Run | Shows |
|---|---|
| `invoke_recycle` | `ContextAccounted`, `TableExact`, `ClosedFileClean`; answers reach their own call as long as nothing was abandoned (`OwnAnswerUnlessAbandoned`), and nothing is abandoned on the ordinary paths (`NoEarlyFree`) |
| `invoke_restart` | with a restart of the DSP and of the PD: `PendingExact`, `OneSavedCall`, `NoLostCall`; and `KeepsPromise`, the refinement of RemoteCall |
| `invoke_live` | `CallReturns` |
| `invoke_stale` | finding: the receive callback uses a context that was freed after it was checked |
| `channel` | `KrefCovers`, `HandleLive`, `NoOrphan`, `ChannelKept`, `SuccessHasChannel`; `OpenReturns`, up to a crash of the DSP during the unmapping of the remote heap |
| `session_secure` | `SecureExclusive`, `SecureReturned` |
| `maps` | `RefsExact`, `NoUseAfterFree`, `HeapReturned`, `CloseFreesAll` |
| `args` | `CopiesFaithful`, `CacheClean` |
| `file` | `QosReleased`, `ReaderLive`, `SessionOfChannel`, `ProcessEnds` |
| `module` | `Unwinds`, `SessionsBacked`, `MappingsReturned` |
| `stream` | `LinesCountedOnce`, `NoLineLost`, `SamplesExact`, `OffloadExact`; `ExitUnlessFull` |
| `pool` | `TasksAccounted`, `SummaryInOrder`; `TaskRuns`, `StopReturns` |

Properties that hold only with exceptions name them. Each exception is a
weakness of the code at a line of the hazard list; the property shows that
nothing else breaks the guarantee.

| Exception | What happened |
|---|---|
| `abandoned` (Invoke) | a context was freed with its answer outstanding |
| `misput` (Channel) | a file may drop a reference it does not hold: its open failed after `refcount` was set, or its close met a restart |
| `timedout` (Channel) | an open gave up and its port connected later |
| `lost` (Session) | `fastrpc_file_free` returned early and forgot a secure session |
| `stolen` (Maps) | MUNMAP_FD for a KEEP_MAP that found the mapping there; the call that still has it may drop whatever is allocated at its address next, a remote heap included |
| `ssrtook` (Maps) | the removal of the heap after a restart met an MMAP or INIT under way |
| `taken` (Maps) | a MUNMAP unhooked a mapping that nobody owed one, of a call or of an MMAP or INIT under way; who still has it may drop whatever is at its address next |
| `shadowed`, `unverified` (Maps) | an error of taking a heap back is lost in an inner variable, or not looked at |
| `lostmap`, `lostinit` (Maps) | a persistent mapping whose creation failed; the memory of a first INIT that a second replaced |
| mixed buffers (Args, `Unmixed`) | a copied buffer overlaps a mapped one, and is placed as if both were copied |
| wrapping lengths (Args, `Wraps`) | the lengths of at least two copied buffers add up to more than a `size_t` holds |
| `raced` (File) | two GETINFOs of one file at the same time; its session is of another channel, and its release may ask another channel for its process |
| `excused` (File) | the release call failed, or SETMODE renamed the file after INIT, during it, or before a static INIT |
| `Unreturned` (Module) | the platform driver, the assignment of the heap, the callback of the service locator and the notifiers of protection domains: no code takes them back |
| `legacy`, `lost`, `late`, `after` (Module) | a mapping shared by several sessions, overwritten by a later probe, or made after the module had gone; other registrations made after it had gone |
| `unreached`, `oops` (Module) | the channels behind an error pointer that `fastrpc_deinit` dies of |
| `overrun` (Stream) | the log was polled while the GUI had a batch it had not worked on |
| `again`, `late`, `future` (Stream) | lines logcat's streamer hands out again; lines with a time stamp already polled; a next time that overflowed into the future |
| `split` (Stream) | a poll between the two TIME lines of an invocation |
| `aborted` (Stream) | an exception that nobody catches ended the program |
| `unset` (Stream) | `debug.nn.vlog` was not set when atop started |
| `mixed` (Pool) | SNPE benchmarks that ran at the same time |

### Bounds

* `invoke_recycle`: two threads, one file, two contexts in one page and a table
  with one entry, four calls with two kinds of scalars. The second context finds
  the table full, and ids repeat. `invoke_restart` and `invoke_live`: two calls
  and a restart of each kind; two contexts in different pages. A call can only
  be confused with one other, and every notifier can meet every stage of a call.
* `channel`: two files, so that one can open while the other closes; two
  restarts, the second of which can hit the unmapping caused by the first; three
  INIT or MMAP ioctls, one mapping of the remote heap.
* `session_secure`: two threads and two files for four entries, one of them
  secure and one shared.
* `maps`: two threads of one file, three operations of any kind and one restart,
  two mappings and two buffers for one fd: a mapping is shared by two operations
  while a third gives it up, and allocation can fail.
* `args`: three buffers, the last an output, or two with any split, that start at 1
  to 5 with lengths 0, 1 and 3, copied or mapped, in an address space of 16 with
  pages of 8, lines of 2 and an alignment of 4: disjoint, touching,
  overlapping and nested buffers all occur. Pairs of outputs with lengths up to 13 wrap at the end
  of the address space, are refused for more than `LONG_MAX` bytes, wrap `copylen`, or make it 0.
* `file`: two threads, one file, four ioctls, one restricted channel and one that
  is not, and a debugfs reader; the races need two ioctls after two that set the
  scene.
* `module`: two channels with two sessions each, two devices for the first and one for the
  second, a legacy device having up to two stream ids: a table fills up in the middle of
  one, and an error pointer in the first table hides the second.
* `stream`: a FIFO bounded by 1, three polls, two lines (one may stand there at the
  start) and one click: enough to exceed the bound by the one element the code
  allows, to spin, to be overrun, to split a pair of lines, and to have an SNPE benchmark
  end between two batches.
* `pool`: two threads and three benchmarks, so that one waits in the queue while
  all threads are busy.

Symmetry is used for threads, files and interchangeable addresses in safety runs
only. Deadlock is not checked where a system may stop: the bounds on calls and
restarts end every behaviour, and the programs end; blocked threads are what the
liveness properties are about.

### Fairness

* `FastRpcInvoke`: a thread inside the kernel runs on; the receive callback and
  the notifiers are called for what is there; a DSP that runs answers, one that
  crashed is restarted by the subsystem driver. No user has to do anything. That the
  notifiers get `smd_mutex` is part of this; the one case in which they do not, a heap that is
  unmapped under the mutex while the DSP crashes, is left to `OpenReturns` of FastRpcChannel.
* `FastRpcChannel`: a thread inside the driver runs on, its waits for glink being
  bounded by `RPC_TIMEOUT`; a crashed DSP is restarted. glink itself need not
  answer.
* `AtopStream`: thread and GUI loop run on; neither the device has to print, nor
  the user to close the window, nor a benchmark to end.
* `ThreadPool`: threads run on and a benchmark ends; whoever wants the mutex gets
  it some time (strong fairness on taking it), since the workers hold it only for
  an evaluation of the predicate.

## Proofs

Every component but the marshalling has a module of proofs. The theorems hold for
any sets of threads, files, channels, contexts, sessions, mappings, buffers and
devices and any bound on calls, restarts, polls and presses; they assume only the
module's named assumption on its constants (non-empty sets, typed functions, `Nil` outside them), which TLC
evaluates in every run. In each module `IInv` is the inductive invariant, checked with
TLC before it was proved; `Inductive` proves `Spec => []IInv` with one lemma per
action, and each `...Holds` theorem states the property of a run and follows from `IInv`.

### FastRpcInvokeProofs

Four layers. The first is the structure of lists and table (`IInv`): `TypeCorrect`,
`ContextsAccounted`, `PendingIsExact`, `TableIsExact`, `SavedCallIsUnique` and
`CloseIsClean`. None of them is inductive. That a thread has one saved call, for
instance, needs that a saved context's owner is not in the middle of another user call of
the same file (`SavedOK`), which needs that the context a thread holds is its own
(`HeldIsOwn`), except in the destructor of the lists, where the thread is alone in
the file (`CloserAlone`, `Phases`). The many actions that leave the lists alone are
covered by `Stay` and `Move`.

The second layer (`Calls`, proved with the first at hand) relates contexts to messages:
`NoLostCallHolds` and `OwnAnswerUnlessAbandonedHolds`. The argument:

* a serial number stands for one call (`Serials`), and a message in flight names slot,
  page, file and kind of its context as long as that exists (`MessagesMatch`). With
  `TableExact`, the receive callback finds the context by either of its two reads;
* a message is sent only on an open channel, hence while the DSP is up
  (`DownClosed`): if it is lost, a notifier is still to come;
* once the notifier of a DSP that is down has run, every caller has been woken
  (`DownWoken`), so that the messages of the old incarnation are not missed;
* the PD notifier goes by `msg.pid`, which is set before a message is sent (`SentPid`);
* what the DSP ends when it releases a process is awaited by nobody any more
  (`ReleaseLast`), because the thread that sends the release is alone in the file;
* until a context is freed with its answer outstanding, every message has its context
  and the callback holds the right one (`Answered`).

The steps of threads that send nothing share the lemma `Quiet`, those of the DSP and the
notifiers `BesideKeeps`.

The third layer is the refinement, `KeepsPromiseHolds`: `Spec` implies `Promise!Spec`, the
specification of RemoteCall under the mapping at the end of FastRpcInvoke. Its invariant
`Jobs` (`JobsInductive`) says what the mapping needs and the first layers do not: a
call without an outcome has none recorded (`Undecided`); a message is sent once
(`SentOnce`) and is in exactly one of DSP, channel and callback (`OnePlace`); until a
context is freed early, nothing of a call is outstanding once its context holds an answer
(`AnsweredOnce`). The proof first states what each action does to the state the mapping
reads (the lemmas `Eff...`), then what the mapping makes of that (`Bars...`), and then that
it is a step of RemoteCall or a stutter (`Sim...`), one lemma per action. `voided` is mapped
to `abandoned`; a job is given up without being voided because only
the step that frees a context can abandon one (`OnlyFreeAbandons`).

The fourth layer is `NoEarlyFreeHolds`, an action property. On the ordinary paths, that is
before any restart (`Ordinary`), a caller is woken by its own answer only
(`WokenByAnswer`), so that what it frees is not outstanding. The difficult case is the
close of a file, which frees the contexts of interrupted calls whatever their state. It
is right because the release of the process is the youngest call of its file
(`ReleaseYoungest`: it is sent by a thread that is alone in the file), the DSP ends all
others before it answers it and the channel keeps answers in order (`ReleaseBehind`),
so that after a release that succeeded nothing of the file is in flight
(`ReleasedClean`). `Counted` says that what the notifiers do, and channels that are down,
follow a restart. `OrderlyInductive` proves these together.

### The other modules

| Module | Theorems | What the invariant adds, and why |
|---|---|---|
| FastRpcChannelProofs | `KrefCoversHolds`, `HandleLiveHolds`, `NoOrphanHolds`; the action properties `ChannelKeptHolds`, `SuccessHasChannelHolds` | who owns `smd_mutex` (`MutexOwner`); that `port_state` follows glink (`PortMatches`); that until a timeout the completion belongs to the thread that waits for it (`HandshakeFresh`); that `refcount` and `ssrcount` of a file say whether it joined (`JoinedHolds`); and the count itself while nobody opens (`Covered`, by cardinality of a finite set of files) |
| FastRpcSessionProofs | `SecureExclusiveHolds`, `SecureReturnedHolds` | a search for a secure session owns both mutexes (`SearchLocked`), so what it found is still free when it takes it (`FoundFits`), although GETINFO marks other entries at the same time |
| FastRpcMapsProofs | `RefsExactHolds`, `NoUseAfterFreeHolds`, `HeapReturnedHolds`, `CloseFreesAllHolds` | where a thread's local mapping is in use (`LocalMap`, `Referred`), that one thread at a time maps, unmaps or removes a mapping until a MUNMAP takes one from somebody (`Exclusive`), who can own references of which kind of mapping (`Owned`), the count also of a mapping that a MUNMAP has unhooked and may put back (`Counted`), and where the close of a file finds mappings and buffers (`OnFile`, `BufOwned`) |
| FastRpcFileProofs | `QosReleasedHolds`, `ReaderLiveHolds`, `SessionOfChannelHolds`, `ProcessEndsHolds` | a thread in the driver uses an open file and whoever closes it is alone (`InOpenFile`); a listed request is noted or about to be (`QosNoted`); the debugfs entry is exact (`EntryExact`); one GETINFO is between its check and its session (`OneBinder`); unless the file was excused or raced, its `tgid` and its channel name its processes (`ProcessNamed`) |
| FastRpcModuleProofs | `UnwindsHolds`, `SessionsBackedHolds`, `MappingsReturnedHolds` | registrations are those of the steps before the current one (`RegsOrdered`); the mapping of a device is in one entry of its channel's table (`MappingOnce`) and not released before the end (`ReleasedOnce`); an error pointer is the last thing in its table (`TableEnds`), so that it costs only the channels behind it |
| AtopStreamProofs | `NoLineLostHolds`, `LinesCountedOnceHolds`, `SamplesExactHolds`, `OffloadExactHolds` (see below) | the log is in the order of its time stamps (`LogOrdered`) and the next time asked for stands for the last line polled (`SinceMatches`, `LateKnown`); without an overrun, streamer and GUI take turns (`Turns`), so that the batch in the frame is the one that was popped (`BatchNew`, `CountedOnce`) |
| ThreadPoolProofs | `TasksAccountedHolds`; the action property `SummaryInOrderHolds` | a worker has a task only where it runs it or has popped it in the predicate (`HasTask`); a task is in one place of the queue or with one worker (`QueueOnce`, `WorkerOnce`, `Accounted`); futures are polled in the order of the presses and behind what the summary shows (`FuturesInOrder`, `SummaryBehind`) |

### Sums in AtopStreamProofs

`SamplesExact` and `OffloadExact` speak of sums, `FoldLeft` over the FIFO and
`MapThenSumSet` over the lines of a batch, which the community modules define by a
recursive function on the subsets of a finite set. The induction theorems of the library take
an operator as a parameter and cannot be used here; the argument is made on a smallest
counterexample instead. `SmallestSubset` (from the well-foundedness of strict inclusion on
finite sets) gives one, `SumsExist` and `SumsOne` conclude that the recursive function exists
and that the order of the elements does not matter. `AddedAppend` and `AddedTail` then say
what a push and a pop do to the sum of the FIFO, and `TotalIs` says that the time of a set
of lines is given by the numbers of its lines of each tag (`Weight`).

* `SamplesExactHolds` adds `Sampling` to `IInv`: a late line that is still to be polled has
  the time stamp of the last line polled, and ticks are never late (`LateOnly`), so that
  the lines of a poll are exactly the new ones that are not late (`NewLines`).
* `OffloadExactHolds` adds `Offloading`: the outer TIME line of an invocation follows the
  inner one, and as long as no poll falls between the two and no line is late, the lines
  polled so far and the latest batch have as many of one as of the other (`CallsPaired`). Then no
  part of what a frame adds is negative and dropped (`FrameAdds`). What a summary of SNPE sets
  is set in both.

### What the proofs changed

The proof of FastRpcMaps found that `HeapReturned` had been too strong: after a MUNMAP_FD
has stolen the reference of a call, the mapping can be freed and its address used for
a remote heap, which the call then drops as its own. It takes four operations, one more
than the run had; with four TLC finds it too. `stolen` is therefore an exception
of that property as well. `ProcessEnds` was too strong in a similar way: with two GETINFOs that
raced, an INIT can create its process on one channel and the release ask another, which the
invariant `ProcessNamed` cannot exclude; `raced` is an exception of both properties.

### Only model-checked

* Everything under fairness (`CallReturns`, `OpenReturns`, `ExitUnlessFull`, `TaskRuns`,
  `StopReturns`): the prover does not reach liveness.
* `CopiesFaithful` and `CacheClean` of FastRpcArgs: what its three loops compute is an
  induction along the sorted buffers, with an invariant of the loops themselves (where the
  current group of overlapping buffers begins, in user memory and in the message). No
  theorem states them; the run covers every call of up to three buffers within its bounds.

## Plan

Done: all modules and runs above, the refinement of RemoteCall, and the proofs of every
safety property that a run checks but the two of FastRpcArgs. What is left:

1. `CopiesFaithful` and `CacheClean`. The way is that of the sums in AtopStreamProofs: show
   that the recursive function behind each fold exists, then the invariant of the loop
   on a smallest prefix for which it fails.
2. `AtopStream` has one stream; the three share the GUI loop, so a frame that is slow for
   one delays the others. A composition would say by how much.

## Not modelled

* `graph_app.c`: a sequential sample whose state is that of the vendor's
  hexagon-nn library; nothing in it interleaves or is retried.
* The KGSL files beyond the ioctl dispatch: declarations and debugfs registrations
  of a GPU driver whose state is not in this repository.
* Test and profiling kernel modules, scripts, plots and notebooks: single-shot
  measurements and offline evaluation. `date.h` is vendored.
* In the driver: the `smd` transport, ramdumps, the shared session of a channel
  without a table, compat ioctls' copying, and the text of debugfs. In atop: drawing,
  popen, logging and the regular expressions.
* Memory ordering below the level of C's atomics and locks, allocation failures
  other than those that change control flow, and the lengths of times.
