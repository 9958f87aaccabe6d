---------------------------- MODULE FastRpcModule ----------------------------
(***************************************************************************)
(* The life of the FastRPC module (android/adsprpc.c): what                *)
(* fastrpc_device_init registers and takes back when a later step fails,   *)
(* the probes of the platform devices that fill the session tables of the  *)
(* channels, the search for the protection domains, fastrpc_deinit, and    *)
(* fastrpc_device_exit. The kernel's services are external: each either    *)
(* succeeds or fails.                                                      *)
(***************************************************************************)
EXTENDS Integers, Sequences, FiniteSets

CONSTANTS
  Devices,      \* context-bank devices
  NumChannels,  \* NUM_CHANNELS
  ChanOf,       \* the channel that a device's label names
  NumSessions,  \* NUM_SESSIONS
  MaxSids,      \* bound: stream ids of a legacy context-bank device
  Nil,          \* the NULL pointer
  Err           \* an error pointer

Channels == 1 .. NumChannels      \* gcinfo, the ADSP first
Sessions == 1 .. NumSessions

ASSUME ModuleAssumption ==
  /\ NumChannels \in Nat \ {0} /\ NumSessions \in Nat \ {0} /\ MaxSids \in Nat
  /\ ChanOf \in [Devices -> Channels]
  /\ {Nil, Err} \cap Devices = {} /\ Nil # Err

VARIABLES
  life,      \* what became of fastrpc_device_init
  stage,     \* its next step
  regs,      \* what is registered with the kernel, or assigned or allocated by a probe
  session,   \* chan->session of each channel: its device and its mapping
  count,     \* chan->sesscount of each channel
  attached,  \* devices attached to a mapping
  bank,      \* what the probe of each context bank came to
  released,  \* how often the mapping a device's probe created was released
  probed,    \* the other platform devices that were probed
  hist       \* what the properties set apart

vars == <<life, stage, regs, session, count, attached, bank, released, probed, hist>>

Empty == [dev |-> Nil, mapping |-> Nil]
EmptyTable == [c \in Channels |-> [i \in Sessions |-> Empty]]

\* The steps of fastrpc_device_init that can fail, and what each registers.
Steps == <<"driver", "chrdev", "cdev", "class", "device", "secure_device", "client">>

\* What probes register: the debugfs entry "global", the lists of gcinfo[0].rhvm, the
\* ADSP heap that other VMs may use, the callback of the service locator, and the
\* notifier of a protection domain.
Probed == {"global", "rhvm", "heapvm", "locator", "notifier"}

\* What no code of the driver gives back. fastrpc_driver stays registered; heap, locator
\* and notifier are never mentioned again.
Unreturned == {"driver", "heapvm", "locator", "notifier"}

\* The module has gone, or fastrpc_deinit died in the kernel when it was about to go.
Gone == life \in {"failed", "exited", "oops"}

TypeOK ==
  /\ life \in {"unloaded", "init", "up", "failed", "exited", "oops"}
  /\ stage \in 1 .. Len(Steps)
  /\ regs \subseteq {Steps[i] : i \in 1 .. Len(Steps)} \cup {"debugfs", "notifiers"} \cup Probed
  /\ session \in [Channels -> [Sessions -> [dev : Devices \cup {Nil},
                                           mapping : Devices \cup {Nil, Err}]]]
  /\ count \in [Channels -> 0 .. NumSessions]
  /\ attached \subseteq Devices
  /\ bank \in [Devices -> {"none", "refused", "failed", "ok"}]
  /\ released \in [Devices -> 0 .. NumSessions]
  /\ probed \subseteq {"compute", "memory", "domains"}
  /\ hist \in [legacy : SUBSET Devices, lost : SUBSET Devices, late : SUBSET Devices,
               after : SUBSET Probed, unreached : SUBSET Channels]

Init ==
  /\ life = "unloaded" /\ stage = 1
  /\ regs = {}
  /\ session = EmptyTable
  /\ count = [c \in Channels |-> 0]
  /\ attached = {}
  /\ bank = [d \in Devices |-> "none"]
  /\ released = [d \in Devices |-> 0]
  /\ probed = {}
  /\ hist = [legacy |-> {}, lost |-> {}, late |-> {}, after |-> {}, unreached |-> {}]

tableVars == <<session, count, attached, bank, released>>

-----------------------------------------------------------------------------
(* fastrpc_device_init and fastrpc_device_exit *)

\* debugfs_create_dir and fastrpc_init.
InitBegin ==
  /\ life = "unloaded"
  /\ life' = "init"
  /\ regs' = {"debugfs"}
  /\ count' = [c \in Channels |-> 0]
  /\ UNCHANGED <<stage, session, attached, bank, released, probed, hist>>

\* A step succeeds. The restart notifiers of the channels are registered, without a
\* check, between the devices and the ion client.
InitStep ==
  /\ life = "init"
  /\ regs' = regs \cup {Steps[stage]}
                  \cup (IF Steps[stage] = "secure_device" THEN {"notifiers"} ELSE {})
  /\ \/ stage < Len(Steps) /\ stage' = stage + 1 /\ UNCHANGED life
     \/ stage = Len(Steps) /\ life' = "up" /\ UNCHANGED stage
  /\ UNCHANGED <<tableVars, probed, hist>>

\* fastrpc_deinit takes whatever is not NULL for a mapping: arm_iommu_release_mapping
\* follows the error pointer that ProbeNoMapping leaves, and the thread dies there.
Broken(c) == \E i \in Sessions : session[c][i].mapping = Err
Crashes == \E c \in Channels : Broken(c)

\* It comes to an entry of a table unless an error pointer is in one before it.
Reached(c, i) ==
  \A e \in Channels, j \in Sessions :
    session[e][j].mapping = Err => c < e \/ (c = e /\ i <= j)

\* Mutant of Deinit: the mapping is forgotten with the device.
DeinitDetachOnly(end) ==
  /\ attached' = attached \ {session[c][i].dev : c \in Channels, i \in Sessions}
  /\ session' = EmptyTable
  /\ life' = end
  /\ UNCHANGED <<count, bank, released, hist>>

\* fastrpc_deinit: every entry of the tables, counted or not, detaches its device and
\* releases its mapping. (Channels are closed by FastRpcChannel.)
Deinit(end) ==
  /\ attached' = {d \in attached : \A c \in Channels, i \in Sessions :
                                     Reached(c, i) => session[c][i].dev # d}
  /\ released' = [d \in Devices |->
       released[d] + Cardinality({i \in Sessions : /\ session[ChanOf[d]][i].mapping = d
                                                   /\ Reached(ChanOf[d], i)})]
  /\ session' = [c \in Channels |-> [i \in Sessions |->
       IF ~Reached(c, i) THEN session[c][i]
       ELSE IF session[c][i].mapping = Err THEN [Empty EXCEPT !.mapping = Err]
       ELSE Empty]]
  /\ life' = IF Crashes THEN "oops" ELSE end
  /\ hist' = [hist EXCEPT !.unreached = {c \in Channels : \E e \in 1 .. c - 1 : Broken(e)}]
  /\ UNCHANGED <<count, bank>>

\* It frees the lists of the first channel after that channel's table.
FreedLists == IF Broken(1) THEN {} ELSE {"rhvm"}

\* Mutant of Unwound: a failure of class_create jumps to cdev_init_bail.
UnwoundShort(failed) ==
  CASE failed \in {"driver", "chrdev"} -> {}
    [] failed \in {"cdev", "class"}    -> {"chrdev"}
    [] OTHER -> {"notifiers", "device", "secure_device", "class", "cdev", "chrdev"}

\* What the labels take back from the one that a failing step jumps to: register_bail
\* and alloc_chrdev_bail, cdev_init_bail, class_create_bail, device_create_bail.
Unwound(failed) ==
  CASE failed \in {"driver", "chrdev"} -> {}
    [] failed = "cdev"  -> {"chrdev"}
    [] failed = "class" -> {"cdev", "chrdev"}
    [] OTHER -> {"notifiers", "device", "secure_device", "class", "cdev", "chrdev"}

\* A step fails: everything before it is unwound in reverse, and fastrpc_deinit runs.
InitFail ==
  /\ life = "init"
  /\ regs' = regs \ (Unwound(Steps[stage]) \cup FreedLists)
  /\ Deinit("failed")
  /\ UNCHANGED <<stage, probed>>

\* fastrpc_device_exit; the files that are still open are freed first (FastRpcMaps).
\* fastrpc_deinit comes before everything is unregistered.
DeviceExit ==
  /\ life = "up"
  /\ regs' = regs \ (FreedLists \cup
                     (IF Crashes THEN {}
                      ELSE {"notifiers", "device", "secure_device", "class", "cdev",
                            "chrdev", "client", "debugfs", "global"}))
  /\ Deinit("exited")
  /\ UNCHANGED <<stage, probed>>

-----------------------------------------------------------------------------
(* fastrpc_probe *)

\* A device is probed as soon as the driver is registered, and for as long: also after
\* an init that failed.
Probing(d) == "driver" \in regs /\ bank[d] = "none"

\* What is done after the end.
Late(S) == IF Gone THEN S ELSE {}

\* The entry at chan->sesscount gets a mapping; one that an earlier probe left there
\* when it failed is overwritten.
NewMapping(d) ==
  LET c == ChanOf[d]
      i == count[c] + 1
  IN
  /\ session' = [session EXCEPT ![c][i].mapping = d]
  /\ hist' = [hist EXCEPT !.lost = @ \cup ({session[c][i].mapping} \cap Devices),
                          !.late = @ \cup Late({d})]

HasRoom(d) == count[ChanOf[d]] < NumSessions

\* A probe that fails before it creates a mapping: no label, an unknown channel, no
\* room in the table, no stream ids.
ProbeRefused(d) ==
  /\ Probing(d)
  /\ bank' = [bank EXCEPT ![d] = "refused"]
  /\ UNCHANGED <<life, stage, regs, session, count, attached, released, probed, hist>>

\* arm_iommu_create_mapping fails in either probe: the error pointer stays in the table.
ProbeNoMapping(d) ==
  LET c == ChanOf[d]
      i == count[c] + 1
  IN
  /\ Probing(d) /\ HasRoom(d)
  /\ session' = [session EXCEPT ![c][i].mapping = Err]
  /\ hist' = [hist EXCEPT !.lost = @ \cup ({session[c][i].mapping} \cap Devices)]
  /\ bank' = [bank EXCEPT ![d] = "refused"]
  /\ UNCHANGED <<life, stage, regs, count, attached, released, probed>>

\* Mutant of ProbeNoDevice: the session is counted before its device is attached.
ProbeNoDeviceCounted(d) ==
  /\ Probing(d) /\ HasRoom(d)
  /\ NewMapping(d)
  /\ bank' = [bank EXCEPT ![d] = "failed"]
  /\ count' = [count EXCEPT ![ChanOf[d]] = @ + 1]
  /\ UNCHANGED <<life, stage, regs, attached, released, probed>>

\* arm_iommu_attach_device fails in either probe: the mapping stays in the table.
ProbeNoDevice(d) ==
  /\ Probing(d) /\ HasRoom(d)
  /\ NewMapping(d)
  /\ bank' = [bank EXCEPT ![d] = "failed"]
  /\ UNCHANGED <<life, stage, regs, count, attached, released, probed>>

\* fastrpc_cb_probe: create a mapping, attach the device, count the session last, and
\* make the debugfs entry "global".
CbProbe(d) ==
  LET c == ChanOf[d]
      i == count[c] + 1
  IN
  /\ Probing(d) /\ HasRoom(d)
  /\ session' = [session EXCEPT ![c][i] = [dev |-> d, mapping |-> d]]
  /\ hist' = [hist EXCEPT !.lost = @ \cup ({session[c][i].mapping} \cap Devices),
                          !.late = @ \cup Late({d}),
                          !.after = @ \cup Late({"global"})]
  /\ attached' = attached \cup {d}
  /\ count' = [count EXCEPT ![c] = i]
  /\ bank' = [bank EXCEPT ![d] = "ok"]
  /\ regs' = regs \cup {"global"}
  /\ UNCHANGED <<life, stage, released, probed>>

\* fastrpc_cb_legacy_probe: one mapping for as many sessions as there are stream ids;
\* a table that fills up in the middle is an error, but the sessions stay counted.
CbLegacyProbe(d, sids) ==
  LET c   == ChanOf[d]
      n   == IF count[c] + sids <= NumSessions THEN sids ELSE NumSessions - count[c]
      new == count[c] + 1 .. count[c] + n
      set == new \cup {count[c] + 1}
  IN
  /\ Probing(d) /\ HasRoom(d)
  /\ session' = [session EXCEPT ![c] = [i \in Sessions |->
                   IF i \in new THEN [dev |-> d, mapping |-> d]
                   ELSE IF i \in set THEN [session[c][i] EXCEPT !.mapping = d]
                   ELSE session[c][i]]]
  /\ hist' = [hist EXCEPT !.legacy = @ \cup {d},
                          !.lost = @ \cup ({session[c][i].mapping : i \in set} \cap Devices),
                          !.late = @ \cup Late({d})]
  /\ attached' = attached \cup {d}
  /\ count' = [count EXCEPT ![c] = @ + n]
  /\ bank' = [bank EXCEPT ![d] = IF n = sids THEN "ok" ELSE "failed"]
  /\ UNCHANGED <<life, stage, regs, released, probed>>

\* The other devices are probed once each; their probe registers something, or fails.
ProbeOnce(device, name) ==
  /\ "driver" \in regs /\ device \notin probed
  /\ probed' = probed \cup {device}
  /\ \E S \in SUBSET {name} : /\ regs' = regs \cup S
                              /\ hist' = [hist EXCEPT !.after = @ \cup Late(S)]
  /\ UNCHANGED <<life, stage, tableVars>>

\* init_secure_vmid_list for the compute device; one VMID that cannot be read frees the
\* lists again.
InitSecureVmidList == ProbeOnce("compute", "rhvm")

\* The memory region: the carve-out of the ADSP is shared with the DSP's VMs.
ProbeMemRegion == ProbeOnce("memory", "heapvm")

\* The protection domains (audio and sensors are alike): get_service_location is asked
\* for them; an error is only logged.
ProbePdr == ProbeOnce("domains", "locator")

\* fastrpc_get_service_location_notify: the locator goes down, or reports a domain, for
\* which a notifier is registered; that can fail.
ServiceLocated ==
  /\ "locator" \in regs /\ "notifier" \notin regs
  /\ regs' = regs \cup {"notifier"}
  /\ hist' = [hist EXCEPT !.after = @ \cup Late({"notifier"})]
  /\ UNCHANGED <<life, stage, tableVars, probed>>

Next ==
  \/ InitBegin \/ InitStep \/ InitFail \/ DeviceExit
  \/ \E d \in Devices : \/ ProbeRefused(d) \/ ProbeNoMapping(d) \/ ProbeNoDevice(d)
                        \/ CbProbe(d)
                        \/ \E sids \in 0 .. MaxSids : CbLegacyProbe(d, sids)
  \/ InitSecureVmidList \/ ProbeMemRegion \/ ProbePdr \/ ServiceLocated

Spec == Init /\ [][Next]_vars

-----------------------------------------------------------------------------
(* Correctness *)

\* An init that fails at any of its steps, and an exit that fastrpc_deinit survives, take
\* back what they registered: no device node, restart notifier or client outlives the
\* module. What does outlive it is what the code never gives back: the platform driver,
\* the heap's assignment, the service locator's callback and the notifiers of protection
\* domains, whose functions are the module's; after a failed init the directory in
\* debugfs and its entry "global"; and what a probe registers after the end.
Unwinds ==
  /\ life = "failed" => regs \subseteq Unreturned \cup {"debugfs", "global"} \cup hist.after
  /\ life = "exited" => regs \subseteq Unreturned \cup hist.after

\* Every session that FastRpcSession may hand out has a mapping, and a device that is
\* attached to it, for as long as the module is up, however probes of several devices
\* fail in between.
SessionsBacked ==
  life \in {"init", "up"} =>
    \A c \in Channels : \A i \in 1 .. count[c] :
      session[c][i].mapping \in Devices /\ session[c][i].dev \in attached

\* fastrpc_deinit releases the mapping of every context bank exactly once, except one
\* that a later probe overwrote in the table, one that was probed after the end, and the
\* mapping of a legacy device, released once per session that shares it. An error pointer
\* in a table costs the channels behind it all of their mappings, and no other one.
MappingsReturned ==
  Gone => \A d \in Devices \ (hist.legacy \cup hist.lost \cup hist.late) :
            bank[d] \in {"failed", "ok"} =>
              \/ released[d] = 1
              \/ life = "oops" /\ ChanOf[d] \in hist.unreached
=============================================================================
