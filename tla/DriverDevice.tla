---------------------------- MODULE DriverDevice ----------------------------
(***************************************************************************)
(* The life of one device with its CAN cores: the probe of the PCI or the  *)
(* platform bus, ctucan_probe_common for each core, the configuration of   *)
(* an interface, ctucan_open and ctucan_close, system suspend and the      *)
(* removal, with every acquisition that may fail and the error paths that  *)
(* undo it.  A registered core is used while the next one is still probed. *)
(* Frames and their processing are reduced to whether a frame is waiting.  *)
(***************************************************************************)
EXTENDS BitTiming, FiniteSets, Sequences

CONSTANTS
  MaxCores,   \* largest number of cores a PCI board reports
  Configs,    \* what the user may ask for: timings with their quantum, control modes
  ClockMHz

ASSUME DeviceAssumption ==
  /\ MaxCores \in Nat \ {0}
  /\ ClockMHz \in Nat \ {0}

VARIABLES
  dev_bus,        \* "platform" or "pci"
  num_cores,  \* cores of the board
  pc,         \* next step of the probe or of the removal
  core_i,     \* core the probe is working on
  held,       \* resources of the bus that are held
  drvdata,    \* what dev_get_drvdata returns
  usage,      \* runtime PM references taken by the driver
  dev_suspended,
  core,       \* state of each core: its net_device, can_priv and registers
  fault       \* branches reached that must not be reached

devvars == <<dev_bus, num_cores, pc, core_i, held, drvdata, usage, dev_suspended, core, fault>>

Cores == 1..MaxCores

NoTiming == [bitrate |-> 0, prop_seg |-> 0, phase_seg1 |-> 0, phase_seg2 |-> 0, sjw |-> 0, brp |-> 0]

NoConfig == [nom |-> NoTiming, ntq |-> 0, data |-> NoTiming, dtq |-> 0, flags |-> {}]

Timings == [bitrate : Nat, prop_seg : Nat, phase_seg1 : Nat, phase_seg2 : Nat, sjw : Nat, brp : Nat]

\* A request carries unsigned numbers, and can_validate refuses a data bit timing
\* without FD.
ASSUME ConfigAssumption ==
  \A cfg \in Configs : /\ cfg.nom \in Timings /\ cfg.ntq \in Nat
                       /\ cfg.data \in Timings /\ cfg.dtq \in Nat
                       /\ "FD" \notin cfg.flags => cfg.data = NoTiming

\* MODE after a reset has the bit FDE set; the timing registers are not configured.
ResetRegs == [ena |-> FALSE, irq_on |-> FALSE, masked |-> FALSE, mode |-> {"FDE"},
              btr |-> {}, btr_fd |-> {}, ssp |-> {}]    \* sets: empty or one value

NoCore == [ndev |-> "none", listed |-> FALSE, net |-> "down", res |-> {}, config |-> NoConfig,
           nom |-> NoTiming, data |-> NoTiming, napi |-> "off", rx |-> FALSE, regs |-> ResetRegs]

DeviceInit ==
  /\ dev_bus \in {"platform", "pci"}
  /\ num_cores \in (IF dev_bus = "pci" THEN 0..MaxCores ELSE {1})
  /\ pc = "unbound"
  /\ core_i = 1
  /\ held = {}
  /\ drvdata = "NULL"
  /\ usage = 0
  /\ dev_suspended = FALSE
  /\ core = [c \in Cores |-> NoCore]
  /\ fault = {}

\* open, close and netlink requests hold rtnl_lock from their first to their last step.
RtnlFree == \A c \in Cores : core[c].net \in {"down", "up"} /\ "berr" \notin core[c].res

-----------------------------------------------------------------------------
(* Probe of the bus                                                         *)

\* What the statements after each error label of ctucan_pci_probe release; a label
\* falls through to the next one.  bar0 was mapped at bar0_base, but the error path
\* unmaps cra_addr, which is bar0_base + 0x4000 on the boards of ctucan_pci_tbl.
ErrLabels == <<"err_free_board", "err_pci_iounmap_bar0", "err_pci_iounmap_bar1",
               "err_release_regions", "err_disable_device", "err">>

\* Faulty variant: the error path forgets the board data.
FreesButBoard(label) ==
  CASE label = "err_pci_iounmap_bar0" -> {"cra"}
    [] label = "err_pci_iounmap_bar1" -> {"regs"}
    [] label = "err_release_regions"  -> {"msi", "regions"}
    [] label = "err_disable_device"   -> {"device"}
    [] OTHER                          -> {}

Frees(label) ==
  CASE label = "err_free_board"       -> {"bdata"}
    [] label = "err_pci_iounmap_bar0" -> {"cra"}
    [] label = "err_pci_iounmap_bar1" -> {"regs"}
    [] label = "err_release_regions"  -> {"msi", "regions"}
    [] label = "err_disable_device"   -> {"device"}
    [] OTHER                          -> {}

Unwind(label) ==
  LET from == CHOOSE i \in DOMAIN ErrLabels : ErrLabels[i] = label
  IN  UNION {Frees(ErrLabels[i]) : i \in from .. Len(ErrLabels)}

\* A step that takes a resource, or fails and leaves through its error label.
Acquire(step, resource, next, label) ==
  /\ pc = step
  /\ \/ held' = held \cup {resource} /\ pc' = next
     \/ held' = held \ Unwind(label) /\ pc' = "unbound"
  /\ UNCHANGED <<dev_bus, num_cores, core_i, drvdata, usage, dev_suspended, core, fault>>

PciProbe ==
  \/ pc = "unbound" /\ dev_bus = "pci" /\ pc' = "enable" /\ core_i' = 1
     /\ UNCHANGED <<dev_bus, num_cores, held, drvdata, usage, dev_suspended, core, fault>>
  \/ Acquire("enable", "device", "regions", "err")
  \/ Acquire("regions", "regions", "msi", "err_disable_device")
  \/ pc = "msi" /\ pc' = "bar1" /\ (held' = held \/ held' = held \cup {"msi"})
     /\ UNCHANGED <<dev_bus, num_cores, core_i, drvdata, usage, dev_suspended, core, fault>>
  \/ Acquire("bar1", "regs", "bar0", "err_release_regions")
  \/ Acquire("bar0", "bar0", "kzalloc", "err_pci_iounmap_bar1")
  \/ Acquire("kzalloc", "bdata", "setdata", "err_pci_iounmap_bar0")
  \/ pc = "setdata" /\ pc' = "alloc" /\ drvdata' = "bdata"
     /\ UNCHANGED <<dev_bus, num_cores, core_i, held, usage, dev_suspended, core, fault>>

\* devm_platform_ioremap_resource and platform_get_irq; what devm holds goes with
\* the failed probe.
PlatformProbe ==
  /\ dev_bus = "platform"
  /\ pc = "unbound"
  /\ held' = {"regs"}
  /\ core_i' = 1
  /\ pc' = "alloc"
  /\ UNCHANGED <<dev_bus, num_cores, drvdata, usage, dev_suspended, core, fault>>

-----------------------------------------------------------------------------
(* ctucan_probe_common                                                      *)

\* The first core that fails ends the probe, a further one only the loop.
ProbeFailed ==
  /\ core' = [core EXCEPT ![core_i] = NoCore]
  /\ IF dev_bus = "pci" /\ core_i > 1
     THEN pc' = "a2p_ie" /\ UNCHANGED <<held, drvdata>>
     ELSE /\ pc' = "unbound"
          /\ drvdata' = "NULL"
          /\ held' = IF dev_bus = "pci" THEN held \ Unwind("err_free_board") ELSE {}
  /\ UNCHANGED <<dev_bus, num_cores, core_i, dev_suspended, fault>>

\* alloc_candev, set_drvdata_fnc, the clock, pm_runtime_get_sync; a failed get is
\* undone by pm_runtime_put_noidle.
ProbeAlloc ==
  /\ pc = "alloc"
  /\ \/ /\ core' = [core EXCEPT ![core_i] =
                      [core[core_i] EXCEPT !.ndev = "alloc", !.listed = (dev_bus = "pci")]]
        /\ drvdata' = IF dev_bus = "platform" THEN "ndev" ELSE drvdata
        /\ usage' = usage + 1
        /\ pc' = "reset"
        /\ UNCHANGED <<dev_bus, num_cores, core_i, held, dev_suspended, fault>>
     \/ ProbeFailed /\ UNCHANGED usage

\* Faulty variant: leaving through err_pmdisable keeps the runtime PM reference.
ProbeResetKeepsPm ==
  /\ pc = "reset"
  /\ \/ pc' = "register"
        /\ UNCHANGED <<dev_bus, num_cores, core_i, held, drvdata, usage, dev_suspended, core, fault>>
     \/ ProbeFailed /\ UNCHANGED usage

\* The device answers in one of the byte orders and leaves the reset, or err_deviceoff.
ProbeReset ==
  /\ pc = "reset"
  /\ \/ pc' = "register"
        /\ UNCHANGED <<dev_bus, num_cores, core_i, held, drvdata, usage, dev_suspended, core, fault>>
     \/ ProbeFailed /\ usage' = usage - 1

\* From register_candev on the interface can be used.
ProbeRegister ==
  /\ pc = "register"
  /\ RtnlFree
  /\ \/ /\ core' = [core EXCEPT ![core_i] = [core[core_i] EXCEPT !.ndev = "registered"]]
        /\ pc' = "put"
        /\ UNCHANGED <<dev_bus, num_cores, core_i, held, drvdata, usage, dev_suspended, fault>>
     \/ ProbeFailed /\ usage' = usage - 1

ProbePut ==
  /\ pc = "put"
  /\ usage' = usage - 1
  /\ IF dev_bus = "pci" /\ core_i < num_cores
     THEN pc' = "alloc" /\ core_i' = core_i + 1
     ELSE pc' = (IF dev_bus = "pci" THEN "a2p_ie" ELSE "bound") /\ UNCHANGED core_i
  /\ UNCHANGED <<dev_bus, num_cores, held, drvdata, dev_suspended, core, fault>>

\* The end of ctucan_pci_probe lets the interrupts of the board through.
EnableA2p ==
  /\ pc = "a2p_ie"
  /\ held' = held \cup {"a2p_ie"}
  /\ pc' = "bound"
  /\ UNCHANGED <<dev_bus, num_cores, core_i, drvdata, usage, dev_suspended, core, fault>>

Probe == \/ PciProbe \/ PlatformProbe \/ ProbeAlloc \/ ProbeReset \/ ProbeRegister
         \/ ProbePut \/ EnableA2p

-----------------------------------------------------------------------------
(* Configuration, ctucan_open and ctucan_close                              *)

UNCHANGED_device == UNCHANGED <<dev_bus, num_cores, pc, core_i, held, drvdata, dev_suspended>>

\* A request of the user that takes rtnl_lock.
UserRequest(c) == ~dev_suspended /\ RtnlFree /\ core[c].ndev = "registered"

\* A core after do_set_bittiming and, with FD, do_set_data_bittiming.
Configured(r, cfg, nom, data) ==
  [r EXCEPT !.config = cfg,
            !.nom = Redistribute(nom, TRUE),
            !.data = Redistribute(data, FALSE),
            !.regs = [r.regs EXCEPT
              !.btr = {Btr(nom, TRUE)},
              !.btr_fd = IF "FD" \in cfg.flags THEN {Btr(data, FALSE)} ELSE r.regs.btr_fd]]

\* can_changelink checks the timings and calls do_set_bittiming and
\* do_set_data_bittiming, which refuse to touch an enabled controller.
Changelink(c) ==
  /\ UserRequest(c)
  /\ core[c].net = "down"
  /\ \E cfg \in Configs :
       \E nom \in FixupBittiming(cfg.nom, cfg.ntq, TRUE, ClockMHz),
          data \in (IF "FD" \in cfg.flags THEN FixupBittiming(cfg.data, cfg.dtq, FALSE, ClockMHz)
                                         ELSE {NoTiming}) :
         IF core[c].regs.ena THEN fault' = fault \cup {"EPERM"} /\ UNCHANGED core
         ELSE core' = [core EXCEPT ![c] = Configured(core[c], cfg, nom, data)] /\ UNCHANGED fault
  /\ UNCHANGED usage
  /\ UNCHANGED_device

\* ctucan_set_mode: each control mode is a bit of MODE; TSTM and RTRTH are cleared.
ModeBit == [LOOPBACK |-> "ILBP", LISTENONLY |-> "BMM", FD |-> "FDE", PRESUME_ACK |-> "ACF",
            FD_NON_ISO |-> "NISOFD", ONE_SHOT |-> "RTRLE"]

SetMode(mode, flags) ==
  (mode \ ({ModeBit[f] : f \in DOMAIN ModeBit} \cup {"TSTM", "RTRTH"}))
    \cup {ModeBit[f] : f \in flags \cap DOMAIN ModeBit}

\* The registers after ctucan_chip_start.
ChipStart(r) ==
  [ena |-> TRUE, irq_on |-> TRUE, masked |-> FALSE,
   mode |-> SetMode(r.regs.mode, r.config.flags),
   btr |-> {Btr(r.nom, TRUE)}, btr_fd |-> {Btr(r.data, FALSE)},
   ssp |-> {SspConfig(ClockMHz * 1000000, r.data.bitrate)}]

Started(r) ==
  [r EXCEPT !.net = "started", !.regs = ChipStart(r),
            !.nom = Redistribute(r.nom, TRUE), !.data = Redistribute(r.data, FALSE)]

\* What the error labels of ctucan_open give back.
OpenFailed(c) ==
  /\ core' = [core EXCEPT ![c] = [core[c] EXCEPT !.net = "down", !.res = {}]]
  /\ usage' = usage - 1
  /\ UNCHANGED fault

\* pm_runtime_get_sync and ctucan_reset; a failed get leaves nothing behind.
OpenReset(c) ==
  /\ UserRequest(c)
  /\ core[c].net = "down"
  /\ core' = [core EXCEPT ![c] = [core[c] EXCEPT !.net = "reset", !.res = {"pm"}, !.rx = FALSE,
                                          !.regs = ResetRegs]]
  /\ usage' = usage + 1
  /\ UNCHANGED fault
  /\ UNCHANGED_device

\* A device that does not leave the reset, or open_candev, which refuses an interface
\* without bit timing, ends the open.
OpenCandev(c) ==
  /\ core[c].net = "reset"
  /\ \/ OpenFailed(c)
     \/ /\ core[c].nom # NoTiming
        /\ core' = [core EXCEPT ![c] = [core[c] EXCEPT !.net = "candev", !.res = core[c].res \cup {"candev"}]]
        /\ UNCHANGED <<usage, fault>>
  /\ UNCHANGED_device

OpenIrq(c) ==
  /\ core[c].net = "candev"
  /\ \/ OpenFailed(c)
     \/ /\ core' = [core EXCEPT ![c] = [core[c] EXCEPT !.net = "irq", !.res = core[c].res \cup {"irq"}]]
        /\ UNCHANGED <<usage, fault>>
  /\ UNCHANGED_device

OpenStart(c) ==
  /\ core[c].net = "irq"
  /\ IF core[c].regs.ena
     THEN OpenFailed(c) /\ fault' = fault \cup {"EPERM"}
     ELSE /\ core' = [core EXCEPT ![c] = Started(core[c])]
          /\ UNCHANGED <<usage, fault>>
  /\ UNCHANGED_device

OpenNapi(c) ==
  /\ core[c].net = "started"
  /\ core' = [core EXCEPT ![c] = [core[c] EXCEPT !.net = "up", !.napi = "idle"]]
  /\ UNCHANGED <<usage, fault>>
  /\ UNCHANGED_device

OpenCore(c) == OpenReset(c) \/ OpenCandev(c) \/ OpenIrq(c) \/ OpenStart(c) \/ OpenNapi(c)

\* Faulty variant: ctucan_chip_stop leaves the controller enabled.
ClosedEnabled(r) ==
  [r EXCEPT !.net = "down", !.res = {}, !.napi = "off",
            !.regs = [r.regs EXCEPT !.irq_on = FALSE, !.masked = TRUE]]

\* A core after ctucan_close: napi_disable has waited for a poll, ctucan_chip_stop
\* has disabled the controller and its interrupts.
Closed(r) ==
  [r EXCEPT !.net = "down", !.res = {}, !.napi = "off",
            !.regs = [r.regs EXCEPT !.ena = FALSE, !.irq_on = FALSE, !.masked = TRUE]]

CloseCore(c) ==
  /\ UserRequest(c)
  /\ core[c].net = "up"
  /\ core[c].napi = "idle"
  /\ core' = [core EXCEPT ![c] = Closed(core[c])]
  /\ usage' = usage - 1
  /\ UNCHANGED fault
  /\ UNCHANGED_device

\* ctucan_get_berr_counter, called for a netlink query in any state of the interface.
GetBerrCounter(c) ==
  /\ \/ /\ UserRequest(c)
        /\ core' = [core EXCEPT ![c] = [core[c] EXCEPT !.res = core[c].res \cup {"berr"}]]
        /\ usage' = usage + 1
     \/ /\ "berr" \in core[c].res
        /\ core' = [core EXCEPT ![c] = [core[c] EXCEPT !.res = core[c].res \ {"berr"}]]
        /\ usage' = usage - 1
  /\ UNCHANGED fault
  /\ UNCHANGED_device

-----------------------------------------------------------------------------
(* A received frame, its interrupt and the poll                             *)

\* From ctucan_chip_start on, before napi_enable too.
FrameArrives(c) ==
  /\ core[c].regs.ena
  /\ ~core[c].rx
  /\ core' = [core EXCEPT ![c] = [core[c] EXCEPT !.rx = TRUE]]
  /\ UNCHANGED <<usage, fault>>
  /\ UNCHANGED_device

\* ctucan_interrupt on RBNEI: mask it and napi_schedule, which does nothing while the
\* poll is disabled.
RxIrq(c) ==
  /\ core[c].rx /\ core[c].regs.irq_on /\ ~core[c].regs.masked
  /\ "irq" \in core[c].res
  /\ dev_bus = "pci" => "a2p_ie" \in held
  /\ core' = [core EXCEPT ![c] = [core[c] EXCEPT
                 !.regs = [core[c].regs EXCEPT !.masked = TRUE],
                 !.napi = IF core[c].napi = "idle" THEN "sched" ELSE core[c].napi]]
  /\ UNCHANGED <<usage, fault>>
  /\ UNCHANGED_device

\* ctucan_rx_poll with budget to spare reads what is there and unmasks RBNEI.
Poll(c) ==
  /\ core[c].napi = "sched"
  /\ core' = [core EXCEPT ![c] = [core[c] EXCEPT
                 !.rx = FALSE, !.napi = "idle", !.regs = [core[c].regs EXCEPT !.masked = FALSE]]]
  /\ UNCHANGED <<usage, fault>>
  /\ UNCHANGED_device

-----------------------------------------------------------------------------
(* Suspend, resume and removal                                              *)

\* ctucan_suspend and ctucan_resume take what dev_get_drvdata returns for a net_device.
\* What they do to board data instead is undefined; here it is recorded and harmless.
Sleep ==
  /\ pc = "bound"
  /\ RtnlFree
  /\ dev_suspended' = ~dev_suspended
  /\ fault' = IF drvdata = "ndev" THEN fault ELSE fault \cup {"drvdata"}
  /\ UNCHANGED <<dev_bus, num_cores, pc, core_i, held, drvdata, usage, core>>

\* Faulty variant: the registers are unmapped before the interfaces are unregistered.
RemoveBeginUnmaps ==
  /\ pc = "bound" /\ ~dev_suspended
  /\ pc' = "removing"
  /\ held' = held \ {"a2p_ie", "regs"}
  /\ UNCHANGED <<dev_bus, num_cores, core_i, drvdata, usage, dev_suspended, core, fault>>

\* ctucan_pci_remove first stops the interrupts of the board.
RemoveBegin ==
  /\ pc = "bound" /\ ~dev_suspended
  /\ pc' = "removing"
  /\ held' = held \ {"a2p_ie"}
  /\ UNCHANGED <<dev_bus, num_cores, core_i, drvdata, usage, dev_suspended, core, fault>>

\* unregister_candev closes the interface when it is up; the core that was listed last
\* is the first of the list.
RemoveCore(c) ==
  /\ pc = "removing"
  /\ RtnlFree
  /\ core[c].ndev # "none"
  /\ \A d \in Cores : d > c => core[d].ndev = "none"
  /\ core[c].napi # "sched"
  /\ core' = [core EXCEPT ![c] = NoCore]
  /\ usage' = IF core[c].net = "up" THEN usage - 1 ELSE usage
  /\ UNCHANGED fault
  /\ UNCHANGED_device

RemoveEnd ==
  /\ pc = "removing"
  /\ \A c \in Cores : core[c].ndev = "none"
  /\ pc' = "unbound"
  /\ held' = held \ {"regs", "msi", "regions", "device", "bar0", "bdata"}
  /\ drvdata' = "NULL"
  /\ UNCHANGED <<dev_bus, num_cores, core_i, usage, dev_suspended, core, fault>>

Remove == RemoveBegin \/ RemoveEnd \/ \E c \in Cores : RemoveCore(c)

DeviceNext ==
  \/ Probe
  \/ Sleep
  \/ Remove
  \/ \E c \in Cores : \/ Changelink(c) \/ OpenCore(c) \/ CloseCore(c) \/ GetBerrCounter(c)
                       \/ FrameArrives(c) \/ RxIrq(c) \/ Poll(c)

\* A probe that began, the steps of an open, the interrupt and the poll are executed
\* to their end; a removal that began too.  Strong fairness where rtnl_lock is waited
\* for: the mutex hands itself over to a task that has waited.
DeviceFairness ==
  /\ SF_devvars(Probe /\ pc # "unbound")
  /\ SF_devvars(Remove /\ pc = "removing")
  /\ \A c \in Cores : /\ WF_devvars(OpenCore(c) /\ core[c].net # "down")
                       /\ WF_devvars(GetBerrCounter(c) /\ "berr" \in core[c].res)
                       /\ WF_devvars(RxIrq(c))
                       /\ WF_devvars(Poll(c))

DeviceSpec == DeviceInit /\ [][DeviceNext]_devvars /\ DeviceFairness

-----------------------------------------------------------------------------
(* Properties                                                               *)

\* Device, cores and resources have their types.
DeviceTypeOK ==
  /\ dev_bus \in {"platform", "pci"} /\ num_cores \in 0..MaxCores /\ core_i \in Cores
  /\ pc \in {"unbound", "enable", "regions", "msi", "bar1", "bar0", "kzalloc", "setdata", "alloc",
             "reset", "register", "put", "a2p_ie", "bound", "removing"}
  /\ held \subseteq {"device", "regions", "msi", "regs", "bar0", "bdata", "a2p_ie"}
  /\ drvdata \in {"NULL", "bdata", "ndev"} /\ usage \in Nat /\ dev_suspended \in BOOLEAN
  /\ fault \subseteq {"EPERM", "drvdata"}
  /\ \A c \in Cores :
       /\ core[c].ndev \in {"none", "alloc", "registered"} /\ core[c].listed \in BOOLEAN
       /\ core[c].net \in {"down", "reset", "candev", "irq", "started", "up"}
       /\ core[c].res \subseteq {"pm", "candev", "irq", "berr"}
       /\ core[c].napi \in {"off", "idle", "sched"} /\ core[c].rx \in BOOLEAN

\* Every runtime PM reference that is held belongs to a probe, an open interface or a
\* counter query in progress, whichever way the probes and opens before it failed
\* (ctucan_probe_common, ctucan_open, ctucan_close, ctucan_get_berr_counter).
PmBalanced ==
  /\ DeviceTypeOK
  /\ usage = Cardinality({c \in Cores : "pm" \in core[c].res})
        + Cardinality({c \in Cores : "berr" \in core[c].res})
        + (IF pc \in {"reset", "register", "put"} THEN 1 ELSE 0)

\* A device that is not bound has given everything back, after a failed probe as after
\* a removal.  The exception is BAR 0 of a PCI board whose probe failed after mapping it.
UnboundHoldsNothing ==
  pc = "unbound" => /\ held \subseteq (IF dev_bus = "pci" THEN {"bar0"} ELSE {})
                    /\ drvdata = "NULL"
                    /\ \A c \in Cores : core[c] = NoCore

\* A removal, unlike a failed probe, gives BAR 0 back as well (ctucan_pci_remove).
RemovalReleasesAll == [][pc = "removing" /\ pc' = "unbound" => held' = {}]_devvars

\* While a core has a net_device its registers are mapped, the bus data the list of
\* cores lives in exists, and no interrupt handler outlives the interface.
UsedOnlyWhileMapped ==
  \A c \in Cores :
    /\ core[c].ndev # "none" => "regs" \in held /\ (dev_bus = "pci" => {"bdata", "device"} \subseteq held)
    /\ core[c].listed <=> (dev_bus = "pci" /\ core[c].ndev # "none")
    /\ core[c].res # {} => core[c].ndev = "registered"

\* The fields PROP and PH1 together are as wide as the limits announced for tseg1, but
\* ctucan_set_btr only moves what PH1 cannot hold into PROP, never back.
PropFits(bt, nominal) == Redistribute(bt, nominal).prop_seg < 2^BtrWidth(nominal).prop

\* The bit length and the sample point of a register are those of a timing.
SameTiming(r, bt) == Tseg1(r) = Tseg1(bt) /\ r.phase_seg2 = bt.phase_seg2

\* A controller that runs has the bit length and the sample point the user asked for,
\* nominal and data, and just the modes asked for, although the conversion of PH1 and
\* PROP (ctucan_set_btr) is applied at the configuration and again at every open, and
\* the reset sets modes of its own.  The exception: a timing accepted within the limits
\* announced whose PROP exceeds its field, which the register truncates.
RunningAsConfigured ==
  \A c \in Cores :
    LET r == core[c].regs
        cfg == core[c].config
    IN  r.ena => /\ r.btr # {}
                 /\ PropFits(cfg.nom, TRUE) => \A b \in r.btr : SameTiming(b, cfg.nom)
                 /\ PropFits(cfg.data, FALSE) => \A b \in r.btr_fd : SameTiming(b, cfg.data)
                 /\ \A b \in r.btr : b.brp = core[c].nom.brp /\ b.sjw > 0
                 /\ r.mode = {ModeBit[f] : f \in cfg.flags \cap DOMAIN ModeBit}

\* The branches "BUG! Cannot set bittiming - CAN is enabled" are never reached, and on the
\* platform bus the power management callbacks find a net_device; on PCI, where the same
\* callbacks are registered (ctucan_pci_driver), they find the board data instead
\* (ctucan_set_btr, ctucan_suspend, ctucan_pci_probe).
OnlyPciFaults == fault # {} => dev_bus = "pci" /\ fault = {"drvdata"}

\* A frame that waits in an interface that is up is read by the poll, unless the
\* interface is closed.  "Frame reception is handled in NAPI queue, which is enabled from
\* ISR when the RXNE (RX FIFO Not Empty) bit is set" (doc/driver/ctucanfd-driver.rst); but
\* an interrupt between ctucan_chip_start and napi_enable masks RBNEI and finds a poll
\* that cannot be scheduled, and nothing unmasks it again.
WaitingFrameIsRead ==
  \A c \in Cores : (core[c].net = "up" /\ core[c].rx) ~> (core[c].net # "up" \/ ~core[c].rx)

=============================================================================
