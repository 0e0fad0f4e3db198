# CTU CAN FD: TLA+ models, model checking and proofs

This directory holds a verification development for the CTU CAN FD controller (`src/src`, VHDL), its Linux and
user-space drivers (`src/driver`, C and C++) and the Kvaser logger (`src/tools/Kvaser_logger`, C). TLC checks the
modules on small instances. TLAPS proves the main safety properties of both driver paths, of the device life cycle, of the calls of the user-space
library, of the logger, of the RX buffer, of the TX arbitration and of the control of the CAN core for all instances. `PROJECT.json` lists the components, the runs, the line ranges
each definition models, the findings and the hazards.

## 1. The system

| Part | State | Operations | Interacts with |
|---|---|---|---|
| Driver, transmit (`ctucanfd_base.c`) | `txb_head`, `txb_tail`, `txb_prio`, echo skbs, netdev queue, `tx_lock` | `ctucan_start_xmit`, `ctucan_tx_interrupt` | TXT buffers, network stack |
| Driver, receive | kept frame format word, NAPI bits, RBNEI mask | `ctucan_interrupt`, `ctucan_rx_poll`, `ctucan_rx` | RX buffer, NAPI core |
| Driver, life cycle and bus glue (`ctucanfd_pci.c`, `ctucanfd_platform.c`) | netdev and CAN state, bit timing, resources held, PM references | probe, remove, open, close, suspend, resume, bus-off, `ctucan_do_set_mode` | all of the above |
| User-space library, test tool, register test | registers as bit fields, frames in memory | `ctucan_hw_*`, `main` of the programs | registers, a peer on the bus |
| Kvaser logger | CAN channels, analyzer process, pipe, log | the log loop | Kvaser library, logic analyzer |
| TXT buffers | FSM, RAM, priority of each | software and hardware commands | registers, TX arbitrator |
| TX arbitrator | selection FSM, double buffers, committed frame | select, validate, lock, unlock | TXT buffers, protocol control |
| RX buffer | FSM, pointers, free-space, frame and read counters, RAM | store, commit, abort, read, RRB, CDO | protocol control, software |
| Interrupt manager | status, mask, enable bits | set over clear | all |
| Protocol control, operation control, fault confinement | frame phase, transmitter or receiver, TEC and REC, retransmission and reintegration counters | sample points, error and overload frames, reintegration | TXT buffers, RX buffer |
| Bit level (stuffing, CRC, prescaler, sampling), frame filters, register file, bus interfaces | | | |

What is hard to get right here:

* Driver paths run concurrently. `ctucan_start_xmit` fills a buffer without holding `tx_lock`
  while the interrupt handler reaps others. The restart work takes no lock at all.
* The interrupt sources are latched. A completion or a frame that arrives between a look at
  the hardware and the clearing or unmasking of its interrupt must not be lost.
* In the RTL everything happens on one clock edge: a read meets a commit, an abort meets a
  lock, the selection changes in the middle of a five-word read.
* The core decides with a delay: errors are counted in one cycle, fault confinement looks at the counters in the next,
  operation control acts a bit later.
* Counters wrap, memories fill up exactly, allocations and probes fail halfway.

## 2. Modules

Driver modules interleave actors, and one action is one register access or one run of private
statements. RTL modules do one clock cycle per step. All registers change at once, from their old
values and from inputs chosen nondeterministically.

| Module | Models | Role |
|---|---|---|
| `DriverTx` | transmit path of the driver, with the controller as the driver sees it | component |
| `TxFifo` | what the transmit path promises: a bounded FIFO of frames | abstract specification |
| `DriverLifecycle`, `DriverLifecycle_proofs` | `DriverTx` composed with open, close, suspend, resume, bus-off and restart; the proofs begin with those about `DriverTx` | composition, proofs |
| `DriverRx`, `DriverRx_proofs` | receive path with NAPI, RBNEI and failing allocations; the proofs include those about `TimestampRead` | component, proofs |
| `DriverDevice`, `DriverDevice_proofs` | probe, configuration, open, close, suspend and removal of a device with several cores | component, proofs |
| `BitTiming` | limits of the bit timing, `ctucan_set_btr`, widths of the register fields | operators |
| `LibraryClient`, `LibraryClient_proofs` | a client that makes any calls of the library | component, proofs |
| `RegisterFacts` | what the register layouts come to, as assumptions that TLC evaluates | facts for the proofs |
| `Userspace` | test tool, register test, `LibraryClient`, comparison of both register maps | composition |
| `HwLayer`, `RegisterMap` | calls of `ctucanfd_hw.c` on the bit fields of `ctucanfd_regs.h` | operators |
| `KernelMasks` | addresses and masks of `ctucanfd_kregs.h` and `ctucanfd_kframe.h` | operators |
| `FrameFormat` | frames as both drivers write and read them | operators |
| `BitTimingCalc`, `PciSearch` | `can_calc_bittiming`; the search for a board below `/sys/devices` | algorithms |
| `TimestampRead` | `ctucan_hw_read_timestamp` beside a running time base | component |
| `KvaserLogger`, `KvaserLogger_proofs` | the logger, its CAN channels, the analyzer process, pipe and files | component, proofs |
| `RxBuffer`, `RxBuffer_proofs` | RX buffer, cycle by cycle | component, proofs |
| `RxFrameFifo` | what the RX buffer promises: whole frames, read word by word | abstract specification |
| `TxtBuffers` | one cycle of all TXT buffers | component |
| `PriorityDecoder` | comparator tree of the arbitrator | algorithm |
| `TxArbitration`, `TxArbitration_proofs` | TXT buffers, arbitrator and the lock/unlock side of the protocol control; the proofs include those about `PriorityDecoder` | composition, proofs |
| `FaultConfinement` | error counters, their rules and the error state machine | operators |
| `CanCore`, `CanCore_proofs` | protocol control, operation control and fault confinement, bit by bit | composition, proofs |
| `TxCommands` | what protocol control promises to the TXT buffers: locks and unlocks alternate | abstract specification |
| `MC*` | instances for TLC | |

Definitions called "faulty variant" are deliberate errors of the kind the code could contain. For every
checked property there is one that makes TLC report it violated.

### DriverTx

`xmit_pc` and `isr_pc` are the program counters of the two driver paths. `StartXmit` is the unlocked
look at `TXNF`. `InsertFrame` and `PutEchoSkb` fill the buffer at `txb_head`. `SetReady` and
`CheckFull` are the locked section. `Interrupt` to `WakeQueue` are the nested loops of
`ctucan_tx_interrupt`. `HwLock`, `HwRetry`, `HwFinish`, `HwFail`, `HwBusOff` and `HwIntegrated` are the
controller. A frame is its number modulo `M`, and the `unsigned int` counters wrap at `M`. `TxAssumption`
requires that `N`, the number of TXT buffers, divides `M`. That holds for 2^32 and the four buffers both bus glues
pass, and for every other power of two; with three, five, six or seven buffers the index computed from a counter would
jump at the wrap.

### DriverLifecycle

The actions of `DriverTx` are guarded by the state of the device (`netdev`, `int_ena`, `mode_ena`).
`can_restart`, which is Linux code, flushes the echo skbs and calls `ctucan_do_set_mode`. Its steps are
`RestartFlush` to `RestartWake`. They may fall between any two steps of the other paths, because the driver has nothing that excludes
it. Two history variables remember what happened since the last open, and no guard reads them: `disturbed`, that a restart has overlapped another path, and `late`, that one has
run on a device that was being closed.

### DriverRx

`HwReceive` and `HwOverrun` are the controller, `Interrupt` to `IsrSchedule` the handler, `PollStart` to
`PollUnmask` the poll. `PollReturn` and the `napi_*` bits are the NAPI core, modelled from how the driver uses it.
`RxNext` has them all. `Latch` is the RBNEI bit of `int_module.vhd`: the level "not empty", while unmasked, wins over a clear.

### DriverDevice and BitTiming

`pc` and `core_i` are the progress of a probe or a removal. `held` and the `res` of each core say which resources are
held, `usage` counts runtime PM references. A core that is registered can be configured, opened, queried and closed while
the next core of a PCI board is still being probed. Every acquisition may fail, and the error labels undo what they undo in the
code. A configuration is a bit timing as the user gives it: the kernel's conversion to prescalers is external,
`ctucan_set_btr` with its move of time quanta from PH1 to PROP is not. Frames are reduced to whether one waits;
one may arrive whenever the controller runs, so also in the middle of `ctucan_open`. A board on either bus may be suspended. `fault` collects what the code would do wrong then.

### Userspace and its operators

`prog.kind` says which program runs: the test tool, the register test, a client of `LibraryClient` that makes any `MaxCalls` library calls, or the comparison of the register maps.
A word is the set of its one bits. `RegisterMap` gives each field of `ctucanfd_regs.h` its bits, `KernelMasks` does so for the kernel's masks, and
`HwLayer` reads and writes through them. The peer on the bus encodes and decodes frames with the kernel driver's rules, so that a frame
crosses from one driver to the other. An address is a pair of its upper and lower 32 bits, because the tool keeps it in a `uint32_t` on its way
(an `unsigned long` is taken to have 64 bits). `PciSearch` walks a tree of directories, some of which may not open, and of files, some of which may not be readable. The registers after a reset come
from the RTL (`control_registers_reg_map.vhd`). `MCUserspace` adds `TimestampRead` as one more client, and the logger as one more program.

### KvaserLogger

The logger, the child process and the bus are actors. A command travels by the pipe and is carried out at any later time: the logger only sleeps,
and a sleep that was too short sets `trouble`. `file` and `out` are the export file and the log, with the frame each record really shows. A log may be there from an earlier run, and the `rm` that should erase it may fail; `log.old` is what it left.

### RxBuffer

`Tick` is a clock edge with one command of the CAN core and any combination of a read, RRB and CDO. Each register
has an operator named after its process. A word is a triple of frame number, position in the frame, and RWCNT if it is the
frame format word.

### TxtBuffers and TxArbitration

`BuffersTick` updates all buffer FSMs from a software input (`TX_COMMAND`, RAM or `TX_PRIORITY` write) and the registered
hardware command. `ArbiterTick` is the arbitrator FSM with one disjunct per kind of step, `ProtocolTick` the command the
protocol control registers. A frame is its identity. `dbl_buf` and `com` say which frame the format word and the
identifier came from, which is all that "metadata of the right frame" needs. `stable` is a history variable that counts
the cycles in which the selection did not change. Bus monitoring and restricted operation mode are off. `MetaParity` allows parity errors in metadata words.

### FaultConfinement and CanCore

A bit has two steps. `SamplePoint` is the sample point: the FSM looks at the bit and moves, errors are counted. `AfterSample` is the cycle after it, in
which a registered error request starts an error frame, a command reaches the TXT buffers and fault confinement looks at the counters. Each state of
`protocol_control_fsm.vhd` has a case that gives its signals; identifier bits and the fields from EDL to CRC are two states with any
bits. The rest of the bus is the sampled bit. `attempts`, `sequences` and `lonely` are history variables for the properties. `TxCommands` is the interface
to `TxArbitration`, which is built on the same promise.

## 3. Runs that pass

| Run | Instance | Shows |
|---|---|---|
| `driver_paths` | 3 buffers, counters modulo 9; RX buffer of 3 frames, quota 2, one failed allocation (about 121 000 states) | Both "BUG" branches are dead; the slot being filled is free; frames are sent in order; the path implements `TxFifo`; no wake-up and no completion is lost. The kept frame format word always belongs to the oldest frame; delivery is in order and without repetition; no frame and no overrun is left behind while allocations succeed |
| `driver_lifecycle` | 2 buffers, counters modulo 6; a platform device, and a PCI board with up to 2 cores (1.3 million) | As long as no restart overlaps another path, FIFO, priorities and echo skbs agree, and an open makes good what one has spoilt; a closed device is quiet unless a restart came late; only `ctucan_resume` and an overlapping restart can leave the queue awake with all buffers taken. PM references balance; an unbound device holds nothing but BAR 0 of a failed PCI probe; no core is used without its registers; a running controller has the timing and modes asked for; no timing is written to an enabled controller |
| `userspace` | 10 command lines, 13 machines, 3 calls, 2 frames of the peer; the logger with 3 frames and a pipe of 5 commands (about 432 000) | No call disturbs what another has set; both register maps agree; the register test reads back what it has written; the tool finds its board; the bit rate is the best one; frames survive the way from driver to driver; the RX FIFO stays aligned; a time stamp lies within its call. A log without trouble is complete and right; records stay in order whatever fails; frames are legal; the logger ends unless the pipe is full |
| `rx_buffer` | 8 words, frames of 5 words, 2 frame numbers (1.2 million) | Frame count, free-space counters and the registered RAM output are exact; the buffer implements `RxFrameFifo` |
| `tx_arbitration` | 2 buffers, 2 frames, 2 priorities; time-triggered mode, and backup mode (about 168 000 up to symmetry) | A lock finds its buffer ready and the arbitrator not idle; all parts agree on what is transmitted; metadata of two frames is never mixed; a settled arbitrator offers the selected buffer with the frame it holds; a stable selection is validated within 11 cycles; every end of a transmission but one raises TXBHCI |
| `can_core` | fields of 2 or 3 bits, small counters, 3 modes (about 620 000) | Roles and error states fit; a bus-off node is silent but for one overload flag; attempts are limited; a lonely node stays error passive; TEC never wraps; bus-off ends only after the full integration; commands implement `TxCommands`; a quiet bus lets the node recover |

Two runs hold parts that share no state: the two driver paths, and the interface and the device it belongs to. One of them runs and the other rests in an initial state.

Some properties are conjunctions of named parts that belong together: `OutputsExact`, `FramesIntact`, `ToolSetUp`,
`LogFaithful` and `LeavesInOrder`. Their definitions name the parts, and each part has its own comment. The types of `DriverTx` and `DriverRx`, and `TailFinished`, `WithinQuota` and
`RemovalReleasesAll`, are in no run because section 5 proves them.

Several properties state the exact behaviour with its exceptions, where the code does a little more or less than
one would expect. Section 4 lists the exceptions.

### Why the bounds are enough

* `driver_paths`: three buffers are a full FIFO, an empty one and two fill levels between which the priorities rotate. Nine counter values make the counters wrap at
  every fill level, and they exceed twice the number of buffers, which the signed comparison needs. The proofs cover
  four buffers and every other value. The RX buffer holds more frames than the quota, so that polls end by quota, by an empty buffer and by a
  failed allocation. Frame numbers repeat only after more frames than fit.
* `driver_lifecycle`: two buffers are enough for a full, a half-full and an empty FIFO, and for rotated and reset priorities to differ. After an overlapping restart
  the run goes on only where the device is being closed (`Explored`), because two of its properties claim nothing before the next open; the third, `ClosedIsQuiet`, is about closed devices. Without this
  constraint TLC finds no error either, in 43.4 million states. The proofs know no constraint. With two cores the second probe fails after the first core is registered and open. The timings need a move from PH1 to PROP,
  and one exceeds the PROP field.
* `userspace`: three calls let a third one disturb what two others have set. The frames cover both identifier formats, remote frames, classical and FD lengths with padding.
  A low word of 4 values carries during a call. The machines have a board behind a bridge, a decoy outside PCI, only the second kind of board, no PCI, a directory that does not open before and behind the board,
  an address that cannot be read, and a board above 4 GiB. Three frames of the logger let an export arrive one and two iterations late. The pipe is shorter than the commands of all iterations.
* `rx_buffer`: one frame fits, a second overruns, frames wrap around the end of the memory at all offsets, and a frame can end with its
  last word in the last free place.
* `tx_arbitration`: two buffers can take the selection from each other; two frames tell a stale copy from a fresh one, and the content of the
  registers after reset (`Cleared`) is neither of them. The frames are interchangeable: no action and no property names one, so the run uses them as a
  symmetry set. Parity errors hit data words only (`MetaParity = FALSE`).
* `can_core`: limits, increments and widths are small but in the order of the real ones: an increment lands beyond each limit, TEC has two increments of
  headroom above bus-off, and the retransmission counter is wider than its limit. Every field has a first, a last and, for integration and intermission, an inner bit.

### Fairness

Safety needs none.

* `driver_paths`: both transmit paths run on (weak fairness); a contended spinlock is eventually obtained (strong fairness of the three acquisitions, as
  queued spinlocks give); an integrated controller locks a ready buffer; a transmission does not fail and retry for ever (an acknowledging bus or
  the retransmission limit); a bus-off controller fails what it holds. Bus-off, integration and new frames are never forced. On the receive side,
  pending interrupts are taken and listed NAPI instances are polled.
* `open_before_napi`: open, counter query, interrupt and poll run on once begun; probe and removal, once begun, get `rtnl_lock` in the end (strong fairness, the lock is
  handed over). Nothing forces a user to close or a device to be removed.
* `userspace`: when the program is the logger, it and the analyzer process are scheduled.
* `can_core`: the clock runs.

`ValidatedInTime` is a safety property and needs no fairness.

## 4. Differences between the code and its documentation

### Runs that find a violation

Each checks one property that a comment, an assertion or a document states of the program.

| Run | What the code does |
|---|---|
| `driver_rx_no_skb` | After one failed SKB allocation NAPI stays scheduled, RBNEI masked, and no frame is delivered any more |
| `restart_overlap` | `ctucan_do_set_mode` resets `txb_head` and `txb_tail` without `tx_lock` (`ctucanfd_base.c:418`) while `ctucan_start_xmit` or `ctucan_interrupt` is in the middle of a buffer: counters, buffers and echo slots no longer agree |
| `open_before_napi` | `ctucan_open` starts the controller before `napi_enable` (`ctucanfd_base.c:1299`, `1309`): a frame in between masks RBNEI without scheduling a poll, and is not read while the interface is up |
| `library_settings` | `ctucan_hw_set_mask_filter` writes `can_id` to the mask register and `can_mask` to the value register (`ctucanfd_hw.c:468`); `ctucan_hw_set_mode` sets bus error reporting by the flag of the one-shot mode, and never clears it (`ctucanfd_hw.c:260`) |
| `rx_buffer_error_frame` | With error frame logging, an overrun at the fourth word of an error frame is missed and three words are committed |
| `stale_metadata` | A committed buffer that is aborted, refilled and set ready while another one is being validated is sent with the identifier and metadata of its previous frame |

`driver_rx_no_skb` and `open_before_napi` are temporal counterexamples and are found under the fairness of section 3.

### Exceptions that passing properties name

* `ConsistentAlone`, `OverfilledOnlyBy`: what `restart_overlap` shows, since the last open. Besides, `ctucan_resume` (`ctucanfd_base.c:1415`) starts the queue with all buffers taken, so that the next frame reaches the branch
  "BUG!, no TXB free when queue awake!" (line 648).
* `ClosedIsQuiet`: `ctucan_close` calls `ctucan_chip_stop` before `close_candev` cancels the restart, so a restart in between leaves a closed device with its interrupts and its controller
  enabled. The comment before `ctucan_chip_stop` says: "This is the drivers stop routine. It will disable the interrupts and disable the controller."
* `RunningAsConfigured`: `ctucan_set_btr` moves what PH1 cannot hold into PROP, never back; a PROP above its field, within the limits the driver announces, is truncated in BTR.
* `OnlyPciFaults`: `ctucan_suspend` and `ctucan_resume` take the driver data for a net_device, which on PCI, where they are registered too, it is not.
* `FinishInterrupts`: an abort in the cycle of an error or arbitration loss ends in Aborted without TXBHCI (`txt_buffer_fsm.vhd:446`).
* `UnboundHoldsNothing`: a PCI probe that fails after mapping BAR 0 leaves it mapped (`ctucanfd_pci.c:227`).
* `OtherSettingsKept`: leaves open the order of the two words of a filter and the bus error interrupt, that is, what `library_settings` is about.
* `RegtestReadsBack`: the register test compares the identifier with version 2.4 twice; the RTL here reports 2.6 (`can_config_pkg.vhd:84-85`), so that the test fails on it.
* `ToolSetUp` (`PciBoardFound`): nothing is claimed of a board at 4 GiB or above, whose address the tool cuts to 32 bits.
* `FramesIntact` (`RepeatedOnlyAfterFailure`): the test tool sets the TXT buffer ready even when the insertion has failed.
* `LogFaithful`: a failed `rm` leaves an old log, to which the records of this run are appended.
* `LeavesInOrder` (`AnalyzerStopped`): after a failed `fork` the logger signals process -1, that is every process it may signal (`stp.c:98-110`).
* `EndsUnlessBlocked`: the logger holds both ends of the pipe, so that a full pipe to a dead or armed analyzer blocks it for ever.
* `AttemptsLimited`: an error in an overload frame after a transmission is counted; a new frame in an aborted buffer inherits the counter; after a lost
  arbitration a protocol exception leads past the intermission, and the next failure is not counted (`protocol_control_fsm.vhd:812`, `2985`, `2994`).
* `BusOffSilent`: a node that has become bus-off answers a dominant last delimiter bit with an overload flag (`protocol_control_fsm.vhd:1293`, `1323`).
* `RecoversAfterIntegration`: a classical node ignores the last bit of each run of eleven (line 2509).

### A constant that switches a behaviour on

`MetaParity = TRUE` (`TxArbitration`): a metadata parity error sends the arbitrator to idle in the cycle in which another, committed buffer is locked
(`tx_arbitrator_fsm.vhd:227`), and `LockIsTaken` fails, as would the assertion at line 636. The run and three of the theorems have it `FALSE`, so that they say nothing about this hazard.

### Other behaviour of the models worth knowing

* A poll that handles exactly its quota and then finds the RX buffer empty completes NAPI and unmasks RBNEI, and is polled again because it
  returned the quota. `FramesDelivered` and `DeliveredInOrder` hold in spite of it.
* COMMAND.ERCRST is remembered: given while the node is not bus-off it acts at the next bus-off, although `registerMap.lyx:8436` says it has no effect.
* A transmitter that samples a protocol exception raises its error request in state integrating. The assertion `no_err_frm_req_in_off`
  (`protocol_control_fsm.vhd:3255`) excludes that state; `Requests` of `CanCore_proofs` has the states in which a request may be met.
* The run lengths the logger writes are one too small after the first run, and the first sample of a frame is dropped: `data_processor.h:32-38` describes plain runs,
  "where NUM reffers to number of consecutive ocurrences of VAL." `KvaserLogger` follows which frame the bits of a record come from, not the lengths of their runs.
* The kernel driver maps PRESUME_ACK to MODE[ACF], the library to MODE[STM].

## 5. What is proved

Each theorem holds for every value of the constants that the named assumption of the module allows. In each case the safety
property is not inductive as it stands, and the proof goes by an inductive invariant, mostly called `IInv`: it holds initially, every action preserves it (one lemma or
case per action), and it implies the property.

| Module | Theorem | Statement |
|---|---|---|
| `DriverLifecycle_proofs` | `TxTypes`, `TxInvariant` | `TypeOK` and `IInv` always hold |
| | `TxAwakeMeansRoom` | the branch "no TXB free when queue awake" is dead |
| | `TxSlotFree` | the buffer and echo slot filled without the lock are free all the while |
| | `TxTailFinished` | the branch "not in a finished state" is dead |
| | `TxFifoOrder` | no buffer is sent before the ones set ready earlier have finished |
| | `TxImplementsFifo` | the transmit path implements `TxFifo` |
| | `LifecycleConsistentAlone` | FIFO, buffers, echo skbs and priorities agree after any life cycle on a device that no overlapping restart has disturbed since it was opened |
| | `LifecycleClosedIsQuiet` | a closed device is quiet, but for the enables a late restart has set |
| | `LifecycleOverfilledOnlyBy` | only `ctucan_resume` and an overlapping restart can leave the queue awake with all buffers taken |
| `DriverRx_proofs` | `RxTypes`, `RxWithinQuota` | types; a poll never handles more frames than its quota |
| | `RxFfwOfHead` | a kept frame format word is that of the oldest frame |
| | `RxDeliveredInOrder` | frames are delivered in order, none twice |
| | `TimestampCorrect` | the time read by `ctucan_hw_read_timestamp` lies within the call |
| `DriverDevice_proofs` | `DeviceUnboundHoldsNothing` | an unbound device holds nothing, but for BAR 0 |
| | `DeviceRemovalReleasesAll` | a removal gives everything back |
| | `DeviceUsedOnlyWhileMapped` | a core is used only while its registers are mapped |
| | `DeviceOnlyPciFaults` | on both buses no timing is written to an enabled controller; only on PCI a power management callback finds something else than a net_device |
| | `DevicePmBalanced` | runtime PM references balance |
| | `DeviceRunningAsConfigured` | a running controller has the timing and modes it was configured with, unless PROP exceeds its field |
| `RxBuffer_proofs` (if not `ERFM`) | `RxOutputsExact` | frame count, free memory and RX_DATA are exact in every cycle |
| | `RxImplementsFrameFifo` | the RX buffer implements `RxFrameFifo` |
| `TxArbitration_proofs` | `DecoderPicksBest` | the tree picks the best available buffer |
| | `ArbitrationValidatedIsSelected` | a settled arbitrator offers the selected buffer with the frame it holds; metadata of two frames is never mixed |
| | `ArbitrationValidatedInTime` | a stable selection is validated within 11 cycles |
| (if not `MetaParity`) | `ArbitrationLockIsTaken` | a lock finds its buffer ready and the arbitrator not idle |
| | `ArbitrationOneTransmission` | all parts agree on what is transmitted |
| | `ArbitrationFinishInterrupts` | every end of a transmission but one raises TXBHCI |
| `CanCore_proofs` | `CoreRolesFit` | operation control and fault confinement fit |
| | `CoreTecNeverWraps` | TEC never wraps |
| | `CoreImplementsTxCommands` | locks and unlocks implement `TxCommands` |
| | `CoreBusOffSilent` | a bus-off node is silent but for one overload flag |
| | `CoreAttemptsLimited` | transmissions of a frame are limited, and it fails only at the limit |
| | `CoreLonelyNotBusOff` | a node alone on the bus does not become bus-off |
| | `CoreRecoversAfterIntegration` | bus-off ends only after the full integration |
| `LibraryClient_proofs` | `ClientOtherSettingsKept` | after any library calls the registers say what was asked for, but for the order of the words of a filter and the bus error interrupt |
| `KvaserLogger_proofs` | `LeavesInOrderHolds` | both channels set up or none, and no analyzer left running |
| | `LogFaithfulHolds` | records in order, behind those of an old log, and of legal frames; without trouble a complete log, each record with the bits of its own frame |

**DriverTx** (`TxAssumption`). `IInv` adds what the properties rest on:

* `RingInv`: the non-empty buffers are exactly those from tail to head, except the one being reaped.
* `PrioInv`: priorities fall along the ring from the tail, and lag by one place between reaping and rotation. This is why the arbitrator's
  choice is the oldest frame.
* `LockInv`: who holds `tx_lock` at which step.
* `SlotInv`: the buffer that `ctucan_start_xmit` is filling is empty and has no echo skb but its own; echo skbs belong to buffers in flight.
* `QueueInv`: an awake queue and an idle transmit path mean an empty buffer. All the others together are `CoreInv`.
* `IntInv`: a pending TXBHCI means a finished tail, unless this round of the handler has reaped its cause.

The proof has one lemma per actor (`XmitStep`, `IsrStep`, `HwStep`), each with a case per action and a step per conjunct the action can
disturb. The arithmetic is separate: the first section derives what a wrapping increment does to the index modulo `N`, and `HeadStep`,
`TailStep` and `ReapShift` turn that into how distances along the ring move.

For `TxImplementsFifo` the FIFO is read off the ring (`FifoView`): place `k` is the buffer `k - 1` steps after the tail, with its echo skb and the result of its
transmission. `IInv` gives every step. An action either changes neither ring nor results (`SameView`), or sets the
head ready, which appends, or reaps the tail, which takes the first entry off, or ends transmissions, which sets results.

**DriverLifecycle** (`TxAssumption`). `WholeInv` has two parts. `BaseInv` holds however restarts overlap: types, who holds `tx_lock`, and what a closing device still may do (`EndsInv`), from which
`ClosedIsQuiet` follows. `LifeInv` holds while the device is not `disturbed`. Even a restart that runs alone leaves the ring inconsistent for a while, and `ctucan_resume` breaks `QueueInv`. `LifeInv` therefore keeps
`CoreInv` of `DriverTx` except between the reset of a restart and its last counter assignment, and on a closed device whose controller has been reset
(`CoreSometimes`). `PathInv` says which path may run then (none), `RestartInv` what the restart has done so far, so that its end makes the ring anew. The actions of
`DriverTx` preserve `CoreInv` by the lemmas of the first part. An open of a closed device establishes `LifeInv` from `BaseInv` alone.

**DriverRx** (`RxAssumption`: any capacity, quota and number of failures). `IInv` adds that a word of the oldest frame has been read exactly while
its frame format word is in hand, in `ctucan_rx` or kept for the next poll, and never in both places.

**DriverDevice** (`DeviceAssumption`: any number of cores, any configurations). `IInv` ties the resources held to the progress of the probe or removal
(`HeldInv`), says which cores may exist at each step (`CoreInv`) and what the driver data is (`DataInv`). For `DevicePmBalanced`, `UseInv` has the reference
each core holds by the step its open, close or query is at, and the proof counts the cores that hold one. For `DeviceRunningAsConfigured`,
`ConfInv` follows a timing from the configuration through the conversion of `ctucan_set_btr`, which is applied twice, to the registers: the second conversion changes nothing, because
the first leaves PH1 within its field. `ConfigAssumption` says of a configuration what the CAN layer checks before it calls the driver.

**TimestampRead** (`TimestampAssumption`). The time base advances during a call by less than a whole span of the low word, which at 32 bits is
the case for any call. `ReadInv` says of each word read so far from which times it can come.

**RxBuffer** (`RxBufferAssumption`, error frames not logged). The memory size is any multiple of four words; `rx_buffer.vhd:949-956` allows only powers of two from 32 on. That
frames have at least four words then bounds the frame count (`FewFrames`). Frame lengths are any that fit the memory. `IInv` has these parts:

* `Pointers`: the write pointers are as far behind the read pointer as the free-space counters say. Distances are counted with `At`, one subtraction instead of a remainder.
* `FsmInv`: a commit or an abort falls into the first cycle of idle, and a release marks the frame being stored as overrun for as long as the reset lasts.
* `PartialInv`, `TsInv`, `WordsInv`: unless overrun, the words behind the committed ones are those of the frame being stored, as many as the FSM has passed, and the
  timestamp goes into the third and the fourth of them.
* `FrameInv`: the words to be read are the last `read_counter_q` words of a frame and then whole frames (`Framed`), and the frame count is their number.
* `FreshInv`: the output of the memory is up to date whenever there is something to read, and already when two words of the first frame have been written. Without the second part it
  would not be inductive: the commit itself does not clock the memory.

A cycle is taken apart into what it does to the counters, the memory (`WriteWord`: a write hits exactly one word, never a committed one) and the visible words (`VisibleStep`), for cycles
without a release; `ReleasedIInv` is the other case. What reading a word and appending a frame do to `Framed` and to the number of frames are lemmas about sequences.

**TxArbitration** (`TxArbitrationAssumption`, `TxtBuffersAssumption`: two to eight buffers). For all priorities in Nat and all sets of available buffers the eight-input tree outputs valid
exactly when a buffer is available, and then the one with the highest priority, the lowest index among equals. That is the rule `Selected` of
`DriverTx` assumes of the controller. The proof goes level by level (`JoinWins`, `RootWins`). `SelectInv` says that the format word
read last is that of the frame the selected buffer holds, as long as the software has not got that buffer back. `TimeInv` says how many undisturbed cycles can at most have passed in
each state of the arbitrator. `PhaseInv` says that protocol control, arbitrator and buffers are at matching points of a transmission. `PhaseInv` needs that no parity error hits metadata, because such an error sends the arbitrator to idle behind the back of a lock (section 4).

**CanCore** (`FaultConfinementAssumption`, `CanCoreAssumption`). `IInv` says which roles (`Roles`) and counters (`Fields`) are possible in which state of the FSM, and where a pending error
request or command may be met (`Requests`). The proof has two layers. The first has one case per FSM state, and shows that the signals of that
state keep to a short list of rules (`SignalsFit`). The second derives the registers after the step from these rules alone. That TEC never wraps needs two
increments of headroom between the bus-off limit and the width of the counter: one because fault confinement looks at TEC a cycle late, one because operation control
looks at fault confinement a bit late. The real numbers, 255 + 16 < 512, leave it.

The properties about counters need a second invariant, `HInv`. `Settling` bounds TEC while fault confinement still says error active, which is why a node in an active
error flag is not bus-off. `Runs` ties `ctrl_ctr` and `reinteg_ctr` to the recessive bits and runs that were really seen. `Tries` ties `retr_ctr` to the attempts: it is one behind
while the frame is sent, equal while the frame waits, and an error frame that follows another one is not counted again. `LonelyNotBusOff` is part of `HInv`. The first layer is the same case split over FSM states, with
a second list of rules (`Detail`).

**LibraryClient** (`CallsAssumption`: arguments have the types of the C functions, any number of calls). `OtherSettingsKept` compares the words in the registers with what the client has
asked for. It is not inductive, because what a call does depends on more than the settings. `ClientInv` therefore adds `Good`:

* `Calm`: neither MODE.RST nor MODE.TSTM is set. So the error limits stay locked, and a write of MODE is not a reset.
* `OnRegs`, `IsWant`: registers and requests have exactly their names, so a write changes one of them and no other.
* `ModeGood`, `FiltersGood`, `RangeGood`, `LimitsGood`: the words agree with the requests field by field, and the three mask filters are there. If one were not, `ctucan_hw_set_mask_filter` would refuse the call.

The proof goes from bits to calls. `GetPut`, `LowBits` and `FieldOfWord` say that what is put into a field is read from it, cut to its width, and that a field does not disturb the others. One lemma
per word (`NbtWord`, `RetWord`, `ModesWord`, `FilterWord` and so on) gives what a call writes. `WritePlain`, `WriteLocked`, `WriteMode`, `WriteInts` and `WriteHalf` give what a write does to the registers. `ModeChange`, `OneChange` and `FilterChange` put
the two together, and one lemma per call follows.

The layouts are lists of fields whose bits a recursive function adds up, and `Number` is a fold over a set of bits: both are closed formulas that TLC computes and the provers cannot unfold. `RegisterFacts`
states what they come to (which bits a field has in both header sets, the powers of two up to 2^8, `Number` for all values of all fields of up to eight bits, the words after a reset) as
named assumptions. They contain neither constants nor variables. TLC evaluates each of them, completely and from the definitions, in the run `userspace`, and a wrong one would stop that run. The theorem is thus proved
relative to facts that are computed and not proved.

**KvaserLogger** (`LoggerAssumption`: any number of frames, size of the pipe and random values). For `LeavesInOrder`, `ChanInv` and `ChildInv` say which channels are set up, and whether there is an analyzer, at each
place of the program. For `LogFaithful`, `OutInv` bounds the records by the iteration, one less from the start of the iteration to its record, and `QueueInv` says that nothing in the queues, the export file or the analyzer shows a frame that has not been
generated. `OldInv` keeps what a failed `rm` has left apart from the records of this run. `InStep` is the part for a run without trouble: at each place of the logger it says where analyzer, pipe and bus can be. The logger gets no answers, so this is
exactly what its sleeps are for. `FrameInv` carries the legal frame from `generate_can_frame` to `canWrite`.

## 6. What is only model-checked

* All liveness properties: temporal reasoning with fairness is outside the prover's reach.
* The lock properties of `TxArbitration` and `RxBuffer` without the restrictions `~MetaParity` and `~ERFM`, where section 4 says what fails.
* Of `Userspace`: the test tool, the register test and the way of a frame from one driver to the other (`ToolSetUp`, `FramesIntact`). What the search for the bit timing and the search for the board compute for every
  input would need induction over data, and the modules have RECURSIVE operators. `RegisterMapsAgree` and `RegtestReadsBack` compare closed tables and run a fixed script; TLC does so completely.

## 7. What is not modelled

* Bit stuffing, CRC, shift registers: data path; the CRC is arithmetic on wide vectors that a small instance does not represent.
* Prescaler and bus sampling: time quanta. The other modules need only that sample points are several cycles apart, and say so where they use it.
* Frame filters: a combinational comparison with one register. `RxBuffer` takes the filtered commands of whole frames as its input. Filter registers
  rewritten during a reception could pass the first command of a frame and stop its last one; this is listed as a hazard without a property.
* Of the register file and the bus interfaces only the reset values, the locks of the error limits (`HwLayer`) and the byte lanes (`Userspace`); the rest is generated code and address decoding, and an access is an atomic input of the other modules.
* In the core: edges shorter than a bit, the ACF, SAM and STM modes, presets of the counters in test mode, and the commands to the RX buffer.
* In the RX and TXT buffers: parity encoding and the RAM test port.
* In the driver: error-warning and error-passive reports, statistics, and the iteration limit of `ctucan_interrupt` over all sources together. The Linux
  frameworks (netdev, NAPI, CAN, PCI, PM) are external and modelled by what the driver sees of them.
* Text output of the tools. The option of the test tool that measures the read speed is modelled by its effect on the RX FIFO.

## 8. What could follow

1. The dispatch loop of `ctucan_interrupt` with its iteration limit, over all interrupt sources.
2. The receive path composed with a restart that overlaps it.
3. Frame filters in front of `RxBuffer`, with registers that change during a frame.
4. What can be proved of `RxBuffer` while error frames are logged.
