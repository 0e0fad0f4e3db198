--------------------------- MODULE DriverLifecycle ---------------------------
(***************************************************************************)
(* The transmit path of DriverTx together with the paths of the driver     *)
(* that manage the device from other contexts: ctucan_open, ctucan_close,  *)
(* ctucan_suspend, ctucan_resume, the error interrupt that declares        *)
(* bus-off, and the restart (can_restart calling ctucan_do_set_mode) that  *)
(* resets and restarts the controller.                                     *)
(***************************************************************************)
EXTENDS DriverTx

VARIABLES
  netdev,       \* up, closing and stopped (inside ctucan_close), down
  suspended,    \* between ctucan_suspend and ctucan_resume
  can_state,    \* priv->can.state
  int_ena,      \* INT_ENA: interrupts reach the CPU
  mode_ena,     \* MODE.ENA: the controller takes part in the bus
  fcsi,         \* INT_STAT.FCSI
  restart_due,  \* can_bus_off has scheduled the restart
  restart_pc,   \* next step of the restart
  \* Two histories since the last open; the properties read them, no guard does.
  disturbed,    \* the restart has overlapped another path of the driver
  late          \* the restart has run on a device that was being closed

mvars == <<netdev, suspended, can_state>>
cvars == <<int_ena, mode_ena, fcsi>>
rvars == <<restart_due, restart_pc>>
hvars == <<disturbed, late>>
lvars == <<mvars, cvars, rvars>>

\* Device, restart and interrupt enables have their types.
LTypeOK ==
  /\ TypeOK
  /\ netdev \in {"up", "closing", "stopped", "down"}
  /\ suspended \in BOOLEAN
  /\ can_state \in {"STOPPED", "ERROR_ACTIVE", "BUS_OFF", "SLEEPING"}
  /\ int_ena \in BOOLEAN
  /\ mode_ena \in BOOLEAN
  /\ fcsi \in BOOLEAN
  /\ restart_due \in BOOLEAN
  /\ restart_pc \in {"idle", "reset", "head", "tail", "enable", "wake", "failed"}
  /\ disturbed \in BOOLEAN
  /\ late \in BOOLEAN

LInit ==
  /\ Init
  /\ netdev = "up"
  /\ suspended = FALSE
  /\ can_state = "STOPPED"
  /\ int_ena = TRUE
  /\ mode_ena = TRUE
  /\ fcsi = FALSE
  /\ restart_due = FALSE
  /\ restart_pc = "idle"
  /\ disturbed = FALSE
  /\ late = FALSE

\* A restart under way on a device that ctucan_close is closing, or next to
\* ctucan_start_xmit or ctucan_interrupt: no lock or flag of the driver excludes them.
LateRestart == restart_pc \notin {"idle", "failed"} /\ netdev # "up"
Overlap     == LateRestart \/ (restart_pc # "idle" /\ (xmit_pc # "idle" \/ isr_pc # "idle"))

Remember ==
  LET opened == netdev = "down" /\ netdev' = "up"
  IN  /\ disturbed' = (~opened /\ (disturbed \/ Overlap'))
      /\ late' = (~opened /\ (late \/ LateRestart'))

-----------------------------------------------------------------------------
(* The transmit path and the controller, under the state of the device      *)

\* ndo_start_xmit is only called on a device that is up.
TxPath ==
  /\ \/ StartXmit /\ netdev = "up"
     \/ InsertFrame
     \/ PutEchoSkb
     \/ SetReady
     \/ CheckFull
  /\ UNCHANGED lvars

IsrPath ==
  /\ \/ Interrupt /\ int_ena /\ netdev # "down"
     \/ IsrLock
     \/ ReapTail
     \/ RotatePrio
     \/ SetEmpty
     \/ LoopEnd
     \/ ClearTxbhci
     \/ WakeQueue
  /\ UNCHANGED lvars

Controller ==
  \/ /\ mode_ena
     /\ \E b \in Bufs : HwLock(b) \/ HwRetry(b) \/ (\E st \in Finished : HwFinish(b, st))
     /\ UNCHANGED lvars
  \/ HwFail /\ UNCHANGED lvars
  \/ /\ mode_ena
     /\ HwBusOff \/ HwIntegrated
     /\ fcsi' = TRUE
     /\ UNCHANGED <<mvars, int_ena, mode_ena, rvars>>

\* FCSI in ctucan_interrupt: clear it, then ctucan_err_interrupt reads the fault
\* confinement state; bus-off schedules a restart (can_bus_off).
ErrInterrupt ==
  /\ isr_pc = "idle"
  /\ int_ena
  /\ netdev # "down"
  /\ fcsi
  /\ fcsi' = FALSE
  /\ can_state' = IF bus = "on" THEN "ERROR_ACTIVE" ELSE "BUS_OFF"
  /\ restart_due' = (restart_due \/ bus # "on")
  /\ UNCHANGED <<vars, netdev, suspended, int_ena, mode_ena, restart_pc>>

-----------------------------------------------------------------------------
(* can_restart (Linux CAN core) and ctucan_do_set_mode(CAN_MODE_START)      *)

\* can_flush_echo_skb
RestartFlush ==
  /\ restart_pc = "idle"
  /\ restart_due
  /\ restart_due' = FALSE
  /\ echo_skb' = [b \in Bufs |-> NoSkb]
  /\ restart_pc' = "reset"
  /\ UNCHANGED <<hwvars, txb_head, txb_tail, queue_stopped, tx_lock, xvars, ivars, mvars, cvars>>

\* MODE.RST: buffers empty, interrupts disabled and cleared, controller off.
ResetHw ==
  /\ txb_state' = [b \in Bufs |-> "ETY"]
  /\ txbhci' = FALSE
  /\ bus' = "integrating"
  /\ int_ena' = FALSE
  /\ mode_ena' = FALSE
  /\ fcsi' = FALSE

\* ctucan_reset: the controller answers again, or the restart gives up on a device
\* that is dead until it is closed and opened again.
RestartReset ==
  /\ restart_pc = "reset"
  /\ ResetHw
  /\ restart_pc' \in {"head", "failed"}
  /\ UNCHANGED <<txb_frame, txb_prio, drvvars, xvars, ivars, mvars, restart_due>>

\* Faulty variant: txb_head goes on from the frames lost in the reset.
RestartHeadForgotten ==
  /\ restart_pc = "head"
  /\ restart_pc' = "tail"
  /\ UNCHANGED <<vars, mvars, cvars, restart_due>>

\* ctucan_chip_start, the FIFO counters: neither is written under tx_lock.
RestartHead ==
  /\ restart_pc = "head"
  /\ txb_head' = 0
  /\ restart_pc' = "tail"
  /\ UNCHANGED <<hwvars, txb_tail, echo_skb, queue_stopped, tx_lock, xvars, ivars, mvars, cvars,
                 restart_due>>

RestartTail ==
  /\ restart_pc = "tail"
  /\ txb_tail' = 0
  /\ txb_prio' = [i \in 0..7 |-> 7 - i]
  /\ restart_pc' = "enable"
  /\ UNCHANGED <<txb_state, txb_frame, txbhci, bus, txb_head, echo_skb, queue_stopped, tx_lock,
                 xvars, ivars, mvars, cvars, restart_due>>

\* The rest of ctucan_chip_start: interrupts, can.state, MODE.ENA.
RestartEnable ==
  /\ restart_pc = "enable"
  /\ int_ena' = TRUE
  /\ mode_ena' = TRUE
  /\ can_state' = "STOPPED"
  /\ restart_pc' = "wake"
  /\ UNCHANGED <<vars, netdev, suspended, fcsi, restart_due>>

RestartWake ==
  /\ restart_pc = "wake"
  /\ queue_stopped' = FALSE
  /\ restart_pc' = "idle"
  /\ UNCHANGED <<hwvars, txb_head, txb_tail, echo_skb, tx_lock, xvars, ivars, mvars, cvars,
                 restart_due>>

Restart == \/ RestartFlush \/ RestartReset \/ RestartHead \/ RestartTail
           \/ RestartEnable \/ RestartWake

-----------------------------------------------------------------------------
(* ctucan_close and ctucan_open; the network stack has made sure that no    *)
(* ndo_start_xmit runs when it calls ndo_stop.                              *)

\* netif_stop_queue, napi_disable
Close ==
  /\ netdev = "up"
  /\ ~suspended
  /\ xmit_pc = "idle"
  /\ netdev' = "closing"
  /\ queue_stopped' = TRUE
  /\ UNCHANGED <<hwvars, txb_head, txb_tail, echo_skb, tx_lock, xvars, ivars, suspended, can_state,
                 cvars, rvars>>

\* Faulty variant: the interrupts stay enabled.
ChipStopKeepsInt ==
  /\ netdev = "closing"
  /\ netdev' = "stopped"
  /\ mode_ena' = FALSE
  /\ can_state' = "STOPPED"
  /\ UNCHANGED <<vars, suspended, int_ena, fcsi, rvars>>

\* ctucan_chip_stop
ChipStop ==
  /\ netdev = "closing"
  /\ netdev' = "stopped"
  /\ int_ena' = FALSE
  /\ mode_ena' = FALSE
  /\ can_state' = "STOPPED"
  /\ UNCHANGED <<vars, suspended, fcsi, rvars>>

\* free_irq waits for the interrupt handler, close_candev for the restart.
FreeIrq ==
  /\ netdev = "stopped"
  /\ isr_pc = "idle"
  /\ restart_pc \in {"idle", "failed"}
  /\ restart_due' = FALSE
  /\ restart_pc' = "idle"
  /\ echo_skb' = [b \in Bufs |-> NoSkb]
  /\ netdev' = "down"
  /\ UNCHANGED <<hwvars, txb_head, txb_tail, queue_stopped, tx_lock, xvars, ivars, suspended,
                 can_state, cvars>>

\* ctucan_reset, open_candev, request_irq, ctucan_chip_start, netif_start_queue;
\* an error on the way leaves the device down.
Open ==
  /\ netdev = "down"
  /\ netdev' = "up"
  /\ txb_state' = [b \in Bufs |-> "ETY"]
  /\ txbhci' = FALSE
  /\ bus' = "integrating"
  /\ txb_head' = 0
  /\ txb_tail' = 0
  /\ txb_prio' = [i \in 0..7 |-> 7 - i]
  /\ int_ena' = TRUE
  /\ mode_ena' = TRUE
  /\ fcsi' = FALSE
  /\ can_state' = "STOPPED"
  /\ queue_stopped' = FALSE
  /\ UNCHANGED <<txb_frame, echo_skb, tx_lock, xvars, ivars, suspended, rvars>>

\* ctucan_suspend on a running device
Suspend ==
  /\ netdev = "up"
  /\ ~suspended
  /\ suspended' = TRUE
  /\ queue_stopped' = TRUE
  /\ can_state' = "SLEEPING"
  /\ UNCHANGED <<hwvars, txb_head, txb_tail, echo_skb, tx_lock, xvars, ivars, netdev, cvars, rvars>>

\* ctucan_resume: the queue is started whatever the buffers hold.
Resume ==
  /\ suspended
  /\ suspended' = FALSE
  /\ queue_stopped' = FALSE
  /\ can_state' = "ERROR_ACTIVE"
  /\ UNCHANGED <<hwvars, txb_head, txb_tail, echo_skb, tx_lock, xvars, ivars, netdev, cvars, rvars>>

Manage == Close \/ ChipStop \/ FreeIrq \/ Open \/ Suspend \/ Resume

LNext ==
  /\ TxPath \/ IsrPath \/ Controller \/ ErrInterrupt \/ Restart \/ Manage
  /\ Remember

LSpec == LInit /\ [][LNext]_<<vars, lvars, hvars>>

-----------------------------------------------------------------------------
(* Properties                                                               *)

\* Whatever was opened, closed, suspended, resumed and restarted before, the state of
\* the transmit path agrees: txb_head is never behind txb_tail, nor ahead by more than
\* the buffers there are, but for the restart between its own two assignments; the
\* buffer and echo slot being filled are free; and the priorities keep the frames in
\* order.  This is what tx_lock is for: "spinlock to serialize allocation and processing
\* of TX buffers" (ctucanfd.h).  ctucan_do_set_mode does without it, and with a restart
\* that overlaps ctucan_start_xmit or ctucan_interrupt the code does not keep it.
RingConsistent ==
  /\ LTypeOK
  /\ restart_pc # "tail" => Diff <= N
  /\ SlotFree
  /\ FifoOrder

\* A device on which no restart has overlapped another path since it was opened keeps
\* the transmit path consistent, through any restart that ran alone and any suspend,
\* resume and close (ctucan_chip_start, ctucan_suspend, ctucan_resume, ctucan_close);
\* and an open makes good what an overlapping restart has spoilt before.
ConsistentAlone == ~disturbed => RingConsistent

\* After ctucan_close no handler is left in the middle of the buffers, no interrupt is
\* enabled and the controller is off the bus, and so it stays until the next open.  The
\* exception: a restart that ran while ctucan_close did, and may set both again.
ClosedIsQuiet ==
  netdev = "down" => /\ isr_pc = "idle" /\ restart_pc = "idle" /\ ~restart_due
                     /\ late \/ (~int_ena /\ ~mode_ena)

\* An awake queue on which no call is under way has a buffer for the next frame.
QueueHasRoom ==
  netdev = "up" /\ xmit_pc = "idle" /\ restart_pc = "idle" /\ ~queue_stopped => TXTNF

\* ctucan_start_xmit, the interrupt handler, a restart that runs alone and an open device
\* never leave the queue awake with all buffers taken, so two things only bring the
\* "BUG!, no TXB free when queue awake!" branch to life: ctucan_resume, which starts the
\* queue without looking at TXNF, and a restart that overlaps another path, after which
\* netif_wake_queue may meet buffers that ctucan_start_xmit has filled meanwhile.
OverfilledOnlyBy ==
  [][QueueHasRoom => QueueHasRoom' \/ Resume \/ disturbed']_<<vars, lvars, hvars>>

=============================================================================
