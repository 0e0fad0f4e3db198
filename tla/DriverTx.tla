------------------------------ MODULE DriverTx ------------------------------
(***************************************************************************)
(* The transmit path of the Linux driver (driver/ctucanfd_base.c): the    *)
(* frames a CAN socket hands over go round-robin into the TXT buffers,     *)
(* which the driver turns into one FIFO by rotating their priorities.      *)
(*                                                                         *)
(* Three actors interleave: ctucan_start_xmit (serialised by the network   *)
(* stack, so one instance), the interrupt handler ctucan_interrupt /       *)
(* ctucan_tx_interrupt on another CPU, and the controller.  One action is  *)
(* one register access, or a run of private statements, of an actor.       *)
(***************************************************************************)
EXTENDS Integers, FiniteSets

CONSTANTS
  N,        \* priv->ntxbufs, the number of TXT buffers (4 in both bus glues)
  M         \* number of values of the "unsigned int" txb_head and txb_tail

\* TX_PRIORITY has eight nibbles, the indices repeat evenly over the counter
\* range, and a full FIFO is still a positive signed difference.
ASSUME TxAssumption ==
  /\ N \in 1..8
  /\ M \in Nat
  /\ M % N = 0
  /\ M > 2 * N

Bufs  == 0..(N - 1)
Ids   == 0..(M - 1)
NoSkb == -1

VARIABLES
  txb_state,      \* TX_STATUS: state of every TXT buffer
  txb_frame,      \* frame held by the RAM of every TXT buffer
  txb_prio,       \* the eight nibbles of TX_PRIORITY, and of priv->txb_prio
  txbhci,         \* INT_STAT.TXBHCI
  bus,            \* on, off, or bus-off after reset until integration
  txb_head,       \* priv->txb_head
  txb_tail,       \* priv->txb_tail
  echo_skb,       \* priv->can.echo_skb
  queue_stopped,  \* state of the netdev transmit queue
  tx_lock,        \* priv->tx_lock: free or its holder
  xmit_pc,        \* next step of ctucan_start_xmit
  isr_pc,         \* next step of ctucan_tx_interrupt
  first,          \* local of ctucan_tx_interrupt
  some_buffers_processed,  \* local of ctucan_tx_interrupt
  txtb_id,        \* local of ctucan_tx_interrupt: the buffer being reaped
  next_id         \* history: number, modulo M, of the frame handed over next

hwvars  == <<txb_state, txb_frame, txb_prio, txbhci, bus>>
drvvars == <<txb_head, txb_tail, echo_skb, queue_stopped, tx_lock>>
xvars   == <<xmit_pc, next_id>>
ivars   == <<isr_pc, first, some_buffers_processed, txtb_id>>
vars    == <<hwvars, drvvars, xvars, ivars>>

TxtStates == {"ETY", "RDY", "TRAN", "TOK", "ERR"}
Finished  == {"TOK", "ERR"}

\* Counters stay below their width, and driver paths, buffers and queue have their types.
TypeOK ==
  /\ txb_state \in [Bufs -> TxtStates]
  /\ txb_frame \in [Bufs -> Ids \cup {NoSkb}]
  /\ txb_prio \in [0..7 -> 0..7]
  /\ txbhci \in BOOLEAN
  /\ bus \in {"integrating", "on", "off"}
  /\ txb_head \in Ids
  /\ txb_tail \in Ids
  /\ echo_skb \in [Bufs -> Ids \cup {NoSkb}]
  /\ queue_stopped \in BOOLEAN
  /\ tx_lock \in {"free", "xmit", "isr"}
  /\ xmit_pc \in {"idle", "busy", "insert", "echo", "ready", "check"}
  /\ isr_pc \in {"idle", "lock", "loop", "rotate", "empty", "clear", "wake"}
  /\ first \in BOOLEAN
  /\ some_buffers_processed \in BOOLEAN
  /\ txtb_id \in Bufs
  /\ next_id \in Ids

(***************************************************************************)
(* After ctucan_open: ctucan_reset and ctucan_chip_start left every buffer *)
(* empty, priority 7 - i in nibble i, and both FIFO counters at zero.      *)
(***************************************************************************)
Init ==
  /\ txb_state = [b \in Bufs |-> "ETY"]
  /\ txb_frame = [b \in Bufs |-> NoSkb]
  /\ txb_prio = [i \in 0..7 |-> 7 - i]
  /\ txbhci = FALSE
  /\ bus = "integrating"
  /\ txb_head = 0
  /\ txb_tail = 0
  /\ echo_skb = [b \in Bufs |-> NoSkb]
  /\ queue_stopped = FALSE
  /\ tx_lock = "free"
  /\ xmit_pc = "idle"
  /\ isr_pc = "idle"
  /\ first = FALSE
  /\ some_buffers_processed = FALSE
  /\ txtb_id = 0
  /\ next_id = 0

\* STATUS.TXNF: some TXT buffer is empty.
TXTNF == \E b \in Bufs : txb_state[b] = "ETY"

\* ctucan_is_txt_buf_writable
Writable(b) == txb_state[b] \notin {"RDY", "TRAN"}

\* txb_head++, txb_tail++ on an unsigned int
Inc(c)  == (c + 1) % M
HeadBuf == txb_head % N
TailBuf == txb_tail % N

\* (int)(priv->txb_head - priv->txb_tail) > 0
Diff    == (txb_head - txb_tail) % M
Pending == Diff > 0 /\ 2 * Diff < M

-----------------------------------------------------------------------------
(* ctucan_start_xmit                                                        *)

\* Entry, with the queue awake: the unlocked look at TXNF.
StartXmit ==
  /\ xmit_pc = "idle"
  /\ ~queue_stopped
  /\ xmit_pc' = IF TXTNF THEN "insert" ELSE "busy"
  /\ UNCHANGED <<hwvars, drvvars, ivars, next_id>>

\* ctucan_insert_frame into the buffer at txb_head; the frame is dropped when
\* that buffer is not writable.
InsertFrame ==
  /\ xmit_pc = "insert"
  /\ IF Writable(HeadBuf)
       THEN /\ txb_frame' = [txb_frame EXCEPT ![HeadBuf] = next_id]
            /\ xmit_pc' = "echo"
       ELSE /\ xmit_pc' = "idle"
            /\ UNCHANGED txb_frame
  /\ UNCHANGED <<txb_state, txb_prio, txbhci, bus, drvvars, ivars, next_id>>

\* Faulty variant: the echo skb goes to the slot of the oldest frame.
PutEchoSkbAtTail ==
  /\ xmit_pc = "echo"
  /\ echo_skb' = [echo_skb EXCEPT ![TailBuf] = next_id]
  /\ xmit_pc' = "ready"
  /\ UNCHANGED <<hwvars, txb_head, txb_tail, queue_stopped, tx_lock, ivars, next_id>>

\* can_put_echo_skb
PutEchoSkb ==
  /\ xmit_pc = "echo"
  /\ echo_skb' = [echo_skb EXCEPT ![HeadBuf] = next_id]
  /\ xmit_pc' = "ready"
  /\ UNCHANGED <<hwvars, txb_head, txb_tail, queue_stopped, tx_lock, ivars, next_id>>

\* Under tx_lock: TXT_CMD_SET_READY (effective in every state in which the
\* buffer is not already waiting or being sent) and txb_head++.
SetReady ==
  /\ xmit_pc = "ready"
  /\ tx_lock = "free"
  /\ tx_lock' = "xmit"
  /\ txb_state' = [txb_state EXCEPT ![HeadBuf] = IF Writable(HeadBuf) THEN "RDY" ELSE @]
  /\ txb_head' = Inc(txb_head)
  /\ next_id' = Inc(next_id)
  /\ xmit_pc' = "check"
  /\ UNCHANGED <<txb_frame, txb_prio, txbhci, bus, txb_tail, echo_skb,
                 queue_stopped, ivars>>

\* Faulty variant: the last free buffer is taken and the queue left awake.
CheckFullForgotten ==
  /\ xmit_pc \in {"check", "busy"}
  /\ queue_stopped' = (queue_stopped \/ xmit_pc = "busy")
  /\ tx_lock' = IF xmit_pc = "check" THEN "free" ELSE tx_lock
  /\ xmit_pc' = "idle"
  /\ UNCHANGED <<hwvars, txb_head, txb_tail, echo_skb, ivars, next_id>>

\* The end of the call.  Still under tx_lock: stop the queue when no buffer is left,
\* unlock.  Or, right after entry, "BUG!, no TXB free when queue awake!": stop the
\* queue and return NETDEV_TX_BUSY.
CheckFull ==
  /\ xmit_pc \in {"check", "busy"}
  /\ queue_stopped' = (queue_stopped \/ xmit_pc = "busy" \/ ~TXTNF)
  /\ tx_lock' = IF xmit_pc = "check" THEN "free" ELSE tx_lock
  /\ xmit_pc' = "idle"
  /\ UNCHANGED <<hwvars, txb_head, txb_tail, echo_skb, ivars, next_id>>

Xmit == StartXmit \/ InsertFrame \/ PutEchoSkb \/ SetReady \/ CheckFull

-----------------------------------------------------------------------------
(* ctucan_interrupt reading INT_STAT.TXBHCI, and ctucan_tx_interrupt        *)

Interrupt ==
  /\ isr_pc = "idle"
  /\ txbhci
  /\ first' = TRUE
  /\ isr_pc' = "lock"
  /\ UNCHANGED <<hwvars, drvvars, xvars, some_buffers_processed, txtb_id>>

\* spin_lock_irqsave at the head of the do-while loop
IsrLock ==
  /\ isr_pc = "lock"
  /\ tx_lock = "free"
  /\ tx_lock' = "isr"
  /\ some_buffers_processed' = FALSE
  /\ isr_pc' = "loop"
  /\ UNCHANGED <<hwvars, txb_head, txb_tail, echo_skb, queue_stopped, xvars, first, txtb_id>>

\* Faulty variant: the echo skb of a failed frame is not freed.
ReapTailKeepsEcho ==
  /\ isr_pc = "loop"
  /\ Pending
  /\ txb_state[TailBuf] \in Finished
  /\ echo_skb' = [echo_skb EXCEPT ![TailBuf] = IF txb_state[TailBuf] = "TOK" THEN NoSkb ELSE @]
  /\ txtb_id' = TailBuf
  /\ txb_tail' = Inc(txb_tail)
  /\ first' = FALSE
  /\ some_buffers_processed' = TRUE
  /\ isr_pc' = "rotate"
  /\ UNCHANGED <<hwvars, txb_head, queue_stopped, tx_lock, xvars>>

\* One round of the inner loop on a finished buffer: the echo skb is sent back
\* (TXT_TOK) or freed (TXT_ERR), the tail moves on.
ReapTail ==
  /\ isr_pc = "loop"
  /\ Pending
  /\ txb_state[TailBuf] \in Finished
  /\ echo_skb' = [echo_skb EXCEPT ![TailBuf] = NoSkb]
  /\ txtb_id' = TailBuf
  /\ txb_tail' = Inc(txb_tail)
  /\ first' = FALSE
  /\ some_buffers_processed' = TRUE
  /\ isr_pc' = "rotate"
  /\ UNCHANGED <<hwvars, txb_head, queue_stopped, tx_lock, xvars>>

\* Faulty variant: the priorities rotate the other way.
RotatePrioDown ==
  /\ isr_pc = "rotate"
  /\ txb_prio' = [i \in 0..7 |-> IF i < N THEN txb_prio[(i + 1) % N] ELSE txb_prio[i]]
  /\ isr_pc' = "empty"
  /\ UNCHANGED <<txb_state, txb_frame, txbhci, bus, drvvars, xvars, first,
                 some_buffers_processed, txtb_id>>

\* ctucan_rotate_txb_prio
RotatePrio ==
  /\ isr_pc = "rotate"
  /\ txb_prio' = [i \in 0..7 |-> IF i = 0 THEN txb_prio[N - 1] ELSE txb_prio[i - 1]]
  /\ isr_pc' = "empty"
  /\ UNCHANGED <<txb_state, txb_frame, txbhci, bus, drvvars, xvars, first,
                 some_buffers_processed, txtb_id>>

\* TXT_CMD_SET_EMPTY for the buffer just reaped (effective when finished)
SetEmpty ==
  /\ isr_pc = "empty"
  /\ txb_state' = [txb_state EXCEPT ![txtb_id] = IF @ \in Finished THEN "ETY" ELSE @]
  /\ isr_pc' = "loop"
  /\ UNCHANGED <<txb_frame, txb_prio, txbhci, bus, drvvars, xvars, first,
                 some_buffers_processed, txtb_id>>

\* The inner loop ends: the FIFO is empty, or its tail is unfinished.  An
\* unfinished tail at the very first look is "BUG: TXB#%u not in a finished
\* state", which returns without clearing the interrupt or waking the queue.
LoopEnd ==
  /\ isr_pc = "loop"
  /\ ~(Pending /\ txb_state[TailBuf] \in Finished)
  /\ tx_lock' = "free"
  /\ isr_pc' = IF Pending /\ first THEN "idle" ELSE "clear"
  /\ UNCHANGED <<hwvars, txb_head, txb_tail, echo_skb, queue_stopped, xvars, first,
                 some_buffers_processed, txtb_id>>

\* After the inner loop: clear TXBHCI and go round again if buffers were
\* processed, leave the do-while loop if not.
ClearTxbhci ==
  /\ isr_pc = "clear"
  /\ txbhci' = (txbhci /\ ~some_buffers_processed)
  /\ isr_pc' = IF some_buffers_processed THEN "lock" ELSE "wake"
  /\ UNCHANGED <<txb_state, txb_frame, txb_prio, bus, drvvars, xvars, first,
                 some_buffers_processed, txtb_id>>

\* Faulty variant: the queue is woken only if the last round reaped a buffer.
WakeQueueIfProcessed ==
  /\ isr_pc = "wake"
  /\ tx_lock = "free"
  /\ queue_stopped' = (queue_stopped /\ ~some_buffers_processed)
  /\ isr_pc' = "idle"
  /\ UNCHANGED <<hwvars, txb_head, txb_tail, echo_skb, tx_lock, xvars, first,
                 some_buffers_processed, txtb_id>>

\* Under tx_lock: wake the queue if a buffer is free.
WakeQueue ==
  /\ isr_pc = "wake"
  /\ tx_lock = "free"
  /\ queue_stopped' = (queue_stopped /\ ~TXTNF)
  /\ isr_pc' = "idle"
  /\ UNCHANGED <<hwvars, txb_head, txb_tail, echo_skb, tx_lock, xvars, first,
                 some_buffers_processed, txtb_id>>

Isr == \/ Interrupt \/ IsrLock \/ ReapTail \/ RotatePrio \/ SetEmpty
       \/ LoopEnd \/ ClearTxbhci \/ WakeQueue

-----------------------------------------------------------------------------
(* The controller, as far as the TXT buffers show it to the driver          *)

\* The TX arbitrator's choice: the ready buffer of highest priority, the lowest
\* index among equals.
Selected(b) ==
  /\ txb_state[b] = "RDY"
  /\ \A c \in Bufs : txb_state[c] = "RDY" =>
        txb_prio[c] < txb_prio[b] \/ (txb_prio[c] = txb_prio[b] /\ b <= c)

HwLock(b) ==
  /\ bus = "on"
  /\ \A c \in Bufs : txb_state[c] # "TRAN"
  /\ Selected(b)
  /\ txb_state' = [txb_state EXCEPT ![b] = "TRAN"]
  /\ UNCHANGED <<txb_frame, txb_prio, txbhci, bus, drvvars, xvars, ivars>>

\* Lost arbitration or an error, retransmission still allowed
HwRetry(b) ==
  /\ txb_state[b] = "TRAN"
  /\ txb_state' = [txb_state EXCEPT ![b] = "RDY"]
  /\ UNCHANGED <<txb_frame, txb_prio, txbhci, bus, drvvars, xvars, ivars>>

\* Sent, or retransmission limit reached
HwFinish(b, st) ==
  /\ txb_state[b] = "TRAN"
  /\ txb_state' = [txb_state EXCEPT ![b] = st]
  /\ txbhci' = TRUE
  /\ UNCHANGED <<txb_frame, txb_prio, bus, drvvars, xvars, ivars>>

\* fault_confinement_fsm: bus-off after too many errors, and after reset until
\* the controller has integrated into the bus.
HwBusOff ==
  /\ bus = "on"
  /\ bus' = "off"
  /\ UNCHANGED <<txb_state, txb_frame, txb_prio, txbhci, drvvars, xvars, ivars>>

HwIntegrated ==
  /\ bus = "integrating"
  /\ bus' = "on"
  /\ UNCHANGED <<txb_state, txb_frame, txb_prio, txbhci, drvvars, xvars, ivars>>

\* go_to_failed of txt_buffer_fsm: while bus-off every buffer that waits or is
\* being sent fails, all in one clock cycle.
HwFail ==
  /\ bus # "on"
  /\ \E b \in Bufs : txb_state[b] \in {"RDY", "TRAN"}
  /\ txb_state' = [b \in Bufs |-> IF txb_state[b] \in {"RDY", "TRAN"}
                                  THEN "ERR" ELSE txb_state[b]]
  /\ txbhci' = TRUE
  /\ UNCHANGED <<txb_frame, txb_prio, bus, drvvars, xvars, ivars>>

Hw == \/ \E b \in Bufs : HwLock(b) \/ HwRetry(b) \/ (\E st \in Finished : HwFinish(b, st))
      \/ HwBusOff \/ HwIntegrated \/ HwFail

-----------------------------------------------------------------------------
Next == Xmit \/ Isr \/ Hw

Spec == Init /\ [][Next]_vars

(***************************************************************************)
(* Both driver paths run to completion; the arbitrator locks a ready       *)
(* buffer; a bus-off controller fails what it holds; and a frame is not    *)
(* retried for ever (the bus acknowledges it, or the limit is reached).    *)
(***************************************************************************)
Fairness ==
  /\ WF_vars(xmit_pc # "idle" /\ Xmit)
  /\ SF_vars(SetReady)
  /\ WF_vars(Isr)
  /\ SF_vars(IsrLock)
  /\ SF_vars(WakeQueue)
  /\ WF_vars(\E b \in Bufs : HwLock(b))
  /\ SF_vars(\E b \in Bufs, st \in Finished : HwFinish(b, st))
  /\ WF_vars(HwFail)

FairSpec == Spec /\ Fairness

-----------------------------------------------------------------------------
(* Properties                                                               *)

\* Position of buffer b in the FIFO that starts at the tail
Dist(b)     == IF b >= TailBuf THEN b - TailBuf ELSE b - TailBuf + N
InFlight(b) == Dist(b) < Diff

\* The "BUG!, no TXB free when queue awake!" branch of ctucan_start_xmit is dead:
\* whatever the interrupt handler does between two calls, an awake queue means
\* that TXNF is set.
AwakeMeansRoom == xmit_pc # "busy"

\* While ctucan_start_xmit fills the buffer at txb_head without holding tx_lock,
\* that buffer is empty (so the "TXNF set but cannot insert" branch is dead, and no
\* finished but unreaped frame is overwritten) and its echo slot is unused.
SlotFree ==
  /\ xmit_pc \in {"insert", "echo", "ready"} => txb_state[HeadBuf] = "ETY"
  /\ xmit_pc \in {"insert", "echo"} => echo_skb[HeadBuf] = NoSkb

\* The "BUG: TXB#%u not in a finished state" branch of ctucan_tx_interrupt is dead:
\* TXBHCI is never left set for a buffer that was already reaped, and the buffer
\* that raised it is never behind an unfinished one.
TailFinished == isr_pc = "loop" /\ first /\ Pending => txb_state[TailBuf] \in Finished

\* The rotated priorities make the TXT buffers a FIFO: no buffer is being sent, or
\* has finished, before every buffer that was set ready earlier has finished.
FifoOrder ==
  \A b, c \in Bufs :
    /\ InFlight(b) /\ InFlight(c) /\ Dist(b) < Dist(c)
    /\ txb_state[c] \in {"TRAN"} \cup Finished
    => txb_state[b] \in Finished

\* The FIFO the network stack sees: the echo skbs and completion states of the
\* buffers from txb_tail up to txb_head.
Status(state) ==
  IF state = "TOK" THEN "ok" ELSE IF state = "ERR" THEN "failed" ELSE "wait"

FifoEntry(b) == [id |-> echo_skb[b], st |-> Status(txb_state[b])]

Slot(k) == (TailBuf + k - 1) % N

FifoView == [k \in 1..Diff |-> FifoEntry(Slot(k))]

Fifo == INSTANCE TxFifo WITH fifo <- FifoView

\* The TXT buffers, the two counters, the priority rotation and the echo skbs
\* together implement one bounded FIFO of frames.
ImplementsFifo == Fifo!Spec

\* Transmission goes on.  A stopped queue is woken again: no wake-up is lost between
\* the TXNF check of ctucan_start_xmit and the one at the end of ctucan_tx_interrupt.
\* Every frame set ready is eventually reaped and its buffer emptied: no completion
\* is lost between clearing TXBHCI and looking at the buffers again.
FramesComplete ==
  /\ queue_stopped ~> ~queue_stopped
  /\ \A b \in Bufs : txb_state[b] = "RDY" ~> txb_state[b] = "ETY"

-----------------------------------------------------------------------------
(* The inductive invariant behind the safety properties                     *)

Reaping == isr_pc \in {"rotate", "empty"}

\* The counters delimit the occupied buffers: exactly those from the tail up to the
\* head are not empty, but for the one that is being reaped.
RingInv ==
  /\ Diff <= N
  /\ HeadBuf = IF TailBuf + Diff < N THEN TailBuf + Diff ELSE TailBuf + Diff - N
  /\ Reaping => /\ Diff < N
                /\ Dist(txtb_id) = N - 1
                /\ txb_state[txtb_id] \in Finished
  /\ \A b \in Bufs : txb_state[b] = "ETY" <=> ~InFlight(b) /\ ~(Reaping /\ b = txtb_id)

\* The priorities fall along the FIFO; until the rotation they lag behind the tail.
PrioInv ==
  \A b \in Bufs :
    txb_prio[b] = IF isr_pc # "rotate" THEN 7 - Dist(b)
                  ELSE IF Dist(b) = N - 1 THEN 7 ELSE 6 - Dist(b)

LockInv ==
  /\ tx_lock = "xmit" <=> xmit_pc = "check"
  /\ tx_lock = "isr" <=> isr_pc \in {"loop", "rotate", "empty"}

\* The buffer at the head is free while ctucan_start_xmit fills it, and an echo skb
\* belongs to a frame in flight or about to be.
SlotInv ==
  /\ xmit_pc \in {"insert", "echo", "ready"} => txb_state[HeadBuf] = "ETY"
  /\ xmit_pc = "ready" => echo_skb[HeadBuf] = next_id
  /\ \A b \in Bufs : echo_skb[b] # NoSkb => InFlight(b) \/ (xmit_pc = "ready" /\ b = HeadBuf)

\* An awake queue has room for the next call of ctucan_start_xmit.
QueueInv ==
  /\ AwakeMeansRoom
  /\ xmit_pc = "idle" /\ ~queue_stopped => TXTNF

\* A pending TXBHCI, unless it belongs to buffers reaped in this round, means that
\* the tail has finished; so does the first look at it.
IntInv ==
  /\ \/ isr_pc \in {"idle", "lock", "wake"}
     \/ isr_pc \in {"loop", "clear"} /\ ~some_buffers_processed
     => (txbhci => Diff > 0 /\ txb_state[TailBuf] \in Finished)
  /\ isr_pc \in {"lock", "loop"} /\ first => Diff > 0 /\ txb_state[TailBuf] \in Finished
  /\ Reaping => some_buffers_processed
  /\ isr_pc \in {"loop", "rotate", "empty", "clear"} /\ some_buffers_processed => ~first

\* The part that does not depend on when the queue was started
CoreInv == TypeOK /\ RingInv /\ PrioInv /\ LockInv /\ SlotInv /\ IntInv /\ FifoOrder

IInv == CoreInv /\ QueueInv

=============================================================================
