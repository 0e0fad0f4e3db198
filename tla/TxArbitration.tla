--------------------------- MODULE TxArbitration ---------------------------
(***************************************************************************)
(* The transmit path of the core from the TXT buffers to the protocol      *)
(* control: the TX arbitrator (tx_arbitrator.vhd, tx_arbitrator_fsm.vhd)   *)
(* selects the best available buffer, reads its metadata word by word into *)
(* double buffer registers, commits them, and so "validates" the buffer;   *)
(* the protocol control locks a validated buffer for a transmission and    *)
(* unlocks it with the outcome.                                            *)
(*                                                                         *)
(* One step is one clock cycle: all registers are updated at once from the *)
(* values before the edge and the inputs of the cycle.  The inputs are the *)
(* software access, whether the timestamp of the selected frame has        *)
(* elapsed, whether the word on the RAM output has a parity error, and     *)
(* what happens on the bus.  Of the protocol control only the phases that  *)
(* issue TXT buffer commands are kept, and of a frame only its identity.   *)
(***************************************************************************)
EXTENDS TxtBuffers

CONSTANTS
    Modes,      \* the configurations of the core: records of MODE[TTTM],
                \* MODE[TXBBM] and SETTINGS[TBFBO]
    MetaParity, \* do parity errors also hit metadata words?
    Cleared     \* the content of the metadata registers after reset

ASSUME TxArbitrationAssumption ==
    /\ Modes \subseteq [tttm : BOOLEAN, txbbm : BOOLEAN, tbfbo : BOOLEAN]
    /\ MetaParity \in BOOLEAN

VARIABLES
    arb_state,              \* curr_state of the TX arbitrator FSM
    fsm_wait_state_q,       \* the state lasts one more cycle
    tran_frame_valid_com,   \* a validated frame is committed
    curr_txtb_index,        \* curr_txtb_index_i: the buffer it came from
    select_buf_index_reg,   \* select_buf_index one cycle ago
    dbl_buf,                \* frame whose format word was double buffered
    com,                    \* committed metadata: format word, identifier
    txtb_hw_cmd_q,          \* registered command of the protocol control
    pc,                     \* phase of the protocol control
    bus_off,                \* is_bus_off
    mode,                   \* the configuration
    stable                  \* history: for how many cycles the selection and
                            \* nothing else has occupied the arbitrator

arbVars == <<arb_state, fsm_wait_state_q, tran_frame_valid_com, curr_txtb_index,
             select_buf_index_reg, dbl_buf, com>>

vars == <<bufVars, arbVars, txtb_hw_cmd_q, pc, bus_off, mode, stable>>

D == INSTANCE PriorityDecoder

Selecting == {"sel_low_ts", "sel_upp_ts", "sel_ftw", "sel_ffw", "sel_idw"}

ArbStates == {"idle", "validated", "locked"} \cup Selecting

\* What the double buffer and the committed registers can hold.
Metadata == Frames \cup {Cleared}

\* Phases: nothing to do with TXT buffers, transmitting, a parity error of a
\* data word on its way to an error frame, error frame.
PcPhases == {"idle", "tx", "parity", "err"}

-----------------------------------------------------------------------------
(* Combinational signals of the TX arbitrator.                             *)

\* mr_tx_priority_txbbm: a backup buffer has the priority of its original.
Priority(b) == IF mode.txbbm /\ b % 2 = 1 THEN prio[b - 1] ELSE prio[b]

\* select_buf_avail and select_buf_index: the priority decoder, its inputs
\* filled up to eight buffers.
Selection(sw) ==
    LET w == D!Winner([i \in D!Leaves |-> i \in Bufs /\ Available(sw, mode.txbbm, i)],
                      [i \in D!Leaves |-> IF i \in Bufs THEN Priority(i) ELSE 0])
    IN  [avail |-> w.valid, index |-> w.index % NB]

\* Faulty variant: validation is not restarted when another buffer is selected.
SelectIndexChangedNever(sel) == FALSE

SelectIndexChanged(sel) == sel.index /= select_buf_index_reg

TranFrameValid(sw) ==
    \/ tran_frame_valid_com /\ Available(sw, mode.txbbm, curr_txtb_index)
    \/ arb_state = "locked"

\* The state in which the next word is read.
NextWord == [sel_low_ts |-> "sel_upp_ts", sel_upp_ts |-> "sel_ftw",
             sel_ftw |-> "sel_ffw", sel_ffw |-> "sel_idw",
             sel_idw |-> "validated"]

\* parity_error_vld: not looked at while the frame test word is read.
ParityErrorVld(bad) ==
    bad /\ ~fsm_wait_state_q /\ arb_state \in Selecting \ {"sel_ftw"}

\* txtb_parity_error_valid of each buffer.
ParityErrors(sel, bad) ==
    CASE arb_state = "locked" ->
            IF bad THEN {curr_txtb_index} ELSE {}
      [] arb_state /= "locked" ->
            IF /\ ParityErrorVld(bad) /\ txtb_hw_cmd_q /= "lock"
               /\ sel.avail /\ ~SelectIndexChanged(sel)
            THEN {sel.index} ELSE {}

-----------------------------------------------------------------------------
(* One cycle of the TX arbitrator.                                         *)

Goto(state, wait) == arb_state' = state /\ fsm_wait_state_q' = wait

Keep(v) == v' = v

KeepCommitted == Keep(com) /\ Keep(curr_txtb_index)

KeepMetadata == Keep(dbl_buf) /\ KeepCommitted

ArbIdle(sel) ==
    /\ arb_state = "idle"
    /\ IF sel.avail THEN Goto("sel_low_ts", TRUE) ELSE Goto("idle", FALSE)
    /\ Keep(tran_frame_valid_com) /\ KeepMetadata

ArbLock ==
    /\ arb_state \in Selecting \cup {"validated"}
    /\ txtb_hw_cmd_q = "lock"
    /\ Goto("locked", FALSE)
    /\ Keep(tran_frame_valid_com) /\ KeepMetadata

\* No buffer is available any more.
ArbNoBuffer(sel) ==
    /\ arb_state \in Selecting \cup {"validated"}
    /\ txtb_hw_cmd_q /= "lock"
    /\ ~sel.avail
    /\ Goto("idle", FALSE)
    /\ tran_frame_valid_com' = FALSE
    /\ KeepMetadata

\* Another buffer is now the best one: start over with its first word.  A
\* parity error of the word being read sends the FSM to idle all the same.
ArbReselect(sel, bad) ==
    /\ arb_state \in Selecting \cup {"validated"}
    /\ txtb_hw_cmd_q /= "lock"
    /\ sel.avail /\ SelectIndexChanged(sel)
    /\ Goto(IF ParityErrorVld(bad) THEN "idle" ELSE "sel_low_ts", TRUE)
    /\ Keep(tran_frame_valid_com) /\ KeepMetadata

\* Faulty variant: the wait state does not end.
ArbHoldKeepsWait(sel) ==
    /\ txtb_hw_cmd_q /= "lock"
    /\ sel.avail /\ ~SelectIndexChanged(sel)
    /\ arb_state = "validated" \/ (arb_state \in Selecting /\ fsm_wait_state_q)
    /\ Goto(arb_state, fsm_wait_state_q)
    /\ Keep(tran_frame_valid_com) /\ KeepMetadata

\* The selected buffer stays the same.
ArbHold(sel) ==
    /\ txtb_hw_cmd_q /= "lock"
    /\ sel.avail /\ ~SelectIndexChanged(sel)
    /\ arb_state = "validated" \/ (arb_state \in Selecting /\ fsm_wait_state_q)
    /\ Goto(arb_state, FALSE)
    /\ Keep(tran_frame_valid_com) /\ KeepMetadata

ArbRead(sel, bad, elapsed) ==
    /\ arb_state \in Selecting /\ ~fsm_wait_state_q
    /\ txtb_hw_cmd_q /= "lock"
    /\ sel.avail /\ ~SelectIndexChanged(sel)
    /\ IF arb_state = "sel_upp_ts" /\ ~elapsed
       THEN Goto(IF ParityErrorVld(bad) THEN "idle" ELSE "sel_upp_ts", FALSE)
       ELSE Goto(IF ParityErrorVld(bad) THEN "idle" ELSE NextWord[arb_state],
                 arb_state /= "sel_idw")
    /\ dbl_buf' = IF arb_state = "sel_ffw" THEN ram[sel.index] ELSE dbl_buf
    /\ IF arb_state = "sel_idw" /\ ~ParityErrorVld(bad)
       THEN /\ com' = [ffw |-> dbl_buf, idw |-> ram[sel.index]]
            /\ curr_txtb_index' = sel.index
            /\ tran_frame_valid_com' = TRUE
       ELSE KeepCommitted /\ Keep(tran_frame_valid_com)

\* Faulty variant: the arbitrator misses that a transmission has failed for good.
ArbLockedMissesFailed ==
    /\ arb_state = "locked"
    /\ IF txtb_hw_cmd_q \in Unlocks \ {"failed"}
       THEN Goto("idle", FALSE) /\ tran_frame_valid_com' = FALSE
       ELSE Goto("locked", FALSE) /\ Keep(tran_frame_valid_com)
    /\ KeepMetadata

ArbLocked ==
    /\ arb_state = "locked"
    /\ IF txtb_hw_cmd_q \in Unlocks
       THEN Goto("idle", FALSE) /\ tran_frame_valid_com' = FALSE
       ELSE Goto("locked", FALSE) /\ Keep(tran_frame_valid_com)
    /\ KeepMetadata

ArbiterTick(sel, bad, elapsed) ==
    /\ \/ ArbIdle(sel)
       \/ ArbLock
       \/ ArbNoBuffer(sel)
       \/ ArbReselect(sel, bad)
       \/ ArbHold(sel)
       \/ ArbRead(sel, bad, elapsed)
       \/ ArbLocked
    /\ select_buf_index_reg' = sel.index

-----------------------------------------------------------------------------
(* One cycle of the protocol control: the command it registers.  Lock and  *)
(* unlock are at least a bit time apart, so a command has taken effect     *)
(* before the next one is issued.                                          *)

Issue(cmd, phase) == txtb_hw_cmd_q' = cmd /\ pc' = phase

\* No sample point that matters to the TXT buffers.
PcNothing(bad) ==
    /\ pc /= "parity"
    /\ ~(pc = "tx" /\ arb_state = "locked" /\ bad)
    /\ Issue("none", pc)
    /\ Keep(bus_off)

\* s_pc_idle, s_pc_intermission, s_pc_suspend: a frame is there to transmit.
PcLock(sw) ==
    /\ pc = "idle" /\ txtb_hw_cmd_q = "none"
    /\ ~bus_off
    /\ TranFrameValid(sw)
    /\ Issue("lock", "tx")
    /\ Keep(bus_off)

\* End of frame, or arbitration lost (with or without attempts left).
PcFinish(bad) ==
    /\ pc = "tx" /\ txtb_hw_cmd_q = "none" /\ ~bad
    /\ \E cmd \in {"valid", "arbl", "failed"} : Issue(cmd, "idle")
    /\ Keep(bus_off)

\* Error frame request, with or without attempts left.
PcError ==
    /\ pc = "parity" \/ (pc = "tx" /\ txtb_hw_cmd_q = "none")
    /\ \E cmd \in {"err", "failed"} : Issue(cmd, "err")
    /\ Keep(bus_off)

\* tran_frame_parity_error: the error frame request follows one cycle later.
PcParity(bad) ==
    /\ pc = "tx" /\ arb_state = "locked" /\ bad
    /\ Issue("none", "parity")
    /\ Keep(bus_off)

\* The error frame ends; the error counters may have passed 255 meanwhile.
PcErrorEnd ==
    /\ pc = "err" /\ txtb_hw_cmd_q = "none"
    /\ Issue("none", "idle")
    /\ bus_off' \in BOOLEAN

\* set_err_active: the node has reintegrated.
PcReintegrate ==
    /\ bus_off /\ pc = "idle"
    /\ Issue("none", "idle")
    /\ bus_off' = FALSE

ProtocolTick(sw, bad) ==
    \/ PcNothing(bad)
    \/ PcLock(sw)
    \/ PcFinish(bad)
    \/ PcError
    \/ PcParity(bad)
    \/ PcErrorEnd
    \/ PcReintegrate

-----------------------------------------------------------------------------
(* The words a parity error can hit: data words always, metadata words     *)
(* only when MetaParity.                                                   *)
BadWord == IF arb_state = "locked" THEN pc = "tx" ELSE MetaParity

\* One cycle in idle and two for each of the five words.
ValidationTime == 11

Undisturbed(sel, elapsed) ==
    /\ arb_state /= "locked" /\ txtb_hw_cmd_q /= "lock"
    /\ sel.avail /\ ~SelectIndexChanged(sel)
    /\ elapsed

Tick ==
    \E sw \in SwInputs, bad \in BOOLEAN, elapsed \in BOOLEAN :
        LET sel == Selection(sw) IN
        /\ bad => BadWord
        /\ elapsed \/ (mode.tttm /\ arb_state = "sel_upp_ts")
        /\ BuffersTick(sw, txtb_hw_cmd_q, curr_txtb_index, ParityErrors(sel, bad),
                       mode.txbbm, mode.tbfbo, bus_off)
        /\ ArbiterTick(sel, bad, elapsed)
        /\ ProtocolTick(sw, bad)
        /\ Keep(mode)
        /\ stable' = IF Undisturbed(sel, elapsed) /\ arb_state' /= "idle"
                     THEN IF stable < ValidationTime THEN stable + 1 ELSE stable
                     ELSE 0

Init ==
    /\ BuffersInit
    /\ arb_state = "idle" /\ fsm_wait_state_q = TRUE
    /\ tran_frame_valid_com = FALSE
    /\ curr_txtb_index = 0 /\ select_buf_index_reg = 0
    /\ dbl_buf = Cleared
    /\ com = [ffw |-> dbl_buf, idw |-> dbl_buf]
    /\ txtb_hw_cmd_q = "none" /\ pc = "idle" /\ bus_off = FALSE
    /\ stable = 0
    /\ mode \in Modes

Spec == Init /\ [][Tick]_vars

-----------------------------------------------------------------------------
(* Properties.                                                             *)

\* All registers hold values of their types.
ATypeOK ==
    /\ txtb_state \in [Bufs -> TxtStates]
    /\ ram \in [Bufs -> Frames] /\ prio \in [Bufs -> Prios]
    /\ arb_state \in ArbStates
    /\ {curr_txtb_index, select_buf_index_reg} \subseteq Bufs
    /\ {fsm_wait_state_q, tran_frame_valid_com, bus_off} \subseteq BOOLEAN
    /\ dbl_buf \in Metadata /\ com \in [ffw : Metadata, idw : Metadata]
    /\ txtb_hw_cmd_q \in HwCmds /\ pc \in PcPhases /\ mode \in Modes
    /\ stable \in 0 .. ValidationTime

\* The lock command is decided one cycle before it arrives.  Whatever software
\* and the arbitrator do in between, it finds the committed buffer ready and
\* the arbitrator neither idle nor locked already
\* (txtb_lock_only_in_rdy_asrt, tx_arb_no_lock_when_idle_asrt,
\* tx_arb_no_lock_when_locked_asrt).
LockIsTaken ==
    txtb_hw_cmd_q = "lock" =>
        /\ txtb_state[curr_txtb_index] = "ready"
        /\ arb_state \in Selecting \cup {"validated"}

\* Protocol control, arbitrator and buffers agree on what is being
\* transmitted: while the protocol control transmits, the committed buffer is
\* held by it and no software command can take it away; no other buffer is in
\* progress; and the arbitrator is locked for no longer than that.
OneTransmission ==
    /\ pc = "tx" /\ arb_state = "locked" => txtb_state[curr_txtb_index] \in InProgress
    /\ \A b \in Bufs : txtb_state[b] \in InProgress =>
          b = curr_txtb_index /\ arb_state = "locked"
    /\ arb_state = "locked" => pc \in {"tx", "parity"} \/ txtb_hw_cmd_q \in Unlocks

\* The identifier and the format word offered to the protocol control are of
\* one and the same frame, however often the selection changed while they were
\* being read.  When the arbitrator has settled, it offers the selected buffer and
\* the frame that is in the buffer's RAM.
ValidatedIsSelected ==
    /\ ATypeOK
    /\ tran_frame_valid_com => com.ffw = com.idw
    /\ arb_state = "validated" =>
        /\ tran_frame_valid_com
        /\ curr_txtb_index = select_buf_index_reg
        /\ txtb_state[curr_txtb_index] = "ready" => com.idw = ram[curr_txtb_index]

\* A buffer that stays selected, with its timestamp elapsed, is validated after
\* at most one cycle in idle and two per word read: neither restarts of the
\* selection nor unlocks nor wait states leave the arbitrator behind.
ValidatedInTime ==
    stable = ValidationTime =>
        arb_state = "validated" /\ curr_txtb_index = select_buf_index_reg

\* The metadata used for a transmission are those of the frame in the buffer
\* that is transmitted.
TransmitsWhatIsInTheBuffer ==
    pc = "tx" /\ arb_state = "locked" =>
        com = [ffw |-> ram[curr_txtb_index], idw |-> ram[curr_txtb_index]]

\* A hardware command that ends a transmission for good, in state ok, failed or
\* aborted, raises the TXT buffer interrupt (TXBHCI), whatever command of the software
\* meets it in the same cycle; the one exception is an abort that meets the error or
\* the arbitration loss itself, which the buffer takes without passing ab_prog.
FinishInterrupts ==
    [][\A b \in Bufs :
          /\ txtb_hw_cmd_q \in Unlocks
          /\ txtb_state[b] \in InProgress
          /\ txtb_state'[b] \in {"ok", "failed", "aborted"}
          => \/ HwCmdInt(b, HwCmd(b, txtb_hw_cmd_q, curr_txtb_index),
                         txtb_state'[b], bus_off)
             \/ /\ txtb_state[b] = "tx_prog" /\ txtb_state'[b] = "aborted"
                /\ txtb_hw_cmd_q \in {"err", "arbl"} /\ b = curr_txtb_index]_vars
=============================================================================
