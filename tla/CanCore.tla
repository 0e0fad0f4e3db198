------------------------------ MODULE CanCore ------------------------------
(***************************************************************************)
(* The control of the CAN core: protocol control FSM, operation control,   *)
(* fault confinement, retransmission and reintegration counters            *)
(* (protocol_control_fsm.vhd, operation_control.vhd, err_detector.vhd,     *)
(* retransmitt_counter.vhd, reintegration_counter.vhd), bit by bit.        *)
(*                                                                         *)
(* A bit has two clock cycles in which state changes.  In the sample point *)
(* ("process", an rx_trigger) the FSM looks at the sampled bit and moves;  *)
(* errors are counted.  In the cycle after it ("next") a registered error  *)
(* request starts an error frame, a registered command reaches the TXT     *)
(* buffers, and fault confinement looks at the new counters.  The cycles   *)
(* until the following sample point only let fault confinement settle.     *)
(*                                                                         *)
(* The fields with frame contents are two states: "arbitration" (base_id   *)
(* to rtr_r1) and "body" (edl to crc), of any length up to a bound, with   *)
(* any bits.                                                               *)
(* The other nodes are the sampled bit, which may be anything.  ACF, SAM   *)
(* and STM are off.  Resetting the core (SETTINGS[ENA] = 0) is Init.       *)
(***************************************************************************)
EXTENDS FaultConfinement

CONSTANTS
    Modes,            \* the configurations, see ModesAssumption
    IntegrationDuration, ErrFlgDuration, DelimWaitDuration, ErrDelimDuration,
    OvrFlgDuration, OvrDelimDuration, EofDuration, IntermissionDuration,
    SuspendDuration, DominantRepeatDuration,
                      \* can_constants_pkg.vhd: bits of the field minus one
    ArbitrationMax, BodyMax, \* bits minus one of the longest such fields
    ReintegLimit,     \* value at which the reintegration counter expires (128)
    RetrMod,          \* the retransmission counter has log2 RetrMod bits (16)
    RetrTh            \* SETTINGS[RTRTH]

Durations == {IntegrationDuration, ErrFlgDuration, DelimWaitDuration,
              ErrDelimDuration, OvrFlgDuration, OvrDelimDuration, EofDuration,
              IntermissionDuration, SuspendDuration, DominantRepeatDuration,
              ArbitrationMax, BodyMax}

\* rom: MODE[ROM].  rtrle: SETTINGS[RTRLE].  edge: the node is CAN FD enabled
\* or tolerant, so that an edge restarts an integration at once.
ASSUME CanCoreAssumption ==
    /\ Durations \subseteq Nat \ {0} /\ ReintegLimit \in Nat
    /\ RetrMod \in Nat \ {0} /\ RetrTh \in 0 .. RetrMod - 1
    /\ Modes \subseteq [rom : BOOLEAN, rtrle : BOOLEAN, edge : BOOLEAN]

VARIABLES
    mode,
    stage,           \* "process" or "next"
    st, ctrl_ctr,    \* protocol control FSM and its counter
    op, fc, tec, rec,
    err_frm_req,     \* registered error frame request
    cmd,             \* registered command to the TXT buffers
    retr_ctr, retr_ctr_add_block,
    reinteg_ctr, ercrst,
    first_err_delim, ack_err_flag, rx_prev, crc_match

\* What happened, for the properties only.
VARIABLES
    attempts,        \* consecutive transmissions of the frame sent last; 0 when
                     \* retr_ctr does not count them, see Miscounted
    pending,         \* that frame has neither succeeded nor failed
    lonely,          \* every sampled bit was the one this node sent
    run, sequences   \* recessive bits in a row; completed runs in this integration

regs == <<mode, stage, st, ctrl_ctr, op, fc, tec, rec, err_frm_req, cmd, retr_ctr,
          retr_ctr_add_block, reinteg_ctr, ercrst, first_err_delim, ack_err_flag,
          rx_prev, crc_match>>
hist == <<attempts, pending, lonely, run, sequences>>
vars == <<regs, hist>>

Bits == {"r", "d"}

FrameStates == {"sof", "arbitration", "body", "crc_delim", "ack", "ack_fd_1",
                "ack_fd_2", "ack_delim", "eof"}
ErrorStates == {"act_err_flag", "pas_err_flag", "err_delim_wait", "err_flag_too_long",
                "err_delim"}
OverloadStates == {"ovr_flag", "ovr_delim_wait", "ovr_flag_too_long", "ovr_delim"}
States == {"off", "integrating", "intermission", "suspend", "idle",
           "reintegrating_wait", "reintegrating"}
          \cup FrameStates \cup ErrorStates \cup OverloadStates

Unlocks == {"valid", "arbl", "err", "failed"}

\* What the node drives in this bit, where that does not depend on frame contents.
TxDominantAck == crc_match /\ op = "receiver"

TxDominant ==
    \/ st \in {"sof", "act_err_flag", "ovr_flag"}
    \/ st \in {"ack", "ack_fd_1"} /\ TxDominantAck

TxBits ==
    IF TxDominant THEN {"d"}
    ELSE IF st \in {"arbitration", "body"} /\ op = "transmitter" THEN Bits ELSE {"r"}

GoToSuspend == fc = "passive" /\ op = "transmitter"

TxFailed == mode.rtrle /\ retr_ctr = RetrTh

-----------------------------------------------------------------------------
(* Signals of a sample point, with the defaults of curr_state_proc.  load  *)
(* is the value ctrl_ctr takes.  set is set_idle, set_transmitter or       *)
(* set_receiver.  txtb is how the frame that is locked relates to the last *)
(* one: "again" the same frame, "new" a new frame in the same buffer       *)
(* (software aborted or refilled it), "other" a frame of another buffer.   *)

Quiet == [next |-> st, load |-> ctrl_ctr, set |-> "none", set_err_active |-> FALSE,
          err_detected |-> FALSE, ack_err |-> FALSE, err_ctrs_unchanged |-> FALSE,
          primary_err |-> FALSE, err_delim_late |-> FALSE,
          bit_err_after_ack_err |-> FALSE, decrement_rec |-> FALSE,
          arbitration_lost |-> FALSE, txtb |-> "none", valid |-> FALSE,
          first_err_delim |-> FALSE, counted |-> FALSE, crc |-> crc_match]

\* ctrl_ctr_ena.  Below zero the counter is loaded before it is looked at again.
CountDown == IF ctrl_ctr = 0 THEN 0 ELSE ctrl_ctr - 1

Counting == [Quiet EXCEPT !.load = CountDown]
Move(next, load) == [Quiet EXCEPT !.next = next, !.load = load]

\* The node starts to send the frame the arbitrator offers (tran_frame_valid).
Lock(next, how) ==
    [Quiet EXCEPT !.next = next, !.set = "transmitter", !.txtb = how]

\* How the arbitrator's offer may relate to the last frame; "none" is no offer.
Offers == IF mode.rom THEN {"none"}
          ELSE {"none", "new", "other"} \cup (IF pending THEN {"again"} ELSE {})

-----------------------------------------------------------------------------
(* Operation control (operation_control.vhd).                              *)

\* Faulty variant: a transmitter stays one when it is bus-off.
OpNextKeepsTransmitter(g) ==
    CASE op = "off" -> IF g.set = "idle" THEN "idle" ELSE "off"
      [] op = "idle" -> IF fc = "bus_off" THEN "off"
                        ELSE IF g.set \in {"transmitter", "receiver"} THEN g.set
                        ELSE "idle"
      [] op = "transmitter" -> IF g.set = "idle" THEN "idle"
                               ELSE IF g.set = "receiver" \/ g.arbitration_lost
                               THEN "receiver" ELSE "transmitter"
      [] op = "receiver" -> IF g.set \in {"idle", "transmitter"} THEN g.set
                            ELSE "receiver"

OpNext(g) ==
    CASE op = "off" -> IF g.set = "idle" THEN "idle" ELSE "off"
      [] op = "idle" -> IF fc = "bus_off" THEN "off"
                        ELSE IF g.set \in {"transmitter", "receiver"} THEN g.set
                        ELSE "idle"
      [] op = "transmitter" -> IF fc = "bus_off" THEN "off"
                               ELSE IF g.set = "idle" THEN "idle"
                               ELSE IF g.set = "receiver" \/ g.arbitration_lost
                               THEN "receiver" ELSE "transmitter"
      [] op = "receiver" -> IF g.set \in {"idle", "transmitter"} THEN g.set
                            ELSE "receiver"

-----------------------------------------------------------------------------
(* Retransmission counter.                                                 *)

\* Faulty variant: every error frame is counted.
RetrCtrAddEvery(event, failed) ==
    event /\ ~failed /\ mode.rtrle /\ op # "receiver"

\* An error or a lost arbitration is counted once per frame, unless it ends the
\* transmission as failed.
RetrCtrAdd(event, failed) ==
    event /\ ~failed /\ mode.rtrle /\ op # "receiver" /\ ~retr_ctr_add_block

RetrCtr(add, clear) ==
    IF add THEN (retr_ctr + 1) % RetrMod ELSE IF clear THEN 0 ELSE retr_ctr

\* The counters are reset by the registered set_err_active, before fault
\* confinement compares them in its new state.
CounterReset(g, counter) == IF g.set_err_active THEN 0 ELSE counter

\* Faulty variant: only errors in error frames are recognised.
BlockTxtbUnlockErrorOnly ==
    st \in {"act_err_flag", "pas_err_flag", "err_delim_wait", "err_delim"}

\* States in which an error does not unlock the TXT buffer.
BlockTxtbUnlock ==
    st \in {"act_err_flag", "pas_err_flag", "err_delim_wait", "err_delim",
            "ovr_flag", "ovr_delim_wait", "ovr_delim"}

-----------------------------------------------------------------------------
(* What the properties remember.                                           *)

\* The ways in which retr_ctr and the attempts of a frame come apart when it
\* starts: the frame inherits the counter of an aborted one, or counting is
\* still blocked.
Miscounted(txtb) ==
    \/ txtb = "again" /\ attempts = 0
    \/ txtb = "new" /\ retr_ctr # 0
    \/ st # "intermission" /\ retr_ctr_add_block

\* Counted up to one more than the limit, where there is a limit.
NextAttempt(txtb) ==
    CASE ~mode.rtrle \/ Miscounted(txtb) -> 0
      [] mode.rtrle /\ ~Miscounted(txtb) ->
           IF txtb # "again" THEN 1
           ELSE IF attempts > RetrTh + 1 THEN attempts ELSE attempts + 1

\* A run of recessive bits is complete.  Where edges do not restart integration
\* the value of the last bit of a run does not matter.
RunComplete(rx) == run = IntegrationDuration /\ (mode.edge => rx = "r")

Integrates == st \in {"off", "integrating", "reintegrating"}

Observe(rx, tx, g) ==
    /\ lonely' = (lonely /\ rx = tx)
    /\ attempts' = IF g.txtb # "none" THEN NextAttempt(g.txtb) ELSE attempts
    /\ pending' = (g.txtb # "none" \/ (pending /\ cmd' \notin {"valid", "failed"}))
    /\ run' = IF Integrates /\ ~RunComplete(rx) /\ rx = "r" THEN run + 1 ELSE 0
    /\ sequences' = CASE ~Integrates -> 0
                      [] Integrates /\ RunComplete(rx) -> sequences + 1
                      [] Integrates /\ ~RunComplete(rx) -> sequences

-----------------------------------------------------------------------------
(* The registers after a sample point with signals g.                      *)

\* The command to arbitrator and TXT buffers.
CommandOf(g, failed) ==
    IF g.txtb # "none" THEN "lock"
    ELSE IF g.valid THEN "valid"
    ELSE IF g.arbitration_lost THEN IF failed THEN "failed" ELSE "arbl"
    ELSE "none"

\* The reintegration counter.
ReintegCtr(counted) ==
    IF st = "reintegrating_wait" /\ ercrst THEN 0
    ELSE IF st = "reintegrating" /\ counted THEN reinteg_ctr + 1
    ELSE reinteg_ctr

Sampled(rx, tx, g) ==
    LET flag   == st \in {"act_err_flag", "ovr_flag"}
        inc1   == IncrementByOne(op, flag, mode.rom, g)
        inc8   == IncrementByEight(op, flag, mode.rom, g)
        failed == g.arbitration_lost /\ TxFailed
        add    == RetrCtrAdd(g.arbitration_lost, failed)
    IN  /\ stage = "process" /\ stage' = "next"
        /\ st' = g.next /\ ctrl_ctr' = g.load
        /\ op' = OpNext(g)
        /\ fc' = FcNext(fc, tec, rec, g.set_err_active)
        /\ tec' = CounterReset(g, TxErrCtr(tec, op, inc8, g.decrement_rec))
        /\ rec' = CounterReset(g, RxErrCtr(rec, op, inc1, inc8, g.decrement_rec))
        /\ err_frm_req' = g.err_detected
        /\ cmd' = CommandOf(g, failed)
        /\ retr_ctr' = RetrCtr(add, failed \/ g.valid \/ g.txtb = "other")
        /\ retr_ctr_add_block' = (add \/ (retr_ctr_add_block /\ st # "intermission"))
        /\ reinteg_ctr' = ReintegCtr(g.counted)
        /\ ercrst' = (ercrst /\ st # "reintegrating_wait")
        /\ first_err_delim' = g.first_err_delim
        /\ ack_err_flag' = (g.ack_err \/ (ack_err_flag /\ st # "err_delim_wait"
                                          /\ ~g.bit_err_after_ack_err))
        /\ rx_prev' = rx /\ crc_match' = g.crc
        /\ Observe(rx, tx, g)
        /\ UNCHANGED mode

-----------------------------------------------------------------------------
(* The states of the protocol control FSM in the sample point.             *)

\* ctrl_ctr in the sample point: an edge has restarted it within the bit.
IntegrationCtr(rx) ==
    IF mode.edge /\ rx = "d" /\ rx_prev = "r" THEN IntegrationDuration ELSE ctrl_ctr

\* Faulty variant: a dominant bit does not restart the integration.
IntegrationLoadGoesOn(rx, zero) ==
    IF zero THEN IntegrationDuration ELSE CountDown

IntegrationLoad(rx, zero) ==
    IF rx = "d" \/ zero THEN IntegrationDuration ELSE CountDown

Off ==
    /\ st = "off"
    /\ \E rx \in Bits :
         Sampled(rx, "r", Move("integrating", IF rx = "d" THEN IntegrationDuration
                                              ELSE IntegrationDuration - 1))

Integrating ==
    /\ st = "integrating"
    /\ \E rx \in Bits :
         LET zero == IntegrationCtr(rx) = 0
         IN  Sampled(rx, "r",
                [Quiet EXCEPT !.next = IF zero THEN "idle" ELSE "integrating",
                              !.load = IntegrationLoad(rx, FALSE),
                              !.set = IF zero THEN "idle" ELSE "none",
                              !.set_err_active = zero /\ fc = "bus_off"])

Sof ==
    /\ st = "sof"
    /\ \E rx \in Bits :
         Sampled(rx, "d", [Move("arbitration", ArbitrationMax) EXCEPT
                             !.err_detected = (rx = "r")])

\* base_id, rtr_srr_r1, ide, ext_id, rtr_r1
Arbitration ==
    /\ st = "arbitration"
    /\ \E rx \in Bits, tx \in TxBits, next \in {"arbitration", "body"} :
         /\ ctrl_ctr = 0 => next = "body"
         /\ Sampled(rx, tx,
              [Move(next, IF next = "body" THEN BodyMax ELSE CountDown) EXCEPT
                 !.arbitration_lost = (op = "transmitter" /\ tx = "r" /\ rx = "d"),
                 !.err_detected = (tx = "d" /\ rx = "r")])

\* edl to crc.  A recessive FDF or res bit is a protocol exception or a form
\* error, depending on the configuration.
Body ==
    /\ st = "body"
    /\ \E rx \in Bits, tx \in TxBits, next \in {"body", "crc_delim", "integrating"},
          form_err \in BOOLEAN :
         /\ ctrl_ctr = 0 => next # "body"
         /\ next = "integrating" \/ form_err =>
                rx = "r" /\ (op = "transmitter" => tx = "d")
         /\ next = "integrating" => mode.edge /\ ~form_err
         /\ Sampled(rx, tx,
              [Move(next, IF next = "integrating" THEN IntegrationDuration
                          ELSE CountDown) EXCEPT
                 !.err_detected = (form_err \/ (op = "transmitter" /\ tx # rx))])

\* An error between two sample points: in a stuff bit, in a secondary sample
\* point, or parity of the TXT buffer.  The FSM does not move.
ErrorBetweenSamples ==
    /\ st \in {"arbitration", "body"}
    /\ \E unchanged \in BOOLEAN :
         /\ unchanged => st = "arbitration" /\ op = "transmitter"
         /\ Sampled(rx_prev, "none",
              [Quiet EXCEPT !.err_detected = TRUE, !.err_ctrs_unchanged = unchanged])

CrcDelim ==
    /\ st = "crc_delim"
    /\ \E rx \in Bits, next \in {"ack", "ack_fd_1"}, match \in BOOLEAN :
         Sampled(rx, "r", [Move(next, ctrl_ctr) EXCEPT
                             !.crc = match, !.err_detected = (rx = "d")])

AckError(err) == op = "transmitter" /\ err

AckSlot(rx, tx, next, ack_err) ==
    Sampled(rx, tx, [Move(next, ctrl_ctr) EXCEPT
                       !.decrement_rec = (st # "ack_fd_2" /\ TxDominantAck /\ rx = "d"),
                       !.ack_err = ack_err,
                       !.err_ctrs_unchanged = (ack_err /\ fc = "passive"),
                       !.err_detected = (ack_err \/ (tx = "d" /\ rx = "r"))])

Ack ==
    /\ st = "ack"
    /\ \E rx \in Bits, tx \in TxBits :
         AckSlot(rx, tx, "ack_delim", AckError(rx = "r"))

AckFd1 ==
    /\ st = "ack_fd_1"
    /\ \E rx \in Bits, tx \in TxBits : AckSlot(rx, tx, "ack_fd_2", FALSE)

AckFd2 ==
    /\ st = "ack_fd_2"
    /\ \E rx \in Bits :
         AckSlot(rx, "r", "ack_delim", AckError(rx = "r" /\ rx_prev = "r"))

AckDelim ==
    /\ st = "ack_delim"
    /\ \E rx \in Bits :
         Sampled(rx, "r", [Move("eof", EofDuration) EXCEPT
                             !.err_detected = (rx = "d" \/ (op = "receiver" /\ ~crc_match))])

\* What a dominant bit starts where an overload frame is expected.
OverloadFrame ==
    IF mode.rom
    THEN [Move("integrating", IntegrationDuration) EXCEPT !.set = "idle"]
    ELSE Move("ovr_flag", OvrFlgDuration)

\* A receiver takes a dominant last bit for an overload flag.
EofError(rx) == rx = "d" /\ (ctrl_ctr # 0 \/ op = "transmitter")

Eof ==
    /\ st = "eof"
    /\ \E rx \in Bits :
         Sampled(rx, "r",
           [(CASE ctrl_ctr # 0 -> Counting
               [] ctrl_ctr = 0 /\ rx = "r" -> Move("intermission", IntermissionDuration)
               [] ctrl_ctr = 0 /\ rx = "d" /\ op = "receiver" -> OverloadFrame
               [] ctrl_ctr = 0 /\ rx = "d" /\ op # "receiver" -> Quiet) EXCEPT
              !.err_detected = EofError(rx),
              !.valid = (ctrl_ctr = 0 /\ rx = "r" /\ op = "transmitter"),
              !.crc = (crc_match /\ ctrl_ctr # 0)])

\* A frame starts: with the offered frame, or as receiver after a dominant bit.
StartFrame(rx, how) ==
    IF how # "none"
    THEN [Lock(IF rx = "d" THEN "arbitration" ELSE "sof", how) EXCEPT
            !.load = ArbitrationMax]
    ELSE [Move("arbitration", ArbitrationMax) EXCEPT !.set = "receiver"]

IsBusOff == fc = "bus_off"

GoIdle == [Move("idle", ctrl_ctr) EXCEPT !.set = "idle"]

Intermission ==
    /\ st = "intermission"
    /\ \E rx \in Bits, how \in Offers :
         LET offer == IF GoToSuspend THEN "none" ELSE how
         IN  Sampled(rx, "r",
               CASE IsBusOff -> Move("reintegrating_wait", CountDown)
                 [] ~IsBusOff /\ ctrl_ctr # 0 ->
                      IF rx = "d" THEN OverloadFrame ELSE Counting
                 [] ~IsBusOff /\ ctrl_ctr = 0 /\ (rx = "d" \/ offer # "none") ->
                      StartFrame(rx, offer)
                 [] ~IsBusOff /\ ctrl_ctr = 0 /\ rx = "r" /\ offer = "none" ->
                      IF GoToSuspend THEN Move("suspend", SuspendDuration) ELSE GoIdle)

Suspend ==
    /\ st = "suspend"
    /\ \E rx \in Bits, how \in Offers :
         Sampled(rx, "r",
           CASE rx = "d" -> StartFrame("d", "none")
             [] rx = "r" /\ ctrl_ctr # 0 -> Counting
             [] rx = "r" /\ ctrl_ctr = 0 ->
                  IF how # "none" THEN StartFrame("r", how) ELSE GoIdle)

Idle ==
    /\ st = "idle"
    /\ \E rx \in Bits, how \in Offers :
         Sampled(rx, "r",
           CASE IsBusOff -> Move("reintegrating_wait", ctrl_ctr)
             [] ~IsBusOff /\ (rx = "d" \/ how # "none") -> StartFrame(rx, how)
             [] ~IsBusOff /\ rx = "r" /\ how = "none" -> Quiet)

ReintegratingWait ==
    /\ st = "reintegrating_wait"
    /\ \E rx \in Bits :
         Sampled(rx, "r", IF ercrst THEN Move("reintegrating", IntegrationDuration)
                          ELSE Quiet)

ReintegExpired == reinteg_ctr = ReintegLimit

Reintegrating ==
    /\ st = "reintegrating"
    /\ \E rx \in Bits :
         LET zero == IntegrationCtr(rx) = 0
             done == zero /\ ReintegExpired
         IN  Sampled(rx, "r",
                [Quiet EXCEPT !.next = IF done THEN "idle" ELSE "reintegrating",
                              !.load = IntegrationLoad(rx, zero),
                              !.counted = zero,
                              !.set = IF done THEN "idle" ELSE "none",
                              !.set_err_active = done])

-----------------------------------------------------------------------------
(* Error and overload frames.                                              *)

ActErrFlag ==
    /\ st = "act_err_flag"
    /\ \E rx \in Bits :
         Sampled(rx, "d",
           [(IF ctrl_ctr = 0 THEN Move("err_delim_wait", DelimWaitDuration)
             ELSE Counting) EXCEPT !.first_err_delim = (ctrl_ctr = 0),
                                   !.err_detected = (rx = "r")])

\* Faulty variant: only dominant bits are counted.
PasErrFlagRestartsOnRecessive(rx) == rx = "r"

\* Complete after a full number of equal bits.
PasErrFlagRestarts(rx) == rx # rx_prev

PasErrFlag ==
    /\ st = "pas_err_flag"
    /\ \E rx \in Bits :
         LET done == ~PasErrFlagRestarts(rx) /\ ctrl_ctr = 0
         IN  Sampled(rx, "r",
               [(CASE PasErrFlagRestarts(rx) -> Move("pas_err_flag", ErrFlgDuration - 1)
                   [] ~PasErrFlagRestarts(rx) /\ ctrl_ctr = 0 ->
                        Move("err_delim_wait", DelimWaitDuration)
                   [] ~PasErrFlagRestarts(rx) /\ ctrl_ctr # 0 -> Counting) EXCEPT
                  !.first_err_delim = done,
                  !.bit_err_after_ack_err = (ack_err_flag /\ rx = "d")])

\* Waiting for the delimiter; DelimWaitDuration dominant bits are tolerated.
DelimWait(rx, delim, duration, too_long) ==
    CASE rx = "r" -> Move(delim, duration)
      [] rx = "d" /\ ctrl_ctr = 0 -> Move(too_long, ctrl_ctr)
      [] rx = "d" /\ ctrl_ctr # 0 -> Counting

ErrDelimWait ==
    /\ st = "err_delim_wait"
    /\ \E rx \in Bits :
         Sampled(rx, "r",
           [DelimWait(rx, "err_delim", ErrDelimDuration, "err_flag_too_long") EXCEPT
              !.primary_err = (rx = "d" /\ first_err_delim)])

OvrDelimWait ==
    /\ st = "ovr_delim_wait"
    /\ \E rx \in Bits :
         Sampled(rx, "r",
           DelimWait(rx, "ovr_delim", OvrDelimDuration, "ovr_flag_too_long"))

FlagTooLong(rx, delim, duration) ==
    CASE rx = "r" -> Move(delim, duration)
      [] rx = "d" /\ ctrl_ctr = 0 ->
           [Quiet EXCEPT !.load = DominantRepeatDuration, !.err_delim_late = TRUE]
      [] rx = "d" /\ ctrl_ctr # 0 -> Counting

ErrFlagTooLong ==
    /\ st = "err_flag_too_long"
    /\ \E rx \in Bits :
         Sampled(rx, "r", FlagTooLong(rx, "err_delim", ErrDelimDuration))

OvrFlagTooLong ==
    /\ st = "ovr_flag_too_long"
    /\ \E rx \in Bits :
         Sampled(rx, "r", FlagTooLong(rx, "ovr_delim", OvrDelimDuration))

\* err_delim and ovr_delim
Delim ==
    /\ st \in {"err_delim", "ovr_delim"}
    /\ \E rx \in Bits :
         Sampled(rx, "r",
           CASE ctrl_ctr # 0 -> [Counting EXCEPT !.err_detected = (rx = "d")]
             [] ctrl_ctr = 0 /\ rx = "d" -> Move("ovr_flag", OvrFlgDuration)
             [] ctrl_ctr = 0 /\ rx = "r" -> Move("intermission", IntermissionDuration))

OvrFlag ==
    /\ st = "ovr_flag"
    /\ \E rx \in Bits :
         Sampled(rx, "d",
           [(IF ctrl_ctr = 0 THEN Move("ovr_delim_wait", DelimWaitDuration)
             ELSE Counting) EXCEPT !.err_detected = (rx = "r")])

-----------------------------------------------------------------------------
(* The cycle after the sample point.                                       *)

\* Faulty variant: bus-off is taken for error active.
ErrorFlagUnlessPassive ==
    IF mode.rom THEN "integrating"
    ELSE IF fc = "passive" THEN "pas_err_flag" ELSE "act_err_flag"

ErrorFlag ==
    IF mode.rom THEN "integrating"
    ELSE IF fc = "active" THEN "act_err_flag" ELSE "pas_err_flag"

\* err_frm_req starts an error frame with the fault confinement state from
\* before the error, and gives the TXT buffer back unless that has been done.
ErrorFrame ==
    LET unlock == op = "transmitter" /\ ~BlockTxtbUnlock
        failed == unlock /\ TxFailed
        add    == RetrCtrAdd(TRUE, failed)
    IN  /\ st' = ErrorFlag
        /\ ctrl_ctr' = IF mode.rom THEN IntegrationDuration ELSE ErrFlgDuration
        /\ op' = IF mode.rom THEN "idle" ELSE op
        /\ cmd' = IF failed THEN "failed" ELSE IF unlock THEN "err" ELSE "none"
        /\ retr_ctr' = RetrCtr(add, failed)
        /\ retr_ctr_add_block' = (add \/ (retr_ctr_add_block /\ st # "intermission"))
        /\ crc_match' = FALSE
        /\ pending' = (pending /\ ~failed)
        /\ attempts' = IF add /\ st \in OverloadStates THEN 0 ELSE attempts

NoErrorFrame ==
    /\ cmd' = "none"
    /\ UNCHANGED <<st, ctrl_ctr, op, retr_ctr, retr_ctr_add_block, crc_match,
                   pending, attempts>>

\* Two transitions bring fault confinement to rest.
Settled(state, t, r) == FcNext(FcNext(state, t, r, FALSE), t, r, FALSE)

AfterSample ==
    /\ stage = "next" /\ stage' = "process"
    /\ IF err_frm_req THEN ErrorFrame ELSE NoErrorFrame
    /\ err_frm_req' = FALSE
    /\ tec' = TxErrCtr(tec, op, FALSE, cmd = "valid")
    /\ fc' = Settled(fc, tec', rec)
    /\ UNCHANGED <<mode, rec, reinteg_ctr, ercrst, first_err_delim, ack_err_flag,
                   rx_prev, lonely, run, sequences>>

\* Software writes COMMAND[ERCRST]; the request is kept until it is used.
CommandErcrst ==
    /\ ~ercrst /\ ercrst' = TRUE
    /\ UNCHANGED <<mode, stage, st, ctrl_ctr, op, fc, tec, rec, err_frm_req, cmd,
                   retr_ctr, retr_ctr_add_block, reinteg_ctr, first_err_delim,
                   ack_err_flag, rx_prev, crc_match, hist>>

-----------------------------------------------------------------------------
Init ==
    /\ mode \in Modes
    /\ stage = "process" /\ st = "off" /\ ctrl_ctr = 0
    /\ op = "off" /\ fc = "bus_off" /\ tec = 0 /\ rec = 0
    /\ err_frm_req = FALSE /\ cmd = "none"
    /\ retr_ctr = 0 /\ retr_ctr_add_block = FALSE
    /\ reinteg_ctr = 0 /\ ercrst = FALSE
    /\ first_err_delim = FALSE /\ ack_err_flag = FALSE
    /\ rx_prev = "r" /\ crc_match = FALSE
    /\ attempts = 0 /\ pending = FALSE
    /\ lonely = TRUE /\ run = 0 /\ sequences = 0

SamplePoint ==
    \/ Off \/ Integrating \/ Sof \/ Arbitration \/ Body \/ ErrorBetweenSamples
    \/ CrcDelim \/ Ack \/ AckFd1 \/ AckFd2 \/ AckDelim \/ Eof
    \/ Intermission \/ Suspend \/ Idle \/ ReintegratingWait \/ Reintegrating
    \/ ActErrFlag \/ PasErrFlag \/ ErrDelimWait \/ ErrFlagTooLong \/ Delim
    \/ OvrFlag \/ OvrDelimWait \/ OvrFlagTooLong

Next == SamplePoint \/ AfterSample \/ CommandErcrst

\* The clock runs.
Spec == Init /\ [][Next]_vars /\ WF_vars(SamplePoint \/ AfterSample)

-----------------------------------------------------------------------------
(* Properties.                                                             *)

\* All registers hold values of their types.
TypeOK ==
    /\ mode \in Modes /\ stage \in {"process", "next"} /\ st \in States
    /\ ctrl_ctr \in Nat /\ \E d \in Durations : ctrl_ctr <= d
    /\ op \in {"off", "idle", "transmitter", "receiver"} /\ fc \in FcStates
    /\ tec \in Counter /\ rec \in Counter
    /\ cmd \in {"none", "lock"} \cup Unlocks
    /\ retr_ctr \in 0 .. RetrMod - 1 /\ reinteg_ctr \in 0 .. ReintegLimit + 1
    /\ rx_prev \in Bits
    /\ {err_frm_req, retr_ctr_add_block, ercrst, first_err_delim, ack_err_flag,
        crc_match, pending, lonely} \subseteq BOOLEAN
    /\ attempts \in 0 .. RetrTh + 2

\* tx_err_ctr_q is not saturated, and fault confinement and operation control
\* look at it later than it counts.  Still TEC never wraps: but for the reset
\* that ends bus-off it only grows, or falls by one.
TecNeverWraps ==
    [][tec' >= tec \/ tec' = tec - 1 \/ (fc = "bus_off" /\ fc' = "active")]_vars

\* Operation control and fault confinement, which influence each other with a
\* delay, fit together: a receiver is never bus-off, a node that has become
\* bus-off is off from its next sample point on (go_to_off has no branch for a
\* receiver), and a node that is off is bus-off.
RolesFit ==
    /\ op = "receiver" => fc # "bus_off"
    /\ stage = "next" /\ fc = "bus_off" => op = "off"
    /\ op = "off" => fc = "bus_off"

\* A bus-off node drives no dominant bit, with one exception: after the error
\* frame that made it bus-off it still answers a dominant last bit of the error
\* or overload delimiter with an overload flag (s_pc_err_delim, s_pc_ovr_delim).
BusOffSilent ==
    fc = "bus_off" /\ "d" \in TxBits => st = "ovr_flag"

\* With SETTINGS[RTRLE] a frame is sent at most RTRTH + 1 times in a row, and a
\* TXT buffer is reported failed only after exactly that many attempts, whatever
\* errors, repeated error frames and lost arbitrations end them; unless
\* something else was counted, or a failure was not (attempts = 0).  There are three such cases: an error in
\* an overload frame that follows the transmission is counted; a new frame in an
\* aborted buffer inherits the counter; and after a lost arbitration a protocol
\* exception leads past the intermission that permits counting again.
AttemptsLimited ==
    /\ TypeOK
    /\ attempts <= RetrTh + 1
    /\ cmd = "failed" => mode.rtrle /\ attempts \in {0, RetrTh + 1}

\* A node that is alone on the bus, so that every bit it samples is its own, gets
\* error passive for want of acknowledgements and stays there: it never becomes
\* bus-off, however long it tries (err_ctrs_unchanged, bit_err_after_ack_err).
LonelyNotBusOff == lonely => tec < ErpLimit + IncEight

\* Bus-off is left only at the end of an integration, after one run of recessive
\* bits when the node was just enabled and after ReintegLimit + 1 of them
\* otherwise, and with both counters at zero.  A dominant bit starts a run
\* anew, except that a classical node (no FDE, no PEX) does not look at the
\* last bit of a run (ctrl_ctr_zero in s_pc_reintegrating).
RecoversAfterIntegration ==
    [][fc = "bus_off" /\ fc' # "bus_off" =>
         /\ fc' = "active" /\ tec' = 0 /\ rec' = 0
         /\ sequences' = IF st = "reintegrating" THEN ReintegLimit + 1 ELSE 1]_vars

\* No error, overload or bus-off condition outlasts its cause: once the bus stays
\* recessive, and if software restarts a node that waits for it, the node is again
\* and again idle or starting a transmission.
QuietBusRecovers ==
    <>[](rx_prev = "r") /\ []<>(st = "reintegrating_wait" => ercrst)
        => []<>(st = "idle" \/ cmd = "lock")

\* The frame that holds a TXT buffer.  A transmitter is in "integrating" only in
\* the cycle before the error frame that a protocol exception of its own causes.
Sending == op = "transmitter" /\ st \in FrameStates \cup {"integrating"}

Commands == INSTANCE TxCommands WITH sending <- Sending, cmd <- cmd

\* Locks and unlocks of TXT buffers alternate and are never adjacent: an error
\* while the buffer has been given back already, in an error or overload frame or
\* after a lost arbitration, gives it back no second time (block_txtb_unlock).
ImplementsTxCommands == Commands!Spec
=============================================================================
