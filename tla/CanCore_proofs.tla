--------------------------- MODULE CanCore_proofs ---------------------------
(***************************************************************************)
(* Operation control and fault confinement fit together, TEC never wraps,  *)
(* protocol control gives the TXT buffers the commands of TxCommands, a    *)
(* bus-off node is silent and recovers only after integration, a lonely    *)
(* node does not become bus-off, and transmissions are limited, for all    *)
(* durations, limits and counter widths that satisfy the assumptions of    *)
(* CanCore and FaultConfinement.                                           *)
(*                                                                         *)
(* None of these is inductive.  TEC is bounded because a node stops being  *)
(* transmitter in the sample point after the one in which it passes the    *)
(* limit, and the buffer is given back once because of where errors can be *)
(* detected; both need to know who can be transmitter, receiver or idle in *)
(* which state of fault confinement and in which field of a frame (IInv).  *)
(*                                                                         *)
(* The proof is in two layers: SignalsFit collects what a state of         *)
(* protocol control may ask for in a sample point, with one case per state *)
(* (SamplePointSignals), and all registers follow from SignalsFit alone    *)
(* (SampledStep, SampledCommands).  The same case split shows Detail.      *)
(*                                                                         *)
(* The last section is about the counters.  Besides IInv it needs where    *)
(* fault confinement is relative to TEC and REC, what ctrl_ctr and         *)
(* reinteg_ctr have counted in an integration, and what retr_ctr has       *)
(* counted for the frame that is being sent (HInv).  A sample point is     *)
(* again known only by its signals, SignalsFit and Detail.                 *)
(***************************************************************************)
EXTENDS CanCore, TLAPS

\* The node is in an error or overload frame.
Signalling == ErrorStates \cup OverloadStates

\* The node waits for, or counts, recessive bits.
Integration == {"off", "integrating", "reintegrating_wait", "reintegrating"}

\* The states in which a transmitter holds its TXT buffer, see Sending.
Holding == FrameStates \cup {"integrating"}

\* The states of BlockTxtbUnlock.
Blocked == Signalling \ {"err_flag_too_long", "ovr_flag_too_long"}

Types ==
    /\ mode.rom \in BOOLEAN /\ err_frm_req \in BOOLEAN
    /\ stage \in {"process", "next"}
    /\ op \in {"off", "idle", "transmitter", "receiver"}
    /\ fc \in FcStates
    /\ tec \in Nat /\ tec <= BusOffLimit + 2 * IncEight

\* How far TEC can be above the limit, and who can be bus-off.  Fault confinement
\* has settled before a sample point.
Roles ==
    /\ op \in {"receiver", "idle"} => fc # "bus_off" /\ tec <= BusOffLimit
    /\ op = "transmitter" => tec <= BusOffLimit + IncEight
    /\ op = "transmitter" /\ stage = "next" => fc # "bus_off"
    /\ op = "off" => fc = "bus_off"
    /\ stage = "process" /\ fc # "bus_off" => tec <= BusOffLimit

\* Which role fits which field.
Fields ==
    /\ st \in FrameStates => op \in {"transmitter", "receiver"} /\ fc # "bus_off"
    /\ st \in FrameStates /\ ~err_frm_req => tec <= BusOffLimit
    /\ st = "suspend" => op = "transmitter" /\ fc # "bus_off" /\ tec <= BusOffLimit
    /\ st \in Integration /\ ~err_frm_req => op # "transmitter"
    /\ st \in {"reintegrating_wait", "reintegrating"} => op = "off"
    /\ mode.rom => st \notin Signalling /\ tec <= BusOffLimit

\* Error frame requests, and the commands they leave behind for the next sample
\* point.
Requests ==
    /\ stage = "process" => ~err_frm_req
    /\ err_frm_req /\ op = "off" => st \in Signalling
    /\ err_frm_req => cmd = "none" /\ st \in Holding \cup Blocked
    /\ stage = "process" /\ cmd # "none" =>
            st \in {"act_err_flag", "pas_err_flag", "integrating"}

\* The inductive invariant.
IInv == Types /\ Roles /\ Fields /\ Requests

\* No counter is incremented by these signals.
NoIncrement(g) ==
    /\ ~g.err_detected /\ ~g.primary_err
    /\ ~g.err_delim_late /\ ~g.bit_err_after_ack_err

\* What the proof needs to know of the signals of a sample point.
SignalsFit(g) ==
    /\ g.set \in {"none", "idle", "transmitter", "receiver"}
    /\ g.set_err_active \in BOOLEAN /\ g.err_detected \in BOOLEAN
    /\ g.decrement_rec \in BOOLEAN
    /\ g.set # "none" \/ g.arbitration_lost => NoIncrement(g)
    /\ g.arbitration_lost => g.set = "none" /\ st \in FrameStates
    /\ g.set \in {"transmitter", "receiver"} => fc # "bus_off"
    /\ g.set = "idle" /\ fc = "bus_off" => g.set_err_active
    /\ g.set_err_active => g.set = "idle" /\ fc = "bus_off" /\ op = "off"
    /\ g.next \in FrameStates /\ st \notin FrameStates =>
            g.set \in {"transmitter", "receiver"}
    /\ st \in FrameStates /\ g.next \in FrameStates => g.set = "none"
    /\ g.next = "suspend" => /\ op = "transmitter" /\ fc # "bus_off"
                             /\ g.set = "none" /\ ~g.arbitration_lost /\ NoIncrement(g)
    /\ g.next \in FrameStates /\ ~g.err_detected => NoIncrement(g)
    /\ g.next \in Integration /\ ~g.err_detected =>
            g.set = "idle" \/ (g.set = "none" /\ (op # "transmitter" \/ fc = "bus_off"))
    /\ g.next \in {"reintegrating_wait", "reintegrating"} =>
            fc = "bus_off" /\ g.set = "none"
    /\ mode.rom => g.next \notin Signalling
    /\ g.err_detected /\ st \notin FrameStates => g.next \in Signalling
    /\ g.err_detected => g.next \in Holding \cup Blocked
    /\ g.txtb # "none" <=> g.set = "transmitter"
    /\ g.txtb # "none" => /\ g.next \in FrameStates /\ ~g.valid
                          /\ st \in {"intermission", "suspend", "idle"}
    /\ g.valid => /\ op = "transmitter" /\ st \in FrameStates
                  /\ g.next \notin Holding /\ ~g.err_detected /\ ~g.arbitration_lost
    /\ g.arbitration_lost => op = "transmitter"
    /\ st \in FrameStates /\ op = "transmitter" /\ ~g.valid =>
            g.next \in Holding /\ g.set = "none"

\* The values ctrl_ctr is loaded with.
Loads == Durations \cup {IntegrationDuration - 1, ErrFlgDuration - 1}

\* What the invariants about the counters need to know of a sample point in which rx
\* is sampled and tx was sent.
Detail(rx, tx, g) ==
    /\ rx \in Bits \cup {rx_prev}
    /\ g.next \in States \ {"off"}
    /\ g.load \in {ctrl_ctr, CountDown} \cup Loads
    /\ g.first_err_delim \in BOOLEAN /\ g.crc \in BOOLEAN \cup {crc_match}
    /\ g.txtb \in {"none", "new", "other", "again"} /\ (g.txtb = "again" => pending)
    /\ g.next = "act_err_flag" => st = "act_err_flag" /\ (g.err_detected \/ NoIncrement(g))
    /\ g.next \in ErrorStates => st \in ErrorStates /\ g.set = "none"
    /\ g.set_err_active => /\ st \in {"integrating", "reintegrating"}
                           /\ IntegrationCtr(rx) = 0
                           /\ st = "reintegrating" => ReintegExpired
    /\ st = "off" => /\ g.next = "integrating"
                     /\ g.load = IF rx = "d" THEN IntegrationDuration ELSE IntegrationDuration - 1
    /\ st = "integrating" => /\ g.next = IF IntegrationCtr(rx) = 0 THEN "idle" ELSE "integrating"
                             /\ g.load = IntegrationLoad(rx, FALSE)
    /\ st = "reintegrating" =>
            /\ g.next = IF IntegrationCtr(rx) = 0 /\ ReintegExpired THEN "idle" ELSE "reintegrating"
            /\ g.load = IntegrationLoad(rx, IntegrationCtr(rx) = 0)
            /\ g.counted <=> IntegrationCtr(rx) = 0
    /\ st \notin {"off", "integrating", "reintegrating"} =>
            /\ g.next \in {"integrating", "reintegrating"} => g.load = IntegrationDuration
            /\ g.next = "reintegrating" => st = "reintegrating_wait" /\ ercrst
    /\ rx = tx /\ rx \in Bits /\ op = "transmitter" =>
            /\ ~g.err_delim_late /\ ~g.bit_err_after_ack_err
            /\ g.err_detected => /\ st \in {"ack", "ack_fd_2"}
                                 /\ fc = "passive" => g.err_ctrs_unchanged

\* One step of TEC.
TecStep == tec' >= tec \/ tec' = tec - 1 \/ (fc = "bus_off" /\ fc' = "active")

-----------------------------------------------------------------------------
(* Lemmas about the operators.                                             *)

\* Below the modulus the remainder changes nothing.
LEMMA SmallMod ==
    ASSUME NEW a \in Nat, NEW m \in Nat, a < m
    PROVE  a % m = a
  OBVIOUS

\* TEC changes only for a transmitter; below the limits it does not wrap.
LEMMA TxErrCtrStep ==
    ASSUME NEW t \in Nat, NEW o, NEW i \in BOOLEAN, NEW d \in BOOLEAN,
           o = "transmitter" => t <= BusOffLimit + IncEight
    PROVE  /\ TxErrCtr(t, o, i, d) \in Nat
           /\ TxErrCtr(t, o, i, d) <= t \/ o = "transmitter"
           /\ TxErrCtr(t, o, i, d) <= t \/ i
           /\ TxErrCtr(t, o, i, d) <= t + IncEight
           /\ TxErrCtr(t, o, i, d) >= t \/ TxErrCtr(t, o, i, d) = t - 1
  <1>1. CASE o = "transmitter" /\ i
    <2>1. TxErrCtr(t, o, i, d) = (t + IncEight) % CtrMod
      BY <1>1, Zenon DEF TxErrCtr
    <2>2. t + IncEight \in Nat /\ CtrMod \in Nat /\ t + IncEight < CtrMod
      BY <1>1, FaultConfinementAssumption
    <2>3. (t + IncEight) % CtrMod = t + IncEight
      BY <2>2, SmallMod, Zenon
    <2>4. TxErrCtr(t, o, i, d) = t + IncEight /\ IncEight \in Nat
      BY <2>1, <2>3, FaultConfinementAssumption, Zenon
    <2>5. TxErrCtr(t, o, i, d) \in Nat /\ TxErrCtr(t, o, i, d) >= t
          /\ TxErrCtr(t, o, i, d) <= t + IncEight
      BY <2>4, SMT
    <2> QED
      BY <1>1, <2>5, Zenon
  <1>2. CASE ~(o = "transmitter" /\ i)
    <2>1. TxErrCtr(t, o, i, d) = t \/ (t > 0 /\ TxErrCtr(t, o, i, d) = t - 1)
      BY <1>2, Zenon DEF TxErrCtr
    <2>2. /\ TxErrCtr(t, o, i, d) \in Nat /\ TxErrCtr(t, o, i, d) <= t
          /\ TxErrCtr(t, o, i, d) <= t + IncEight
          /\ TxErrCtr(t, o, i, d) >= t \/ TxErrCtr(t, o, i, d) = t - 1
      BY <2>1, FaultConfinementAssumption, SMT
    <2> QED
      BY <2>2, Zenon
  <1> QED
    BY <1>1, <1>2, Zenon

\* Fault confinement enters bus-off only above the limit, and leaves it only by
\* set_err_active.
LEMMA FcNextStep ==
    ASSUME NEW f \in FcStates, NEW t \in Nat, NEW r, NEW a \in BOOLEAN
    PROVE  /\ FcNext(f, t, r, a) \in FcStates
           /\ f # "bus_off" /\ t <= BusOffLimit => FcNext(f, t, r, a) # "bus_off"
           /\ f = "bus_off" => FcNext(f, t, r, a) = IF a THEN "active" ELSE "bus_off"
  BY FaultConfinementAssumption DEF FcNext, FcStates

\* Two transitions bring it to rest.
LEMMA SettledStep ==
    ASSUME NEW f \in FcStates, NEW t \in Nat, NEW r
    PROVE  /\ Settled(f, t, r) \in FcStates
           /\ f # "bus_off" /\ t <= BusOffLimit => Settled(f, t, r) # "bus_off"
           /\ f = "bus_off" => Settled(f, t, r) = "bus_off"
           /\ t > BusOffLimit => Settled(f, t, r) = "bus_off"
  <1> USE FaultConfinementAssumption
  <1>1. CASE f = "active"
    BY <1>1 DEF Settled, FcNext, FcStates
  <1>2. CASE f = "passive"
    BY <1>2 DEF Settled, FcNext, FcStates
  <1>3. CASE f = "bus_off"
    BY <1>3, Zenon DEF Settled, FcNext, FcStates
  <1> QED
    BY <1>1, <1>2, <1>3, Zenon DEF FcStates

-----------------------------------------------------------------------------
(* Every sample point with fitting signals preserves the invariant.        *)

\* Only these signals increment TEC, and none does in restricted operation.
LEMMA Increments ==
    ASSUME NEW g, NEW flag, NEW rom
    PROVE  rom \/ NoIncrement(g) => ~IncrementByEight(op, flag, rom, g)
  BY Zenon DEF NoIncrement, IncrementByEight

\* A sample point is a "process" cycle.
LEMMA SampledStage ==
    ASSUME NEW rx, NEW tx, NEW g, Sampled(rx, tx, g)
    PROVE  stage = "process"
  BY Zenon DEF Sampled

\* The counter of a sample point, as far as the invariant needs it.
LEMMA SampledTec ==
    ASSUME IInv, NEW rx, NEW tx, NEW g, SignalsFit(g), Sampled(rx, tx, g)
    PROVE  /\ tec' \in Nat
           /\ tec' <= tec \/ op = "transmitter"
           /\ mode.rom \/ NoIncrement(g) => tec' <= tec
           /\ tec' <= tec + IncEight
           /\ g.set_err_active => tec' = 0
           /\ ~g.set_err_active => tec' >= tec \/ tec' = tec - 1
  <1> DEFINE i == IncrementByEight(op, st \in {"act_err_flag", "ovr_flag"}, mode.rom, g)
             d == g.decrement_rec
             t == TxErrCtr(tec, op, i, d)
  <1>1. tec' = IF g.set_err_active THEN 0 ELSE t
    BY Zenon DEF Sampled, CounterReset
  <1>2. i \in BOOLEAN /\ (mode.rom \/ NoIncrement(g) => ~i)
    BY Increments, Zenon DEF IncrementByEight
  <1>3. d \in BOOLEAN
    BY Zenon DEF SignalsFit
  <1>4. tec \in Nat /\ (op = "transmitter" => tec <= BusOffLimit + IncEight)
    BY Zenon DEF IInv, Types, Roles, Fields, Requests
  <1> HIDE DEF i, d
  <1>5. /\ t \in Nat
        /\ t <= tec \/ op = "transmitter"
        /\ t <= tec \/ i
        /\ t <= tec + IncEight
        /\ t >= tec \/ t = tec - 1
    BY <1>2, <1>3, <1>4, TxErrCtrStep, Zenon
  <1> HIDE DEF t
  <1>6. CASE g.set_err_active
    BY <1>1, <1>4, <1>6, FaultConfinementAssumption
  <1>7. CASE ~g.set_err_active
    <2>1. tec' = t
      BY <1>1, <1>7, Zenon
    <2> QED
      BY <1>2, <1>5, <1>7, <2>1, Zenon
  <1> QED
    BY <1>6, <1>7, Zenon

\* Roles after a sample point.
LEMMA OpNextStep ==
    ASSUME NEW g, SignalsFit(g), op \in {"off", "idle", "transmitter", "receiver"}
    PROVE  /\ OpNext(g) \in {"off", "idle", "transmitter", "receiver"}
           /\ op = "off" => OpNext(g) = IF g.set = "idle" THEN "idle" ELSE "off"
           /\ op # "off" /\ fc # "bus_off" /\ g.set # "none" => OpNext(g) = g.set
           /\ op # "off" /\ fc # "bus_off" /\ g.set = "none" =>
                 OpNext(g) = IF op = "transmitter" /\ g.arbitration_lost
                             THEN "receiver" ELSE op
           /\ op = "transmitter" /\ fc = "bus_off" => OpNext(g) = "off"
  <1>1. /\ g.set \in {"none", "idle", "transmitter", "receiver"}
        /\ g.arbitration_lost => g.set = "none"
    BY Zenon DEF SignalsFit
  <1>2. CASE op = "off"
    BY <1>2, Zenon DEF OpNext
  <1>3. CASE op = "idle"
    BY <1>1, <1>3, Zenon DEF OpNext
  <1>4. CASE op = "transmitter"
    BY <1>1, <1>4, Zenon DEF OpNext
  <1>5. CASE op = "receiver"
    BY <1>1, <1>5, Zenon DEF OpNext
  <1> QED
    BY <1>2, <1>3, <1>4, <1>5, Zenon

\* Every sample point with fitting signals preserves the invariant.
LEMMA SampledStep ==
    ASSUME IInv, NEW rx, NEW tx, NEW g, SignalsFit(g), Sampled(rx, tx, g)
    PROVE  IInv' /\ TecStep
  <1>1. /\ tec' \in Nat
        /\ tec' <= tec \/ op = "transmitter"
        /\ mode.rom \/ NoIncrement(g) => tec' <= tec
        /\ tec' <= tec + IncEight
        /\ g.set_err_active => tec' = 0
        /\ ~g.set_err_active => tec' >= tec \/ tec' = tec - 1
    BY SampledTec, Zenon
  <1>2. /\ stage = "process" /\ stage' = "next" /\ mode' = mode
        /\ st' = g.next /\ op' = OpNext(g)
        /\ fc' = FcNext(fc, tec, rec, g.set_err_active)
        /\ err_frm_req' = g.err_detected
        /\ cmd' = CommandOf(g, g.arbitration_lost /\ TxFailed)
    BY Zenon DEF Sampled
  <1>3. /\ fc' \in FcStates
        /\ fc # "bus_off" /\ tec <= BusOffLimit => fc' # "bus_off"
        /\ fc = "bus_off" => fc' = IF g.set_err_active THEN "active" ELSE "bus_off"
    BY <1>2, FcNextStep DEF IInv, Types, Roles, Fields, Requests, SignalsFit
  <1>4. /\ mode.rom \in BOOLEAN /\ ~err_frm_req
        /\ op \in {"off", "idle", "transmitter", "receiver"}
        /\ fc \in FcStates
        /\ tec \in Nat /\ tec <= BusOffLimit + 2 * IncEight
        /\ op \in {"receiver", "idle"} => fc # "bus_off" /\ tec <= BusOffLimit
        /\ op = "transmitter" => tec <= BusOffLimit + IncEight
        /\ op = "off" => fc = "bus_off"
        /\ fc # "bus_off" => tec <= BusOffLimit
        /\ st \in FrameStates => op \in {"transmitter", "receiver"} /\ fc # "bus_off"
        /\ st = "suspend" => op = "transmitter" /\ fc # "bus_off"
        /\ mode.rom => st \notin Signalling /\ tec <= BusOffLimit
    BY <1>2, Zenon DEF IInv, Types, Roles, Fields, Requests
  <1>5. /\ op' \in {"off", "idle", "transmitter", "receiver"}
        /\ op = "off" => op' = IF g.set = "idle" THEN "idle" ELSE "off"
        /\ op # "off" /\ fc # "bus_off" /\ g.set # "none" => op' = g.set
        /\ op # "off" /\ fc # "bus_off" /\ g.set = "none" =>
              op' = IF op = "transmitter" /\ g.arbitration_lost THEN "receiver" ELSE op
        /\ op = "transmitter" /\ fc = "bus_off" => op' = "off"
    BY <1>2, <1>4, OpNextStep, Zenon
  <1>6. fc # "bus_off" => fc' # "bus_off" /\ op' # "off" /\ op # "off"
    BY <1>3, <1>4, <1>5, Zenon DEF SignalsFit
  <1>7. fc = "bus_off" => \/ fc' = "bus_off" /\ op' = "off" /\ ~g.set_err_active
                          \/ fc' = "active" /\ g.set_err_active /\ tec' = 0
    BY <1>1, <1>3, <1>4, <1>5, Zenon DEF SignalsFit
  <1> HIDE DEF TecStep
  <1>8. TecStep
    BY <1>1, <1>3, Zenon DEF TecStep, SignalsFit
  <1>9. tec' <= BusOffLimit + 2 * IncEight
    BY <1>1, <1>4, FaultConfinementAssumption
  <1>10. op' \in {"receiver", "idle"} => fc' # "bus_off" /\ tec' <= BusOffLimit
    <2>1. CASE fc = "bus_off"
      BY <1>7, <2>1, FaultConfinementAssumption
    <2>2. CASE fc # "bus_off" /\ (g.set # "none" \/ g.arbitration_lost)
      BY <1>1, <1>4, <1>6, <2>2, FaultConfinementAssumption DEF SignalsFit
    <2>3. CASE fc # "bus_off" /\ g.set = "none" /\ ~g.arbitration_lost
      BY <1>1, <1>4, <1>5, <1>6, <2>3, FaultConfinementAssumption
    <2> QED
      BY <2>1, <2>2, <2>3, Zenon DEF SignalsFit
  <1>11. op' = "transmitter" => tec' <= BusOffLimit + IncEight /\ fc' # "bus_off"
    <2>1. CASE fc = "bus_off"
      BY <1>7, <2>1, FaultConfinementAssumption
    <2>2. CASE fc # "bus_off"
      BY <1>1, <1>4, <1>6, <2>2, FaultConfinementAssumption
    <2> QED
      BY <2>1, <2>2, Zenon
  <1>12. op' = "off" => fc' = "bus_off"
    BY <1>4, <1>5, <1>6, <1>7, Zenon DEF SignalsFit
  <1>13. st' \in FrameStates => op' \in {"transmitter", "receiver"} /\ fc' # "bus_off"
    <2> SUFFICES ASSUME g.next \in FrameStates
                 PROVE  op' \in {"transmitter", "receiver"} /\ fc' # "bus_off"
      BY <1>2, Zenon
    <2>1. fc # "bus_off"
      BY <1>4, Zenon DEF SignalsFit
    <2> QED
      BY <1>4, <1>5, <1>6, <2>1, Zenon DEF SignalsFit
  <1>14. st' \in FrameStates /\ ~err_frm_req' => tec' <= BusOffLimit
    <2>1. g.next \in FrameStates => fc # "bus_off"
      BY <1>4, Zenon DEF SignalsFit
    <2> QED
      BY <1>1, <1>2, <1>4, <2>1, FaultConfinementAssumption DEF SignalsFit
  <1>15. st' = "suspend" => op' = "transmitter" /\ fc' # "bus_off" /\ tec' <= BusOffLimit
    BY <1>1, <1>2, <1>4, <1>5, <1>6, FaultConfinementAssumption DEF SignalsFit
  <1>16. mode.rom => st' \notin Signalling /\ tec' <= BusOffLimit
    BY <1>1, <1>2, <1>4, FaultConfinementAssumption DEF SignalsFit
  <1>17. err_frm_req' /\ op' = "off" => st' \in Signalling
    BY <1>2, <1>4, <1>6, Zenon DEF SignalsFit
  <1>18. err_frm_req' \in BOOLEAN
    BY <1>2, Zenon DEF SignalsFit
  <1>19. err_frm_req' => cmd' = "none" /\ st' \in Holding \cup Blocked
    BY <1>2, Zenon DEF SignalsFit, NoIncrement, CommandOf
  <1>20. st' \in Integration /\ ~err_frm_req' => op' # "transmitter"
    BY <1>2, <1>4, <1>5, <1>6, <1>7, Zenon DEF SignalsFit
  <1>21. st' \in {"reintegrating_wait", "reintegrating"} => op' = "off"
    BY <1>2, <1>4, <1>5, SMTT(30) DEF SignalsFit
  <1> QED
    BY <1>1, <1>2, <1>3, <1>4, <1>5, <1>8, <1>9, <1>10, <1>11, <1>12, <1>13, <1>14, Zenon,
       <1>15, <1>16, <1>17, <1>18, <1>20, <1>21, <1>19 DEF IInv, Types, Roles, Fields, Requests

-----------------------------------------------------------------------------
(* The signals of every state of protocol control fit.                     *)

\* In every state the signals of curr_state_proc fit.
LEMMA SamplePointSignals ==
    ASSUME IInv, SamplePoint
    PROVE  \E rx, tx, g : SignalsFit(g) /\ Detail(rx, tx, g) /\ Sampled(rx, tx, g)
  <1> USE DEF Types, Roles, Fields, Requests, SignalsFit, NoIncrement, Quiet, Signalling,
              Integration, Holding, Blocked, FrameStates, ErrorStates, OverloadStates
  <1>1. CASE Off
    <2> DEFINE G(rx) ==
            Move("integrating", IF rx = "d" THEN IntegrationDuration
                                ELSE IntegrationDuration - 1)
    <2>1. PICK rx \in Bits :
               Sampled(rx, "r", G(rx))
      BY <1>1, Zenon DEF Off
    <2> HIDE DEF G
    <2>2. st = "off"
      BY <1>1, Zenon DEF Off
    <2>3. stage = "process"
      BY <2>1, SampledStage, Zenon
    <2>4. SignalsFit(G(rx))
      BY <2>1, <2>2, <2>3 DEF G, IInv, Move
    <2>5. Detail(rx, "r", G(rx))
      BY <2>1, <2>2, Zenon DEF Detail, G, Move, Bits, States, Loads, Durations
    <2> HIDE DEF SignalsFit
    <2> QED
      BY <2>1, <2>4, <2>5, Zenon
  <1>2. CASE Integrating
    <2> DEFINE G(rx) ==
            [Quiet EXCEPT
              !.next = IF IntegrationCtr(rx) = 0 THEN "idle" ELSE "integrating",
              !.load = IntegrationLoad(rx, FALSE),
              !.set = IF IntegrationCtr(rx) = 0 THEN "idle" ELSE "none",
              !.set_err_active = IntegrationCtr(rx) = 0 /\ fc = "bus_off"]
    <2>1. PICK rx \in Bits :
               Sampled(rx, "r", G(rx))
      BY <1>2, Zenon DEF Integrating
    <2> HIDE DEF G
    <2>2. st = "integrating"
      BY <1>2, Zenon DEF Integrating
    <2>3. stage = "process"
      BY <2>1, SampledStage
    <2>4. SignalsFit(G(rx)) /\ Detail(rx, "r", G(rx))
      <3>1. CASE IntegrationCtr(rx) = 0
        <4>1. G(rx) = [Quiet EXCEPT !.next = "idle", !.load = IntegrationLoad(rx, FALSE),
                           !.set = "idle", !.set_err_active = (fc = "bus_off")]
          BY <3>1, Zenon DEF G
        <4>2. SignalsFit([Quiet EXCEPT !.next = "idle", !.load = IntegrationLoad(rx, FALSE),
                           !.set = "idle", !.set_err_active = (fc = "bus_off")])
          BY <2>1, <2>2, <2>3, <3>1, ZenonT(60) DEF IInv
        <4>3. Detail(rx, "r", [Quiet EXCEPT !.next = "idle", !.load = IntegrationLoad(rx, FALSE),
                           !.set = "idle", !.set_err_active = (fc = "bus_off")])
          BY <2>1, <2>2, <3>1, Zenon DEF Detail, Bits, States, Loads, Durations, CountDown, IntegrationLoad
        <4> HIDE DEF SignalsFit
        <4> QED
          BY <4>1, <4>2, <4>3, Zenon
      <3>2. CASE IntegrationCtr(rx) # 0
        <4>1. G(rx) = [Quiet EXCEPT !.next = "integrating",
                           !.load = IntegrationLoad(rx, FALSE),
                           !.set = "none", !.set_err_active = FALSE]
          BY <3>2, Zenon DEF G
        <4>2. SignalsFit([Quiet EXCEPT !.next = "integrating",
                           !.load = IntegrationLoad(rx, FALSE),
                           !.set = "none", !.set_err_active = FALSE])
          BY <2>1, <2>2, <2>3, <3>2 DEF IInv
        <4>3. Detail(rx, "r", [Quiet EXCEPT !.next = "integrating",
                           !.load = IntegrationLoad(rx, FALSE),
                           !.set = "none", !.set_err_active = FALSE])
          BY <2>1, <2>2, <3>2, Zenon DEF Detail, Bits, States, Loads, Durations, CountDown, IntegrationLoad
        <4> HIDE DEF SignalsFit
        <4> QED
          BY <4>1, <4>2, <4>3, Zenon
      <3> QED
        BY <3>1, <3>2, <2>1, Zenon DEF Bits
    <2> HIDE DEF SignalsFit
    <2> QED
      BY <2>1, <2>4, Zenon
  <1>3. CASE Sof
    <2> DEFINE G(rx) ==
            [Move("arbitration", ArbitrationMax) EXCEPT
              !.err_detected = (rx = "r")]
    <2>1. PICK rx \in Bits :
               Sampled(rx, "d", G(rx))
      BY <1>3, Zenon DEF Sof
    <2> HIDE DEF G
    <2>2. st = "sof"
      BY <1>3, Zenon DEF Sof
    <2>3. stage = "process"
      BY <2>1, SampledStage, Zenon
    <2>4. SignalsFit(G(rx))
      BY <2>1, <2>2, <2>3 DEF G, IInv, Move
    <2>5. Detail(rx, "d", G(rx))
      BY <2>1, <2>2, Zenon DEF Detail, G, Move, Bits, States, Loads, Durations
    <2> HIDE DEF SignalsFit
    <2> QED
      BY <2>1, <2>4, <2>5, Zenon
  <1>4. CASE Arbitration
    <2> DEFINE G(rx, tx, next) ==
            [Move(next, IF next = "body" THEN BodyMax ELSE CountDown) EXCEPT
              !.arbitration_lost = (op = "transmitter" /\ tx = "r" /\ rx = "d"),
              !.err_detected = (tx = "d" /\ rx = "r")]
    <2>1. PICK rx \in Bits, tx \in TxBits, next \in {"arbitration", "body"} :
               Sampled(rx, tx, G(rx, tx, next))
      BY <1>4, Zenon DEF Arbitration
    <2> HIDE DEF G
    <2>2. st = "arbitration"
      BY <1>4, Zenon DEF Arbitration
    <2>3. stage = "process"
      BY <2>1, SampledStage, Zenon
    <2>4. SignalsFit(G(rx, tx, next))
      BY <2>1, <2>2, <2>3 DEF G, IInv, Move
    <2>5. Detail(rx, tx, G(rx, tx, next))
      BY <2>1, <2>2, ZenonT(60) DEF Detail, G, Move, Bits, States, Loads, Durations, CountDown, TxBits, TxDominant
    <2> HIDE DEF SignalsFit
    <2> QED
      BY <2>1, <2>4, <2>5, Zenon
  <1>5. CASE Body
    <2> DEFINE G(rx, tx, next, form_err) ==
            [Move(next, IF next = "integrating" THEN IntegrationDuration
                        ELSE CountDown) EXCEPT
              !.err_detected = (form_err \/ (op = "transmitter" /\ tx # rx))]
    <2>1. PICK rx \in Bits, tx \in TxBits,
               next \in {"body", "crc_delim", "integrating"}, form_err \in BOOLEAN :
               Sampled(rx, tx, G(rx, tx, next, form_err))
               /\ (next = "integrating" \/ form_err =>
                     rx = "r" /\ (op = "transmitter" => tx = "d"))
      BY <1>5, ZenonT(60) DEF Body
    <2> HIDE DEF G
    <2>2. st = "body"
      BY <1>5, Zenon DEF Body
    <2>3. stage = "process"
      BY <2>1, SampledStage, Zenon
    <2>4. SignalsFit(G(rx, tx, next, form_err)) /\ Detail(rx, tx, G(rx, tx, next, form_err))
      <3>1. CASE next = "body"
        <4>1. G(rx, tx, next, form_err) = [Move("body", CountDown) EXCEPT
                     !.err_detected = (form_err \/ (op = "transmitter" /\ tx # rx))]
          BY <3>1, Zenon DEF G
        <4>2. SignalsFit([Move("body", CountDown) EXCEPT
                     !.err_detected = (form_err \/ (op = "transmitter" /\ tx # rx))])
          BY <2>1, <2>2, <2>3, <3>1 DEF IInv, Move
        <4>3. Detail(rx, tx, [Move("body", CountDown) EXCEPT
                     !.err_detected = (form_err \/ (op = "transmitter" /\ tx # rx))])
          BY <2>1, <2>2, <3>1, Zenon DEF Detail, Move, Bits, States, Loads, Durations, CountDown
        <4> HIDE DEF SignalsFit
        <4> QED
          BY <4>1, <4>2, <4>3, Zenon
      <3>2. CASE next = "crc_delim"
        <4>1. G(rx, tx, next, form_err) = [Move("crc_delim", CountDown) EXCEPT
                     !.err_detected = (form_err \/ (op = "transmitter" /\ tx # rx))]
          BY <3>2, Zenon DEF G
        <4>2. SignalsFit([Move("crc_delim", CountDown) EXCEPT
                     !.err_detected = (form_err \/ (op = "transmitter" /\ tx # rx))])
          BY <2>1, <2>2, <2>3, <3>2 DEF IInv, Move
        <4>3. Detail(rx, tx, [Move("crc_delim", CountDown) EXCEPT
                     !.err_detected = (form_err \/ (op = "transmitter" /\ tx # rx))])
          BY <2>1, <2>2, <3>2, Zenon DEF Detail, Move, Bits, States, Loads, Durations, CountDown
        <4> HIDE DEF SignalsFit
        <4> QED
          BY <4>1, <4>2, <4>3, Zenon
      <3>3. CASE next = "integrating"
        <4>1. G(rx, tx, next, form_err) = [Move("integrating", IntegrationDuration) EXCEPT
                     !.err_detected = (form_err \/ (op = "transmitter" /\ tx # rx))]
          BY <3>3, Zenon DEF G
        <4>2. SignalsFit([Move("integrating", IntegrationDuration) EXCEPT
                     !.err_detected = (form_err \/ (op = "transmitter" /\ tx # rx))])
          BY <2>1, <2>2, <2>3, <3>3, ZenonT(30) DEF IInv, Move
        <4>3. Detail(rx, tx, [Move("integrating", IntegrationDuration) EXCEPT
                     !.err_detected = (form_err \/ (op = "transmitter" /\ tx # rx))])
          BY <2>1, <2>2, <3>3, Zenon DEF Detail, Move, Bits, States, Loads, Durations, CountDown
        <4> HIDE DEF SignalsFit
        <4> QED
          BY <4>1, <4>2, <4>3, Zenon
      <3> QED
        BY <3>1, <3>2, <3>3, <2>1, Zenon DEF Bits
    <2> HIDE DEF SignalsFit
    <2> QED
      BY <2>1, <2>4, Zenon
  <1>6. CASE ErrorBetweenSamples
    <2> DEFINE G(unchanged) ==
            [Quiet EXCEPT
              !.err_detected = TRUE, !.err_ctrs_unchanged = unchanged]
    <2>1. PICK unchanged \in BOOLEAN :
               Sampled(rx_prev, "none", G(unchanged))
      BY <1>6, Zenon DEF ErrorBetweenSamples
    <2> HIDE DEF G
    <2>2. st \in {"arbitration", "body"}
      BY <1>6, Zenon DEF ErrorBetweenSamples
    <2>3. stage = "process"
      BY <2>1, SampledStage, Zenon
    <2>4. SignalsFit(G(unchanged))
      BY <2>1, <2>2, <2>3 DEF G, IInv
    <2>5. Detail(rx_prev, "none", G(unchanged))
      BY <2>1, <2>2, Zenon DEF Detail, G, Bits, States, Loads, Durations
    <2> HIDE DEF SignalsFit
    <2> QED
      BY <2>1, <2>4, <2>5, Zenon
  <1>7. CASE CrcDelim
    <2> DEFINE G(rx, next, match) ==
            [Move(next, ctrl_ctr) EXCEPT
              !.crc = match, !.err_detected = (rx = "d")]
    <2>1. PICK rx \in Bits, next \in {"ack", "ack_fd_1"}, match \in BOOLEAN :
               Sampled(rx, "r", G(rx, next, match))
      BY <1>7, Zenon DEF CrcDelim
    <2> HIDE DEF G
    <2>2. st = "crc_delim"
      BY <1>7, Zenon DEF CrcDelim
    <2>3. stage = "process"
      BY <2>1, SampledStage, Zenon
    <2>4. SignalsFit(G(rx, next, match))
      BY <2>1, <2>2, <2>3 DEF G, IInv, Move
    <2>5. Detail(rx, "r", G(rx, next, match))
      BY <2>1, <2>2, Zenon DEF Detail, G, Move, Bits, States, Loads, Durations
    <2> HIDE DEF SignalsFit
    <2> QED
      BY <2>1, <2>4, <2>5, Zenon
  <1>8. CASE Ack
    <2> DEFINE G(rx, tx) ==
            [Move("ack_delim", ctrl_ctr) EXCEPT
              !.decrement_rec = (st # "ack_fd_2" /\ TxDominantAck /\ rx = "d"),
              !.ack_err = AckError(rx = "r"),
              !.err_ctrs_unchanged = (AckError(rx = "r") /\ fc = "passive"),
              !.err_detected = (AckError(rx = "r") \/ (tx = "d" /\ rx = "r"))]
    <2>1. PICK rx \in Bits, tx \in TxBits :
               Sampled(rx, tx, G(rx, tx))
      BY <1>8, Zenon DEF Ack, AckSlot
    <2> HIDE DEF G
    <2>2. st = "ack"
      BY <1>8, Zenon DEF Ack
    <2>3. stage = "process"
      BY <2>1, SampledStage, Zenon
    <2>4. SignalsFit(G(rx, tx))
      BY <2>1, <2>2, <2>3 DEF G, IInv, Move, AckError, TxDominantAck
    <2>5. Detail(rx, tx, G(rx, tx))
      BY <2>1, <2>2 DEF Detail, G, Move, AckError, TxDominantAck, Bits, States, Loads, Durations, TxBits, TxDominant
    <2> HIDE DEF SignalsFit
    <2> QED
      BY <2>1, <2>4, <2>5, Zenon
  <1>9. CASE AckFd1
    <2> DEFINE G(rx, tx) ==
            [Move("ack_fd_2", ctrl_ctr) EXCEPT
              !.decrement_rec = (st # "ack_fd_2" /\ TxDominantAck /\ rx = "d"),
              !.ack_err = FALSE,
              !.err_ctrs_unchanged = (FALSE /\ fc = "passive"),
              !.err_detected = (FALSE \/ (tx = "d" /\ rx = "r"))]
    <2>1. PICK rx \in Bits, tx \in TxBits :
               Sampled(rx, tx, G(rx, tx))
      BY <1>9, Zenon DEF AckFd1, AckSlot
    <2> HIDE DEF G
    <2>2. st = "ack_fd_1"
      BY <1>9, Zenon DEF AckFd1
    <2>3. stage = "process"
      BY <2>1, SampledStage
    <2>4. SignalsFit(G(rx, tx))
      BY <2>1, <2>2, <2>3 DEF G, IInv, Move, TxDominantAck
    <2>5. Detail(rx, tx, G(rx, tx))
      BY <2>1, <2>2, ZenonT(60) DEF Detail, G, Move, TxDominantAck, Bits, States, Loads, Durations, TxBits, TxDominant
    <2> HIDE DEF SignalsFit
    <2> QED
      BY <2>1, <2>4, <2>5
  <1>10. CASE AckFd2
    <2> DEFINE G(rx) ==
            [Move("ack_delim", ctrl_ctr) EXCEPT
              !.decrement_rec = (st # "ack_fd_2" /\ TxDominantAck /\ rx = "d"),
              !.ack_err = AckError(rx = "r" /\ rx_prev = "r"),
              !.err_ctrs_unchanged = (AckError(rx = "r" /\ rx_prev = "r") /\ fc = "passive"),
              !.err_detected = (AckError(rx = "r" /\ rx_prev = "r") \/ ("r" = "d" /\ rx = "r"))]
    <2>1. PICK rx \in Bits :
               Sampled(rx, "r", G(rx))
      BY <1>10, Zenon DEF AckFd2, AckSlot
    <2> HIDE DEF G
    <2>2. st = "ack_fd_2"
      BY <1>10, Zenon DEF AckFd2
    <2>3. stage = "process"
      BY <2>1, SampledStage
    <2>4. SignalsFit(G(rx))
      BY <2>1, <2>2, <2>3 DEF G, IInv, Move, AckError, TxDominantAck
    <2>5. Detail(rx, "r", G(rx))
      BY <2>1, <2>2 DEF Detail, G, Move, AckError, TxDominantAck, Bits, States, Loads, Durations
    <2> HIDE DEF SignalsFit
    <2> QED
      BY <2>1, <2>4, <2>5
  <1>11. CASE AckDelim
    <2> DEFINE G(rx) ==
            [Move("eof", EofDuration) EXCEPT
              !.err_detected = (rx = "d" \/ (op = "receiver" /\ ~crc_match))]
    <2>1. PICK rx \in Bits :
               Sampled(rx, "r", G(rx))
      BY <1>11, Zenon DEF AckDelim
    <2> HIDE DEF G
    <2>2. st = "ack_delim"
      BY <1>11, Zenon DEF AckDelim
    <2>3. stage = "process"
      BY <2>1, SampledStage
    <2>4. SignalsFit(G(rx))
      BY <2>1, <2>2, <2>3 DEF G, IInv, Move
    <2>5. Detail(rx, "r", G(rx))
      BY <2>1, <2>2, Zenon DEF Detail, G, Move, Bits, States, Loads, Durations
    <2> HIDE DEF SignalsFit
    <2> QED
      BY <2>1, <2>4, <2>5
  <1>12. CASE Eof
    <2> DEFINE G(rx) ==
            [(CASE ctrl_ctr # 0 -> Counting
                [] ctrl_ctr = 0 /\ rx = "r" -> Move("intermission", IntermissionDuration)
                [] ctrl_ctr = 0 /\ rx = "d" /\ op = "receiver" -> OverloadFrame
                [] ctrl_ctr = 0 /\ rx = "d" /\ op # "receiver" -> Quiet) EXCEPT
               !.err_detected = EofError(rx),
               !.valid = (ctrl_ctr = 0 /\ rx = "r" /\ op = "transmitter"),
               !.crc = (crc_match /\ ctrl_ctr # 0)]
    <2>1. PICK rx \in Bits :
               Sampled(rx, "r", G(rx))
      BY <1>12, Zenon DEF Eof
    <2> HIDE DEF G
    <2>2. st = "eof"
      BY <1>12, Zenon DEF Eof
    <2>3. stage = "process"
      BY <2>1, SampledStage
    <2>4. SignalsFit(G(rx)) /\ Detail(rx, "r", G(rx))
      <3>1. CASE ctrl_ctr # 0
        <4>1. G(rx) = [Counting EXCEPT !.err_detected = EofError(rx), !.valid = FALSE,
                              !.crc = (crc_match /\ ctrl_ctr # 0)]
          BY <3>1, Zenon DEF G
        <4>2. SignalsFit([Counting EXCEPT !.err_detected = EofError(rx), !.valid = FALSE,
                              !.crc = (crc_match /\ ctrl_ctr # 0)])
          BY <2>1, <2>2, <2>3, <3>1 DEF IInv, Counting, EofError
        <4>3. Detail(rx, "r", [Counting EXCEPT !.err_detected = EofError(rx), !.valid = FALSE,
                              !.crc = (crc_match /\ ctrl_ctr # 0)])
          BY <2>1, <2>2, <3>1, Zenon DEF Detail, Counting, EofError, Bits, States, Loads, Durations
        <4> HIDE DEF SignalsFit
        <4> QED
          BY <4>1, <4>2, <4>3, Zenon
      <3>2. CASE ctrl_ctr = 0 /\ rx = "r"
        <4>1. G(rx) = [Move("intermission", IntermissionDuration) EXCEPT
                     !.err_detected = EofError(rx), !.valid = (op = "transmitter"),
                     !.crc = FALSE]
          BY <3>2, Zenon DEF G
        <4>2. SignalsFit([Move("intermission", IntermissionDuration) EXCEPT
                     !.err_detected = EofError(rx), !.valid = (op = "transmitter"),
                     !.crc = FALSE])
          BY <2>1, <2>2, <2>3, <3>2, ZenonT(30) DEF IInv, Move, EofError
        <4>3. Detail(rx, "r", [Move("intermission", IntermissionDuration) EXCEPT
                     !.err_detected = EofError(rx), !.valid = (op = "transmitter"),
                     !.crc = FALSE])
          BY <2>1, <2>2, <3>2, Zenon DEF Detail, Move, EofError, Bits, States, Loads, Durations
        <4> HIDE DEF SignalsFit
        <4> QED
          BY <4>1, <4>2, <4>3, Zenon
      <3>3. CASE ctrl_ctr = 0 /\ rx = "d" /\ op = "receiver"
        <4>1. G(rx) = [OverloadFrame EXCEPT !.err_detected = EofError(rx),
                                   !.valid = FALSE, !.crc = FALSE]
          BY <3>3, Zenon DEF G
        <4>2. SignalsFit([OverloadFrame EXCEPT !.err_detected = EofError(rx),
                                   !.valid = FALSE, !.crc = FALSE])
          BY <2>1, <2>2, <2>3, <3>3 DEF IInv, OverloadFrame, Move, EofError
        <4>3. Detail(rx, "r", [OverloadFrame EXCEPT !.err_detected = EofError(rx),
                                   !.valid = FALSE, !.crc = FALSE])
          BY <2>1, <2>2, <3>3 DEF Detail, OverloadFrame, Move, EofError, Bits, States, Loads, Durations
        <4> HIDE DEF SignalsFit
        <4> QED
          BY <4>1, <4>2, <4>3, Zenon
      <3>4. CASE ctrl_ctr = 0 /\ rx = "d" /\ op # "receiver"
        <4>1. G(rx) = [Quiet EXCEPT !.err_detected = EofError(rx), !.valid = FALSE,
                           !.crc = FALSE]
          BY <3>4, Zenon DEF G
        <4>2. SignalsFit([Quiet EXCEPT !.err_detected = EofError(rx), !.valid = FALSE,
                           !.crc = FALSE])
          BY <2>1, <2>2, <2>3, <3>4 DEF IInv, EofError
        <4>3. Detail(rx, "r", [Quiet EXCEPT !.err_detected = EofError(rx), !.valid = FALSE,
                           !.crc = FALSE])
          BY <2>1, <2>2, <3>4, Zenon DEF Detail, EofError, Bits, States, Loads, Durations
        <4> HIDE DEF SignalsFit
        <4> QED
          BY <4>1, <4>2, <4>3, Zenon
      <3> QED
        BY <3>1, <3>2, <3>3, <3>4, <2>1, Zenon DEF Bits
    <2> HIDE DEF SignalsFit
    <2> QED
      BY <2>1, <2>4
  <1>13. CASE Intermission
    <2> DEFINE G(rx, how) ==
            LET offer == IF GoToSuspend THEN "none" ELSE how
            IN  CASE IsBusOff -> Move("reintegrating_wait", CountDown)
                  [] ~IsBusOff /\ ctrl_ctr # 0 ->
                       IF rx = "d" THEN OverloadFrame ELSE Counting
                  [] ~IsBusOff /\ ctrl_ctr = 0 /\ (rx = "d" \/ offer # "none") ->
                       StartFrame(rx, offer)
                  [] ~IsBusOff /\ ctrl_ctr = 0 /\ rx = "r" /\ offer = "none" ->
                       IF GoToSuspend THEN Move("suspend", SuspendDuration) ELSE GoIdle
    <2>1. PICK rx \in Bits, how \in Offers :
               Sampled(rx, "r", G(rx, how))
      BY <1>13, Zenon DEF Intermission
    <2> HIDE DEF G
    <2>2. st = "intermission"
      BY <1>13, Zenon DEF Intermission
    <2>3. stage = "process"
      BY <2>1, SampledStage, Zenon
    <2>4. SignalsFit(G(rx, how)) /\ Detail(rx, "r", G(rx, how))
      <3>1. CASE IsBusOff
        <4>1. G(rx, how) = Move("reintegrating_wait", CountDown)
          BY <3>1, Zenon DEF G
        <4>2. SignalsFit(Move("reintegrating_wait", CountDown))
          BY <2>1, <2>2, <2>3, <3>1 DEF IInv, Move, IsBusOff
        <4>3. Detail(rx, "r", Move("reintegrating_wait", CountDown))
          BY <2>1, <2>2, <3>1, Zenon
             DEF Detail, Move, IsBusOff, Bits, States, Loads, Durations, Offers, CountDown
        <4> HIDE DEF SignalsFit
        <4> QED
          BY <4>1, <4>2, <4>3, Zenon
      <3>2. CASE ~IsBusOff /\ ctrl_ctr # 0 /\ rx = "d"
        <4>1. G(rx, how) = OverloadFrame
          BY <3>2, Zenon DEF G
        <4>2. SignalsFit(OverloadFrame)
          BY <2>1, <2>2, <2>3, <3>2 DEF IInv, OverloadFrame, Move, IsBusOff
        <4>3. Detail(rx, "r", OverloadFrame)
          BY <2>1, <2>2, <3>2 DEF Detail, OverloadFrame, Move, IsBusOff, Bits, States, Loads, Durations, Offers, CountDown
        <4> HIDE DEF SignalsFit
        <4> QED
          BY <4>1, <4>2, <4>3, Zenon
      <3>3. CASE ~IsBusOff /\ ctrl_ctr # 0 /\ rx = "r"
        <4>1. G(rx, how) = Counting
          BY <3>3, Zenon DEF G
        <4>2. SignalsFit(Counting)
          BY <2>1, <2>2, <2>3, <3>3 DEF IInv, Counting, IsBusOff
        <4>3. Detail(rx, "r", Counting)
          BY <2>1, <2>2, <3>3, Zenon
             DEF Detail, Counting, IsBusOff, Bits, States, Loads, Durations, Offers, CountDown
        <4> HIDE DEF SignalsFit
        <4> QED
          BY <4>1, <4>2, <4>3, Zenon
      <3>4. CASE ~IsBusOff /\ ctrl_ctr = 0 /\ GoToSuspend /\ rx = "d"
        <4>1. G(rx, how) = StartFrame("d", "none")
          BY <3>4, Zenon DEF G
        <4>2. SignalsFit(StartFrame("d", "none"))
          BY <2>1, <2>2, <2>3, <3>4 DEF IInv, StartFrame, Move, IsBusOff
        <4>3. Detail(rx, "r", StartFrame("d", "none"))
          BY <2>1, <2>2, <3>4 DEF Detail, StartFrame, Move, IsBusOff, Bits, States, Loads, Durations, Offers, CountDown
        <4> HIDE DEF SignalsFit
        <4> QED
          BY <4>1, <4>2, <4>3, Zenon
      <3>5. CASE ~IsBusOff /\ ctrl_ctr = 0 /\ GoToSuspend /\ rx = "r"
        <4>1. G(rx, how) = Move("suspend", SuspendDuration)
          BY <3>5, Zenon DEF G
        <4>2. SignalsFit(Move("suspend", SuspendDuration))
          BY <2>1, <2>2, <2>3, <3>5 DEF IInv, Move, IsBusOff, GoToSuspend
        <4>3. Detail(rx, "r", Move("suspend", SuspendDuration))
          BY <2>1, <2>2, <3>5, Zenon
             DEF Detail, Move, IsBusOff, GoToSuspend, Bits, States, Loads, Durations, Offers, CountDown
        <4> HIDE DEF SignalsFit
        <4> QED
          BY <4>1, <4>2, <4>3, Zenon
      <3>6. CASE ~IsBusOff /\ ctrl_ctr = 0 /\ ~GoToSuspend /\ (rx = "d" \/ how # "none")
        <4>1. G(rx, how) = StartFrame(rx, how)
          BY <3>6, Zenon DEF G
        <4>2. SignalsFit(StartFrame(rx, how))
          BY <2>1, <2>2, <2>3, <3>6 DEF IInv, StartFrame, Lock, Move, IsBusOff
        <4>3. Detail(rx, "r", StartFrame(rx, how))
          BY <2>1, <2>2, <3>6 DEF Detail, StartFrame, Lock, Move, IsBusOff, Bits, States, Loads, Durations, Offers, CountDown
        <4> HIDE DEF SignalsFit
        <4> QED
          BY <4>1, <4>2, <4>3, Zenon
      <3>7. CASE ~IsBusOff /\ ctrl_ctr = 0 /\ ~GoToSuspend /\ rx = "r" /\ how = "none"
        <4>1. G(rx, how) = GoIdle
          BY <3>7, Zenon DEF G
        <4>2. SignalsFit(GoIdle)
          BY <2>1, <2>2, <2>3, <3>7 DEF IInv, GoIdle, Move, IsBusOff
        <4>3. Detail(rx, "r", GoIdle)
          BY <2>1, <2>2, <3>7, Zenon
             DEF Detail, GoIdle, Move, IsBusOff, Bits, States, Loads, Durations, Offers, CountDown
        <4> HIDE DEF SignalsFit
        <4> QED
          BY <4>1, <4>2, <4>3
      <3> QED
        BY <3>1, <3>2, <3>3, <3>4, <3>5, <3>6, <3>7, <2>1, Zenon DEF Bits
    <2> HIDE DEF SignalsFit
    <2> QED
      BY <2>1, <2>4, Zenon
  <1>14. CASE Suspend
    <2> DEFINE G(rx, how) ==
            CASE rx = "d" -> StartFrame("d", "none")
              [] rx = "r" /\ ctrl_ctr # 0 -> Counting
              [] rx = "r" /\ ctrl_ctr = 0 ->
                   IF how # "none" THEN StartFrame("r", how) ELSE GoIdle
    <2>1. PICK rx \in Bits, how \in Offers :
               Sampled(rx, "r", G(rx, how))
      BY <1>14, Zenon DEF Suspend
    <2> HIDE DEF G
    <2>2. st = "suspend"
      BY <1>14, Zenon DEF Suspend
    <2>3. stage = "process"
      BY <2>1, SampledStage
    <2>4. SignalsFit(G(rx, how)) /\ Detail(rx, "r", G(rx, how))
      <3>1. CASE rx = "d"
        <4>1. G(rx, how) = StartFrame("d", "none")
          BY <3>1, Zenon DEF G
        <4>2. SignalsFit(StartFrame("d", "none"))
          BY <2>1, <2>2, <2>3, <3>1 DEF IInv, StartFrame, Move
        <4>3. Detail(rx, "r", StartFrame("d", "none"))
          BY <2>1, <2>2, <3>1, Zenon DEF Detail, StartFrame, Move, Bits, States, Loads, Durations, Offers
        <4> HIDE DEF SignalsFit
        <4> QED
          BY <4>1, <4>2, <4>3
      <3>2. CASE rx = "r" /\ ctrl_ctr # 0
        <4>1. G(rx, how) = Counting
          BY <3>2, Zenon DEF G
        <4>2. SignalsFit(Counting)
          BY <2>1, <2>2, <2>3, <3>2 DEF IInv, Counting
        <4>3. Detail(rx, "r", Counting)
          BY <2>1, <2>2, <3>2, Zenon DEF Detail, Counting, Bits, States, Loads, Durations, Offers
        <4> HIDE DEF SignalsFit
        <4> QED
          BY <4>1, <4>2, <4>3
      <3>3. CASE rx = "r" /\ ctrl_ctr = 0 /\ how # "none"
        <4>1. G(rx, how) = StartFrame("r", how)
          BY <3>3, Zenon DEF G
        <4>2. SignalsFit(StartFrame("r", how))
          BY <2>1, <2>2, <2>3, <3>3 DEF IInv, StartFrame, Lock
        <4>3. Detail(rx, "r", StartFrame("r", how))
          BY <2>1, <2>2, <3>3, Zenon DEF Detail, StartFrame, Lock, Bits, States, Loads, Durations, Offers
        <4> HIDE DEF SignalsFit
        <4> QED
          BY <4>1, <4>2, <4>3, Zenon
      <3>4. CASE rx = "r" /\ ctrl_ctr = 0 /\ how = "none"
        <4>1. G(rx, how) = GoIdle
          BY <3>4, Zenon DEF G
        <4>2. SignalsFit(GoIdle)
          BY <2>1, <2>2, <2>3, <3>4 DEF IInv, GoIdle, Move
        <4>3. Detail(rx, "r", GoIdle)
          BY <2>1, <2>2, <3>4, Zenon DEF Detail, GoIdle, Move, Bits, States, Loads, Durations, Offers
        <4> HIDE DEF SignalsFit
        <4> QED
          BY <4>1, <4>2, <4>3
      <3> QED
        BY <3>1, <3>2, <3>3, <3>4, <2>1, Zenon DEF Bits
    <2> HIDE DEF SignalsFit
    <2> QED
      BY <2>1, <2>4
  <1>15. CASE Idle
    <2> DEFINE G(rx, how) ==
            CASE IsBusOff -> Move("reintegrating_wait", ctrl_ctr)
              [] ~IsBusOff /\ (rx = "d" \/ how # "none") -> StartFrame(rx, how)
              [] ~IsBusOff /\ rx = "r" /\ how = "none" -> Quiet
    <2>1. PICK rx \in Bits, how \in Offers :
               Sampled(rx, "r", G(rx, how))
      BY <1>15, Zenon DEF Idle
    <2> HIDE DEF G
    <2>2. st = "idle"
      BY <1>15, Zenon DEF Idle
    <2>3. stage = "process"
      BY <2>1, SampledStage
    <2>4. SignalsFit(G(rx, how)) /\ Detail(rx, "r", G(rx, how))
      <3>1. CASE IsBusOff
        <4>1. G(rx, how) = Move("reintegrating_wait", ctrl_ctr)
          BY <3>1, Zenon DEF G
        <4>2. SignalsFit(Move("reintegrating_wait", ctrl_ctr))
          BY <2>1, <2>2, <2>3, <3>1 DEF IInv, Move, IsBusOff
        <4>3. Detail(rx, "r", Move("reintegrating_wait", ctrl_ctr))
          BY <2>1, <2>2, <3>1, Zenon DEF Detail, Move, IsBusOff, Bits, States, Loads, Durations, Offers
        <4> HIDE DEF SignalsFit
        <4> QED
          BY <4>1, <4>2, <4>3, Zenon
      <3>2. CASE ~IsBusOff /\ (rx = "d" \/ how # "none")
        <4>1. G(rx, how) = StartFrame(rx, how)
          BY <3>2, Zenon DEF G
        <4>2. SignalsFit(StartFrame(rx, how))
          BY <2>1, <2>2, <2>3, <3>2 DEF IInv, StartFrame, Lock, Move, IsBusOff
        <4>3. Detail(rx, "r", StartFrame(rx, how))
          BY <2>1, <2>2, <3>2 DEF Detail, StartFrame, Lock, Move, IsBusOff, Bits, States, Loads, Durations, Offers
        <4> HIDE DEF SignalsFit
        <4> QED
          BY <4>1, <4>2, <4>3
      <3>3. CASE ~IsBusOff /\ rx = "r" /\ how = "none"
        <4>1. G(rx, how) = Quiet
          BY <3>3, ZenonT(40) DEF G
        <4>2. SignalsFit(Quiet)
          BY <2>1, <2>2, <2>3, <3>3, ZenonT(30) DEF IInv, IsBusOff
        <4>3. Detail(rx, "r", Quiet)
          BY <2>1, <2>2, <3>3, Zenon DEF Detail, IsBusOff, Bits, States, Loads, Durations, Offers
        <4> HIDE DEF SignalsFit
        <4> QED
          BY <4>1, <4>2, <4>3, Zenon
      <3> QED
        BY <3>1, <3>2, <3>3, <2>1, Zenon DEF Bits
    <2> HIDE DEF SignalsFit
    <2> QED
      BY <2>1, <2>4
  <1>16. CASE ReintegratingWait
    <2> DEFINE G(rx) ==
            IF ercrst THEN Move("reintegrating", IntegrationDuration)
            ELSE Quiet
    <2>1. PICK rx \in Bits :
               Sampled(rx, "r", G(rx))
      BY <1>16, Zenon DEF ReintegratingWait
    <2> HIDE DEF G
    <2>2. st = "reintegrating_wait"
      BY <1>16, Zenon DEF ReintegratingWait
    <2>3. stage = "process"
      BY <2>1, SampledStage
    <2>4. SignalsFit(G(rx))
      BY <2>1, <2>2, <2>3 DEF G, IInv, Move
    <2>5. Detail(rx, "r", G(rx))
      BY <2>1, <2>2, Zenon DEF Detail, G, Move, Bits, States, Loads, Durations
    <2> HIDE DEF SignalsFit
    <2> QED
      BY <2>1, <2>4, <2>5
  <1>17. CASE Reintegrating
    <2> DEFINE G(rx) ==
            [Quiet EXCEPT
               !.next = IF IntegrationCtr(rx) = 0 /\ ReintegExpired
                        THEN "idle" ELSE "reintegrating",
               !.load = IntegrationLoad(rx, IntegrationCtr(rx) = 0),
               !.counted = (IntegrationCtr(rx) = 0),
               !.set = IF IntegrationCtr(rx) = 0 /\ ReintegExpired
                       THEN "idle" ELSE "none",
               !.set_err_active = (IntegrationCtr(rx) = 0 /\ ReintegExpired)]
    <2>1. PICK rx \in Bits :
               Sampled(rx, "r", G(rx))
      BY <1>17, Zenon DEF Reintegrating
    <2> HIDE DEF G
    <2>2. st = "reintegrating"
      BY <1>17, Zenon DEF Reintegrating
    <2>3. stage = "process"
      BY <2>1, SampledStage
    <2>4. SignalsFit(G(rx)) /\ Detail(rx, "r", G(rx))
      <3>1. CASE IntegrationCtr(rx) = 0 /\ ReintegExpired
        <4>1. G(rx) = [Quiet EXCEPT
                     !.next = "idle",
                     !.load = IntegrationLoad(rx, IntegrationCtr(rx) = 0),
                     !.counted = (IntegrationCtr(rx) = 0),
                     !.set = "idle", !.set_err_active = TRUE]
          BY <3>1, Zenon DEF G
        <4>2. SignalsFit([Quiet EXCEPT
                     !.next = "idle",
                     !.load = IntegrationLoad(rx, IntegrationCtr(rx) = 0),
                     !.counted = (IntegrationCtr(rx) = 0),
                     !.set = "idle", !.set_err_active = TRUE])
          BY <2>1, <2>2, <2>3, <3>1 DEF IInv
        <4>3. Detail(rx, "r", [Quiet EXCEPT
                     !.next = "idle",
                     !.load = IntegrationLoad(rx, IntegrationCtr(rx) = 0),
                     !.counted = (IntegrationCtr(rx) = 0),
                     !.set = "idle", !.set_err_active = TRUE])
          BY <2>1, <2>2, <3>1, Zenon DEF Detail, Bits, States, Loads, Durations, CountDown, IntegrationLoad
        <4> HIDE DEF SignalsFit
        <4> QED
          BY <4>1, <4>2, <4>3, Zenon
      <3>2. CASE ~(IntegrationCtr(rx) = 0 /\ ReintegExpired)
        <4>1. G(rx) = [Quiet EXCEPT
                     !.next = "reintegrating",
                     !.load = IntegrationLoad(rx, IntegrationCtr(rx) = 0),
                     !.counted = (IntegrationCtr(rx) = 0),
                     !.set = "none", !.set_err_active = FALSE]
          BY <3>2, Zenon DEF G
        <4>2. SignalsFit([Quiet EXCEPT
                     !.next = "reintegrating",
                     !.load = IntegrationLoad(rx, IntegrationCtr(rx) = 0),
                     !.counted = (IntegrationCtr(rx) = 0),
                     !.set = "none", !.set_err_active = FALSE])
          BY <2>1, <2>2, <2>3, <3>2 DEF IInv
        <4>3. Detail(rx, "r", [Quiet EXCEPT
                     !.next = "reintegrating",
                     !.load = IntegrationLoad(rx, IntegrationCtr(rx) = 0),
                     !.counted = (IntegrationCtr(rx) = 0),
                     !.set = "none", !.set_err_active = FALSE])
          BY <2>1, <2>2, <3>2, Zenon DEF Detail, Bits, States, Loads, Durations, CountDown, IntegrationLoad
        <4> HIDE DEF SignalsFit
        <4> QED
          BY <4>1, <4>2, <4>3, Zenon
      <3> QED
        BY <3>1, <3>2, <2>1, Zenon DEF Bits
    <2> HIDE DEF SignalsFit
    <2> QED
      BY <2>1, <2>4
  <1>18. CASE ActErrFlag
    <2> DEFINE G(rx) ==
            [(IF ctrl_ctr = 0 THEN Move("err_delim_wait", DelimWaitDuration)
              ELSE Counting) EXCEPT !.first_err_delim = (ctrl_ctr = 0),
                                    !.err_detected = (rx = "r")]
    <2>1. PICK rx \in Bits :
               Sampled(rx, "d", G(rx))
      BY <1>18, Zenon DEF ActErrFlag
    <2> HIDE DEF G
    <2>2. st = "act_err_flag"
      BY <1>18, Zenon DEF ActErrFlag
    <2>3. stage = "process"
      BY <2>1, SampledStage
    <2>4. SignalsFit(G(rx))
      BY <2>1, <2>2, <2>3 DEF G, IInv, Move, Counting
    <2>5. Detail(rx, "d", G(rx))
      BY <2>1, <2>2, Zenon DEF Detail, G, Move, Counting, Bits, States, Loads, Durations
    <2> HIDE DEF SignalsFit
    <2> QED
      BY <2>1, <2>4, <2>5
  <1>19. CASE PasErrFlag
    <2> DEFINE G(rx) ==
            [(CASE PasErrFlagRestarts(rx) -> Move("pas_err_flag", ErrFlgDuration - 1)
                [] ~PasErrFlagRestarts(rx) /\ ctrl_ctr = 0 ->
                     Move("err_delim_wait", DelimWaitDuration)
                [] ~PasErrFlagRestarts(rx) /\ ctrl_ctr # 0 -> Counting) EXCEPT
               !.first_err_delim = (~PasErrFlagRestarts(rx) /\ ctrl_ctr = 0),
               !.bit_err_after_ack_err = (ack_err_flag /\ rx = "d")]
    <2>1. PICK rx \in Bits :
               Sampled(rx, "r", G(rx))
      BY <1>19, Zenon DEF PasErrFlag
    <2> HIDE DEF G
    <2>2. st = "pas_err_flag"
      BY <1>19, Zenon DEF PasErrFlag
    <2>3. stage = "process"
      BY <2>1, SampledStage
    <2>4. SignalsFit(G(rx)) /\ Detail(rx, "r", G(rx))
      <3>1. CASE PasErrFlagRestarts(rx)
        <4>1. G(rx) = [Move("pas_err_flag", ErrFlgDuration - 1) EXCEPT
                     !.first_err_delim = (~PasErrFlagRestarts(rx) /\ ctrl_ctr = 0),
                     !.bit_err_after_ack_err = (ack_err_flag /\ rx = "d")]
          BY <3>1, Zenon DEF G
        <4>2. SignalsFit([Move("pas_err_flag", ErrFlgDuration - 1) EXCEPT
                     !.first_err_delim = (~PasErrFlagRestarts(rx) /\ ctrl_ctr = 0),
                     !.bit_err_after_ack_err = (ack_err_flag /\ rx = "d")])
          BY <2>1, <2>2, <2>3, <3>1 DEF IInv, Move
        <4>3. Detail(rx, "r", [Move("pas_err_flag", ErrFlgDuration - 1) EXCEPT
                     !.first_err_delim = (~PasErrFlagRestarts(rx) /\ ctrl_ctr = 0),
                     !.bit_err_after_ack_err = (ack_err_flag /\ rx = "d")])
          BY <2>1, <2>2, <3>1, Zenon DEF Detail, Move, Bits, States, Loads, Durations
        <4> HIDE DEF SignalsFit
        <4> QED
          BY <4>1, <4>2, <4>3, Zenon
      <3>2. CASE ~PasErrFlagRestarts(rx) /\ ctrl_ctr = 0
        <4>1. G(rx) = [Move("err_delim_wait", DelimWaitDuration) EXCEPT
                     !.first_err_delim = (~PasErrFlagRestarts(rx) /\ ctrl_ctr = 0),
                     !.bit_err_after_ack_err = (ack_err_flag /\ rx = "d")]
          BY <3>2, Zenon DEF G
        <4>2. SignalsFit([Move("err_delim_wait", DelimWaitDuration) EXCEPT
                     !.first_err_delim = (~PasErrFlagRestarts(rx) /\ ctrl_ctr = 0),
                     !.bit_err_after_ack_err = (ack_err_flag /\ rx = "d")])
          BY <2>1, <2>2, <2>3, <3>2 DEF IInv, Move
        <4>3. Detail(rx, "r", [Move("err_delim_wait", DelimWaitDuration) EXCEPT
                     !.first_err_delim = (~PasErrFlagRestarts(rx) /\ ctrl_ctr = 0),
                     !.bit_err_after_ack_err = (ack_err_flag /\ rx = "d")])
          BY <2>1, <2>2, <3>2, Zenon DEF Detail, Move, Bits, States, Loads, Durations
        <4> HIDE DEF SignalsFit
        <4> QED
          BY <4>1, <4>2, <4>3, Zenon
      <3>3. CASE ~PasErrFlagRestarts(rx) /\ ctrl_ctr # 0
        <4>1. G(rx) = [Counting EXCEPT
                     !.first_err_delim = (~PasErrFlagRestarts(rx) /\ ctrl_ctr = 0),
                     !.bit_err_after_ack_err = (ack_err_flag /\ rx = "d")]
          BY <3>3, Zenon DEF G
        <4>2. SignalsFit([Counting EXCEPT
                     !.first_err_delim = (~PasErrFlagRestarts(rx) /\ ctrl_ctr = 0),
                     !.bit_err_after_ack_err = (ack_err_flag /\ rx = "d")])
          BY <2>1, <2>2, <2>3, <3>3 DEF IInv, Counting
        <4>3. Detail(rx, "r", [Counting EXCEPT
                     !.first_err_delim = (~PasErrFlagRestarts(rx) /\ ctrl_ctr = 0),
                     !.bit_err_after_ack_err = (ack_err_flag /\ rx = "d")])
          BY <2>1, <2>2, <3>3, Zenon DEF Detail, Counting, Bits, States, Loads, Durations
        <4> HIDE DEF SignalsFit
        <4> QED
          BY <4>1, <4>2, <4>3, Zenon
      <3> QED
        BY <3>1, <3>2, <3>3, <2>1, Zenon DEF Bits
    <2> HIDE DEF SignalsFit
    <2> QED
      BY <2>1, <2>4
  <1>20. CASE ErrDelimWait
    <2> DEFINE G(rx) ==
            [DelimWait(rx, "err_delim", ErrDelimDuration, "err_flag_too_long") EXCEPT
               !.primary_err = (rx = "d" /\ first_err_delim)]
    <2>1. PICK rx \in Bits :
               Sampled(rx, "r", G(rx))
      BY <1>20, Zenon DEF ErrDelimWait
    <2> HIDE DEF G
    <2>2. st = "err_delim_wait"
      BY <1>20, Zenon DEF ErrDelimWait
    <2>3. stage = "process"
      BY <2>1, SampledStage
    <2>4. SignalsFit(G(rx)) /\ Detail(rx, "r", G(rx))
      <3>1. CASE rx = "r"
        <4>1. G(rx) = [Move("err_delim", ErrDelimDuration) EXCEPT !.primary_err = FALSE]
          BY <3>1, Zenon DEF G, DelimWait
        <4>2. SignalsFit([Move("err_delim", ErrDelimDuration) EXCEPT !.primary_err = FALSE])
          BY <2>1, <2>2, <2>3, <3>1 DEF IInv, Move
        <4>3. Detail(rx, "r", [Move("err_delim", ErrDelimDuration) EXCEPT !.primary_err = FALSE])
          BY <2>1, <2>2, <3>1, Zenon DEF Detail, Move, Bits, States, Loads, Durations
        <4> HIDE DEF SignalsFit
        <4> QED
          BY <4>1, <4>2, <4>3, Zenon
      <3>2. CASE rx = "d" /\ ctrl_ctr = 0
        <4>1. G(rx) = [Move("err_flag_too_long", ctrl_ctr) EXCEPT
                     !.primary_err = (rx = "d" /\ first_err_delim)]
          BY <3>2, Zenon DEF G, DelimWait
        <4>2. SignalsFit([Move("err_flag_too_long", ctrl_ctr) EXCEPT
                     !.primary_err = (rx = "d" /\ first_err_delim)])
          BY <2>1, <2>2, <2>3, <3>2 DEF IInv, Move
        <4>3. Detail(rx, "r", [Move("err_flag_too_long", ctrl_ctr) EXCEPT
                     !.primary_err = (rx = "d" /\ first_err_delim)])
          BY <2>1, <2>2, <3>2, Zenon DEF Detail, Move, Bits, States, Loads, Durations
        <4> HIDE DEF SignalsFit
        <4> QED
          BY <4>1, <4>2, <4>3, Zenon
      <3>3. CASE rx = "d" /\ ctrl_ctr # 0
        <4>1. G(rx) = [Counting EXCEPT !.primary_err = (rx = "d" /\ first_err_delim)]
          BY <3>3, Zenon DEF G, DelimWait
        <4>2. SignalsFit([Counting EXCEPT !.primary_err = (rx = "d" /\ first_err_delim)])
          BY <2>1, <2>2, <2>3, <3>3 DEF IInv, Counting
        <4>3. Detail(rx, "r", [Counting EXCEPT !.primary_err = (rx = "d" /\ first_err_delim)])
          BY <2>1, <2>2, <3>3, Zenon DEF Detail, Counting, Bits, States, Loads, Durations
        <4> HIDE DEF SignalsFit
        <4> QED
          BY <4>1, <4>2, <4>3, Zenon
      <3> QED
        BY <3>1, <3>2, <3>3, <2>1, Zenon DEF Bits
    <2> HIDE DEF SignalsFit
    <2> QED
      BY <2>1, <2>4
  <1>21. CASE ErrFlagTooLong
    <2> DEFINE G(rx) ==
            FlagTooLong(rx, "err_delim", ErrDelimDuration)
    <2>1. PICK rx \in Bits :
               Sampled(rx, "r", G(rx))
      BY <1>21, Zenon DEF ErrFlagTooLong
    <2> HIDE DEF G
    <2>2. st = "err_flag_too_long"
      BY <1>21, Zenon DEF ErrFlagTooLong
    <2>3. stage = "process"
      BY <2>1, SampledStage
    <2>4. SignalsFit(G(rx)) /\ Detail(rx, "r", G(rx))
      <3>1. CASE rx = "r"
        <4>1. G(rx) = Move("err_delim", ErrDelimDuration)
          BY <3>1, Zenon DEF G, FlagTooLong
        <4>2. SignalsFit(Move("err_delim", ErrDelimDuration))
          BY <2>1, <2>2, <2>3, <3>1, Zenon DEF IInv, Move
        <4>3. Detail(rx, "r", Move("err_delim", ErrDelimDuration))
          BY <2>1, <2>2, <3>1, Zenon DEF Detail, Move, Bits, States, Loads, Durations
        <4> HIDE DEF SignalsFit
        <4> QED
          BY <4>1, <4>2, <4>3, Zenon
      <3>2. CASE rx = "d" /\ ctrl_ctr = 0
        <4>1. G(rx) = [Quiet EXCEPT !.load = DominantRepeatDuration, !.err_delim_late = TRUE]
          BY <3>2, Zenon DEF G, FlagTooLong
        <4>2. SignalsFit([Quiet EXCEPT !.load = DominantRepeatDuration, !.err_delim_late = TRUE])
          BY <2>1, <2>2, <2>3, <3>2 DEF IInv
        <4>3. Detail(rx, "r", [Quiet EXCEPT !.load = DominantRepeatDuration, !.err_delim_late = TRUE])
          BY <2>1, <2>2, <3>2, Zenon DEF Detail, Bits, States, Loads, Durations
        <4> HIDE DEF SignalsFit
        <4> QED
          BY <4>1, <4>2, <4>3, Zenon
      <3>3. CASE rx = "d" /\ ctrl_ctr # 0
        <4>1. G(rx) = Counting
          BY <3>3, Zenon DEF G, FlagTooLong
        <4>2. SignalsFit(Counting)
          BY <2>1, <2>2, <2>3, <3>3 DEF IInv, Counting
        <4>3. Detail(rx, "r", Counting)
          BY <2>1, <2>2, <3>3, Zenon DEF Detail, Counting, Bits, States, Loads, Durations
        <4> HIDE DEF SignalsFit
        <4> QED
          BY <4>1, <4>2, <4>3, Zenon
      <3> QED
        BY <3>1, <3>2, <3>3, <2>1, Zenon DEF Bits
    <2> HIDE DEF SignalsFit
    <2> QED
      BY <2>1, <2>4
  <1>22. CASE Delim
    <2> DEFINE G(rx) ==
            CASE ctrl_ctr # 0 -> [Counting EXCEPT !.err_detected = (rx = "d")]
              [] ctrl_ctr = 0 /\ rx = "d" -> Move("ovr_flag", OvrFlgDuration)
              [] ctrl_ctr = 0 /\ rx = "r" -> Move("intermission", IntermissionDuration)
    <2>1. PICK rx \in Bits :
               Sampled(rx, "r", G(rx))
      BY <1>22, Zenon DEF Delim
    <2> HIDE DEF G
    <2>2. st \in {"err_delim", "ovr_delim"}
      BY <1>22, Zenon DEF Delim
    <2>3. stage = "process"
      BY <2>1, SampledStage
    <2>4. SignalsFit(G(rx)) /\ Detail(rx, "r", G(rx))
      <3>1. CASE ctrl_ctr # 0
        <4>1. G(rx) = [Counting EXCEPT !.err_detected = (rx = "d")]
          BY <3>1, Zenon DEF G
        <4>2. SignalsFit([Counting EXCEPT !.err_detected = (rx = "d")])
          BY <2>1, <2>2, <2>3, <3>1, Zenon DEF IInv, Counting
        <4>3. Detail(rx, "r", [Counting EXCEPT !.err_detected = (rx = "d")])
          BY <2>1, <2>2, <3>1, Zenon DEF Detail, Counting, Bits, States, Loads, Durations
        <4> HIDE DEF SignalsFit
        <4> QED
          BY <4>1, <4>2, <4>3, Zenon
      <3>2. CASE ctrl_ctr = 0 /\ rx = "d"
        <4>1. G(rx) = Move("ovr_flag", OvrFlgDuration)
          BY <3>2, Zenon DEF G
        <4>2. SignalsFit(Move("ovr_flag", OvrFlgDuration))
          BY <2>1, <2>2, <2>3, <3>2 DEF IInv, Move
        <4>3. Detail(rx, "r", Move("ovr_flag", OvrFlgDuration))
          BY <2>1, <2>2, <3>2, Zenon DEF Detail, Move, Bits, States, Loads, Durations
        <4> HIDE DEF SignalsFit
        <4> QED
          BY <4>1, <4>2, <4>3, Zenon
      <3>3. CASE ctrl_ctr = 0 /\ rx = "r"
        <4>1. G(rx) = Move("intermission", IntermissionDuration)
          BY <3>3, Zenon DEF G
        <4>2. SignalsFit(Move("intermission", IntermissionDuration))
          BY <2>1, <2>2, <2>3, <3>3, Zenon DEF IInv, Move
        <4>3. Detail(rx, "r", Move("intermission", IntermissionDuration))
          BY <2>1, <2>2, <3>3, Zenon DEF Detail, Move, Bits, States, Loads, Durations
        <4> HIDE DEF SignalsFit
        <4> QED
          BY <4>1, <4>2, <4>3, Zenon
      <3> QED
        BY <3>1, <3>2, <3>3, <2>1, Zenon DEF Bits
    <2> HIDE DEF SignalsFit
    <2> QED
      BY <2>1, <2>4
  <1>23. CASE OvrFlag
    <2> DEFINE G(rx) ==
            [(IF ctrl_ctr = 0 THEN Move("ovr_delim_wait", DelimWaitDuration)
              ELSE Counting) EXCEPT !.err_detected = (rx = "r")]
    <2>1. PICK rx \in Bits :
               Sampled(rx, "d", G(rx))
      BY <1>23, Zenon DEF OvrFlag
    <2> HIDE DEF G
    <2>2. st = "ovr_flag"
      BY <1>23, Zenon DEF OvrFlag
    <2>3. stage = "process"
      BY <2>1, SampledStage
    <2>4. SignalsFit(G(rx))
      BY <2>1, <2>2, <2>3 DEF G, IInv, Move, Counting
    <2>5. Detail(rx, "d", G(rx))
      BY <2>1, <2>2, Zenon DEF Detail, G, Move, Counting, Bits, States, Loads, Durations
    <2> HIDE DEF SignalsFit
    <2> QED
      BY <2>1, <2>4, <2>5
  <1>24. CASE OvrDelimWait
    <2> DEFINE G(rx) ==
            DelimWait(rx, "ovr_delim", OvrDelimDuration, "ovr_flag_too_long")
    <2>1. PICK rx \in Bits :
               Sampled(rx, "r", G(rx))
      BY <1>24, Zenon DEF OvrDelimWait
    <2> HIDE DEF G
    <2>2. st = "ovr_delim_wait"
      BY <1>24, Zenon DEF OvrDelimWait
    <2>3. stage = "process"
      BY <2>1, SampledStage
    <2>4. SignalsFit(G(rx)) /\ Detail(rx, "r", G(rx))
      <3>1. CASE rx = "r"
        <4>1. G(rx) = Move("ovr_delim", OvrDelimDuration)
          BY <3>1, Zenon DEF G, DelimWait
        <4>2. SignalsFit(Move("ovr_delim", OvrDelimDuration))
          BY <2>1, <2>2, <2>3, <3>1, Zenon DEF IInv, Move
        <4>3. Detail(rx, "r", Move("ovr_delim", OvrDelimDuration))
          BY <2>1, <2>2, <3>1, Zenon DEF Detail, Move, Bits, States, Loads, Durations
        <4> HIDE DEF SignalsFit
        <4> QED
          BY <4>1, <4>2, <4>3, Zenon
      <3>2. CASE rx = "d" /\ ctrl_ctr = 0
        <4>1. G(rx) = Move("ovr_flag_too_long", ctrl_ctr)
          BY <3>2, Zenon DEF G, DelimWait
        <4>2. SignalsFit(Move("ovr_flag_too_long", ctrl_ctr))
          BY <2>1, <2>2, <2>3, <3>2, Zenon DEF IInv, Move
        <4>3. Detail(rx, "r", Move("ovr_flag_too_long", ctrl_ctr))
          BY <2>1, <2>2, <3>2, Zenon DEF Detail, Move, Bits, States, Loads, Durations
        <4> HIDE DEF SignalsFit
        <4> QED
          BY <4>1, <4>2, <4>3, Zenon
      <3>3. CASE rx = "d" /\ ctrl_ctr # 0
        <4>1. G(rx) = Counting
          BY <3>3, Zenon DEF G, DelimWait
        <4>2. SignalsFit(Counting)
          BY <2>1, <2>2, <2>3, <3>3 DEF IInv, Counting
        <4>3. Detail(rx, "r", Counting)
          BY <2>1, <2>2, <3>3, Zenon DEF Detail, Counting, Bits, States, Loads, Durations
        <4> HIDE DEF SignalsFit
        <4> QED
          BY <4>1, <4>2, <4>3
      <3> QED
        BY <3>1, <3>2, <3>3, <2>1, Zenon DEF Bits
    <2> HIDE DEF SignalsFit
    <2> QED
      BY <2>1, <2>4
  <1>25. CASE OvrFlagTooLong
    <2> DEFINE G(rx) ==
            FlagTooLong(rx, "ovr_delim", OvrDelimDuration)
    <2>1. PICK rx \in Bits :
               Sampled(rx, "r", G(rx))
      BY <1>25, Zenon DEF OvrFlagTooLong
    <2> HIDE DEF G
    <2>2. st = "ovr_flag_too_long"
      BY <1>25, Zenon DEF OvrFlagTooLong
    <2>3. stage = "process"
      BY <2>1, SampledStage
    <2>4. SignalsFit(G(rx)) /\ Detail(rx, "r", G(rx))
      <3>1. CASE rx = "r"
        <4>1. G(rx) = Move("ovr_delim", OvrDelimDuration)
          BY <3>1, Zenon DEF G, FlagTooLong
        <4>2. SignalsFit(Move("ovr_delim", OvrDelimDuration))
          BY <2>1, <2>2, <2>3, <3>1, Zenon DEF IInv, Move
        <4>3. Detail(rx, "r", Move("ovr_delim", OvrDelimDuration))
          BY <2>1, <2>2, <3>1 DEF Detail, Move, Bits, States, Loads, Durations
        <4> HIDE DEF SignalsFit
        <4> QED
          BY <4>1, <4>2, <4>3
      <3>2. CASE rx = "d" /\ ctrl_ctr = 0
        <4>1. G(rx) = [Quiet EXCEPT !.load = DominantRepeatDuration, !.err_delim_late = TRUE]
          BY <3>2, Zenon DEF G, FlagTooLong
        <4>2. SignalsFit([Quiet EXCEPT !.load = DominantRepeatDuration, !.err_delim_late = TRUE])
          BY <2>1, <2>2, <2>3, <3>2 DEF IInv
        <4>3. Detail(rx, "r", [Quiet EXCEPT !.load = DominantRepeatDuration, !.err_delim_late = TRUE])
          BY <2>1, <2>2, <3>2, Zenon DEF Detail, Bits, States, Loads, Durations
        <4> HIDE DEF SignalsFit
        <4> QED
          BY <4>1, <4>2, <4>3
      <3>3. CASE rx = "d" /\ ctrl_ctr # 0
        <4>1. G(rx) = Counting
          BY <3>3, Zenon DEF G, FlagTooLong
        <4>2. SignalsFit(Counting)
          BY <2>1, <2>2, <2>3, <3>3 DEF IInv, Counting
        <4>3. Detail(rx, "r", Counting)
          BY <2>1, <2>2, <3>3, Zenon DEF Detail, Counting, Bits, States, Loads, Durations
        <4> HIDE DEF SignalsFit
        <4> QED
          BY <4>1, <4>2, <4>3
      <3> QED
        BY <3>1, <3>2, <3>3, <2>1, Zenon DEF Bits
    <2> HIDE DEF SignalsFit
    <2> QED
      BY <2>1, <2>4
  <1> QED
    BY <1>1, <1>2, <1>3, <1>4, <1>5, <1>6, <1>7, <1>8, <1>9, <1>10, <1>11, <1>12, <1>13,
       <1>14, <1>15, <1>16, <1>17, <1>18, <1>19, <1>20, <1>21, <1>22, <1>23, <1>24, <1>25,
       ZenonT(30) DEF SamplePoint

-----------------------------------------------------------------------------
(* The cycle after the sample point.                                       *)

\* Error frame or not, it preserves the invariant.
LEMMA AfterSampleStep ==
    ASSUME IInv, AfterSample
    PROVE  IInv' /\ TecStep
  <1>1. /\ stage = "next" /\ stage' = "process" /\ mode' = mode
        /\ err_frm_req' = FALSE
        /\ tec' = TxErrCtr(tec, op, FALSE, cmd = "valid")
        /\ fc' = Settled(fc, tec', rec)
    BY Zenon DEF AfterSample
  <1>2. tec' \in Nat /\ tec' <= tec /\ (tec' >= tec \/ tec' = tec - 1)
    BY <1>1, TxErrCtrStep, ZenonT(30) DEF IInv, Types, Roles, Fields, Requests
  <1>3. /\ fc' \in FcStates
        /\ fc # "bus_off" /\ tec' <= BusOffLimit => fc' # "bus_off"
        /\ fc = "bus_off" => fc' = "bus_off"
        /\ tec' > BusOffLimit => fc' = "bus_off"
    <2>1. fc \in FcStates
      BY Zenon DEF IInv, Types, Roles, Fields, Requests
    <2>2. \A t \in Nat :
            /\ Settled(fc, t, rec) \in FcStates
            /\ fc # "bus_off" /\ t <= BusOffLimit => Settled(fc, t, rec) # "bus_off"
            /\ fc = "bus_off" => Settled(fc, t, rec) = "bus_off"
            /\ t > BusOffLimit => Settled(fc, t, rec) = "bus_off"
      BY <2>1, SettledStep, Zenon
    <2> QED
      BY <1>1, <1>2, <2>2, ZenonT(30)
  <1>4. TecStep
    BY <1>2, Zenon DEF TecStep
  <1>5. /\ tec \in Nat /\ tec' <= BusOffLimit + 2 * IncEight
        /\ tec <= BusOffLimit => tec' <= BusOffLimit
        /\ tec <= BusOffLimit + IncEight => tec' <= BusOffLimit + IncEight
        /\ fc' # "bus_off" => tec' <= BusOffLimit
    BY <1>2, <1>3, FaultConfinementAssumption DEF IInv, Types, Roles, Fields, Requests
  <1>6. tec <= BusOffLimit /\ fc # "bus_off" => fc' # "bus_off"
    BY <1>3, <1>5, Zenon
  <1>7. err_frm_req' \in BOOLEAN /\ ~err_frm_req' /\ mode'.rom = mode.rom
    BY <1>1, ZenonT(30)
  <1>8. CASE err_frm_req
    <2>1. /\ st' = ErrorFlag
          /\ op' = IF mode.rom THEN "idle" ELSE op
      BY <1>8, Zenon DEF AfterSample, ErrorFrame
    <2>2. st' = IF mode.rom THEN "integrating"
                ELSE IF fc = "active" THEN "act_err_flag" ELSE "pas_err_flag"
      BY <2>1, Zenon DEF ErrorFlag
    <2>3. CASE mode.rom
      <3>1. fc # "bus_off" /\ tec <= BusOffLimit
        BY <1>1, <1>8, <2>3, Zenon DEF IInv, Types, Roles, Fields, Requests
      <3>2. st' = "integrating" /\ op' = "idle"
        BY <2>1, <2>2, <2>3, Zenon
      <3>3. st' \notin FrameStates /\ st' \notin Signalling /\ st' # "suspend"
            /\ st' \notin {"reintegrating_wait", "reintegrating"}
        BY <3>2, Zenon DEF FrameStates, Signalling, ErrorStates, OverloadStates
      <3>4. fc' # "bus_off" /\ tec' <= BusOffLimit
        BY <1>5, <1>6, <3>1, Zenon
      <3>5. mode'.rom \in BOOLEAN
        BY <1>7, Zenon DEF IInv, Types, Roles, Fields, Requests
      <3>6. op' \notin {"off", "receiver", "transmitter"}
        BY <3>2, Zenon
      <3>7. Types'
        BY <1>1, <1>2, <1>3, <1>5, <1>7, <3>2, <3>5, ZenonT(30) DEF Types
      <3>8. Roles'
        BY <3>4, <3>6, Zenon DEF Roles
      <3>9. Fields'
        BY <3>3, <3>4, <3>6, Zenon DEF Fields
      <3>10. Requests'
        BY <1>7, <3>2, Zenon DEF Requests
      <3> QED
        BY <1>4, <3>7, <3>8, <3>9, <3>10, Zenon DEF IInv
    <2>4. CASE ~mode.rom
      <3>1. st' \in {"act_err_flag", "pas_err_flag"} /\ op' = op
        BY <2>1, <2>2, <2>4, Zenon
      <3>2. st' \notin FrameStates /\ st' \notin Integration /\ st' # "suspend"
            /\ st' \notin {"reintegrating_wait", "reintegrating"}
        BY <3>1, Zenon DEF FrameStates, Integration
      <3>3. /\ op' \in {"off", "idle", "transmitter", "receiver"}
            /\ op' \in {"receiver", "idle"} => fc' # "bus_off" /\ tec' <= BusOffLimit
            /\ op' = "transmitter" => tec' <= BusOffLimit + IncEight
            /\ op' = "off" => fc' = "bus_off"
        BY <1>3, <1>5, <1>6, <3>1, Zenon DEF IInv, Types, Roles, Fields, Requests
      <3>4. mode'.rom \in BOOLEAN /\ ~mode'.rom
        BY <1>7, <2>4, Zenon DEF IInv, Types, Roles, Fields, Requests
      <3>5. st' \in {"act_err_flag", "pas_err_flag", "integrating"} /\ stage' # "next"
        BY <1>1, <3>1, Zenon
      <3>6. Types'
        BY <1>1, <1>2, <1>3, <1>5, <1>7, <3>3, <3>4, ZenonT(30) DEF Types
      <3>7. Roles'
        BY <1>5, <3>3, <3>5, Zenon DEF Roles
      <3>8. Fields'
        BY <3>2, <3>4, Zenon DEF Fields
      <3>9. Requests'
        BY <1>7, <3>5, Zenon DEF Requests
      <3> QED
        BY <1>4, <3>6, <3>7, <3>8, <3>9 DEF IInv
    <2> QED
      BY <1>4, <2>3, <2>4, Zenon
  <1>9. CASE ~err_frm_req
    <2>1. st' = st /\ op' = op /\ cmd' = "none"
      BY <1>9, Zenon DEF AfterSample, NoErrorFrame
    <2> QED
      BY <1>1, <1>2, <1>3, <1>4, <1>9, <1>5, <1>6, <2>1, ZenonT(30) DEF IInv, Types, Roles, Fields, Requests
  <1> QED
    BY <1>8, <1>9, Zenon

\* The invariant is inductive.
LEMMA IInvStep ==
    IInv /\ [Next]_vars => IInv' /\ (TecStep \/ UNCHANGED vars)
  <1> SUFFICES ASSUME IInv, [Next]_vars
               PROVE  IInv' /\ (TecStep \/ UNCHANGED vars)
    BY Zenon
  <1>1. CASE SamplePoint
    <2>1. PICK rx, tx, g : SignalsFit(g) /\ Detail(rx, tx, g) /\ Sampled(rx, tx, g)
      BY <1>1, SamplePointSignals, Zenon
    <2> QED
      BY <2>1, SampledStep, Zenon
  <1>2. CASE AfterSample
    BY <1>2, AfterSampleStep, Zenon
  <1>3. CASE CommandErcrst
    <2>1. UNCHANGED <<mode, stage, st, op, fc, tec, err_frm_req, cmd>>
      BY <1>3, Zenon DEF CommandErcrst
    <2> QED
      BY <2>1 DEF IInv, Types, Roles, Fields, Requests, TecStep
  <1>4. CASE UNCHANGED vars
    <2>1. UNCHANGED <<mode, stage, st, op, fc, tec, err_frm_req, cmd>>
      BY <1>4, Zenon DEF vars, regs
    <2> QED
      BY <1>4, <2>1, Zenon DEF IInv, Types, Roles, Fields, Requests
  <1> QED
    BY <1>1, <1>2, <1>3, <1>4, Zenon DEF Next

\* It holds when the core is enabled.
LEMMA IInvInit == Init => IInv
  <1> SUFFICES ASSUME Init
               PROVE  IInv
    BY Zenon
  <1>1. mode.rom \in BOOLEAN
    <2>1. mode \in [rom : BOOLEAN, rtrle : BOOLEAN, edge : BOOLEAN]
      BY CanCoreAssumption, Zenon DEF Init
    <2> QED
      BY <2>1, Zenon
  <1>2. 0 <= BusOffLimit /\ 0 <= BusOffLimit + IncEight /\ 0 <= BusOffLimit + 2 * IncEight
    BY FaultConfinementAssumption
  <1>3. err_frm_req \in BOOLEAN /\ ~err_frm_req
    BY ZenonT(30) DEF Init
  <1> QED
    BY <1>1, <1>2, <1>3, Zenon
       DEF Init, IInv, Types, Roles, Fields, Requests, FcStates, FrameStates,
           Signalling, ErrorStates, OverloadStates, Integration

-----------------------------------------------------------------------------
(* Commands to the TXT buffers.                                            *)

\* A sample point locks a buffer that is not held, unlocks one that is, or does
\* neither.
LEMMA SampledSending ==
    ASSUME IInv, NEW rx, NEW tx, NEW g, SignalsFit(g), Sampled(rx, tx, g)
    PROVE  /\ Sending <=> op = "transmitter" /\ st \in FrameStates
           /\ g.txtb # "none" => ~Sending /\ Sending' /\ cmd' = "lock" /\ cmd = "none"
           /\ g.txtb = "none" /\ (g.valid \/ g.arbitration_lost) =>
                 Sending /\ ~Sending' /\ cmd' \in {"valid", "arbl", "failed"} /\ cmd = "none"
           /\ g.txtb = "none" /\ ~g.valid /\ ~g.arbitration_lost =>
                 (Sending' <=> Sending) /\ cmd' = "none"
  <1>1. /\ stage = "process" /\ st' = g.next /\ op' = OpNext(g)
        /\ cmd' = CommandOf(g, g.arbitration_lost /\ TxFailed)
    BY Zenon DEF Sampled
  <1>2. /\ op # "off" /\ fc # "bus_off" /\ g.set # "none" => op' = g.set
        /\ op # "off" /\ fc # "bus_off" /\ g.set = "none" =>
              op' = IF op = "transmitter" /\ g.arbitration_lost THEN "receiver" ELSE op
        /\ op = "off" => op' = IF g.set = "idle" THEN "idle" ELSE "off"
        /\ op = "transmitter" /\ fc = "bus_off" => op' = "off"
    BY <1>1, OpNextStep, Zenon DEF IInv, Types
  <1>3. /\ fc # "bus_off" => op # "off"
        /\ op = "off" => fc = "bus_off"
        /\ op \in {"receiver", "idle"} => fc # "bus_off"
        /\ st \in FrameStates => op \in {"transmitter", "receiver"} /\ fc # "bus_off"
        /\ st \in Integration => op # "transmitter"
        /\ cmd # "none" => st \in {"act_err_flag", "pas_err_flag", "integrating"}
        /\ op \in {"off", "idle", "transmitter", "receiver"}
    BY <1>1, Zenon DEF IInv, Types, Roles, Fields, Requests
  <1>4. /\ Sending <=> op = "transmitter" /\ st \in FrameStates
        /\ Sending' <=> op' = "transmitter" /\ g.next \in Holding
    BY <1>1, <1>3, Zenon DEF Sending, Holding, Integration
  <1>5. ASSUME g.txtb # "none" PROVE ~Sending /\ Sending' /\ cmd' = "lock" /\ cmd = "none"
    <2>1. cmd' = "lock" /\ cmd = "none"
      BY <1>1, <1>3, <1>5, SMTT(30) DEF CommandOf, SignalsFit
    <2>2. ~Sending /\ Sending'
      BY <1>2, <1>3, <1>4, <1>5, Zenon DEF SignalsFit, Holding, FrameStates
    <2> QED
      BY <2>1, <2>2, Zenon
  <1>6. ASSUME g.txtb = "none", g.valid \/ g.arbitration_lost
        PROVE  Sending /\ ~Sending' /\ cmd' \in {"valid", "arbl", "failed"} /\ cmd = "none"
    <2>1. cmd' \in {"valid", "arbl", "failed"} /\ cmd = "none"
      BY <1>1, <1>3, <1>6, SMTT(30) DEF CommandOf, SignalsFit, FrameStates
    <2>2. Sending /\ ~Sending'
      BY <1>2, <1>3, <1>4, <1>6, Zenon DEF SignalsFit
    <2> QED
      BY <2>1, <2>2, Zenon
  <1>7. ASSUME g.txtb = "none", ~g.valid, ~g.arbitration_lost
        PROVE  (Sending' <=> Sending) /\ cmd' = "none"
    <2>1. cmd' = "none"
      BY <1>1, <1>7, SMTT(30) DEF CommandOf
    <2>2. Sending => Sending'
      BY <1>2, <1>3, <1>4, <1>7, SMTT(30) DEF SignalsFit
    <2>3. Sending' => Sending
      BY <1>2, <1>3, <1>4, <1>7, Zenon
         DEF SignalsFit, Holding, Integration, Signalling, FrameStates, ErrorStates,
             OverloadStates
    <2> QED
      BY <2>1, <2>2, <2>3, Zenon
  <1> QED
    BY <1>4, <1>5, <1>6, <1>7, Zenon

\* That is a step of TxCommands.
LEMMA SampledCommands ==
    ASSUME IInv, NEW rx, NEW tx, NEW g, SignalsFit(g), Sampled(rx, tx, g)
    PROVE  Commands!Next
  <1>1. CASE g.txtb # "none"
    BY <1>1, SampledSending, Zenon DEF Commands!Next, Commands!LockBuffer
  <1>2. CASE g.txtb = "none" /\ (g.valid \/ g.arbitration_lost)
    BY <1>2, SampledSending, SMTT(30) DEF Commands!Next, Commands!UnlockBuffer, Commands!Unlocking
  <1>3. CASE g.txtb = "none" /\ ~g.valid /\ ~g.arbitration_lost
    BY <1>3, SampledSending, Zenon DEF Commands!Next, Commands!NoCommand, Sending
  <1> QED
    BY <1>1, <1>2, <1>3, Zenon

\* An error frame gives the buffer back if it is held.
LEMMA AfterSampleCommands ==
    ASSUME IInv, AfterSample
    PROVE  Commands!Next
  <1>1. CASE err_frm_req
    <2>1. /\ st' = ErrorFlag /\ op' = IF mode.rom THEN "idle" ELSE op
          /\ cmd' = IF op = "transmitter" /\ ~BlockTxtbUnlock /\ TxFailed THEN "failed"
                    ELSE IF op = "transmitter" /\ ~BlockTxtbUnlock THEN "err" ELSE "none"
      BY <1>1, Zenon DEF AfterSample, ErrorFrame
    <2>2. cmd = "none" /\ st \in Holding \cup Blocked
      BY <1>1, Zenon DEF IInv, Requests
    <2>3. BlockTxtbUnlock <=> st \notin Holding
      BY <2>2, Zenon DEF BlockTxtbUnlock, Holding, Blocked, Signalling, ErrorStates,
                  OverloadStates, FrameStates
    <2>4. ~Sending'
      BY <2>1, Zenon DEF Sending, ErrorFlag, FrameStates
    <2>5. Sending <=> op = "transmitter" /\ st \in Holding
      BY Zenon DEF Sending, Holding
    <2>6. CASE Sending
      <3>1. cmd' \in {"failed", "err"}
        BY <2>1, <2>3, <2>5, <2>6, Zenon
      <3> QED
        BY <2>2, <2>4, <2>6, <3>1, Zenon
           DEF Commands!Next, Commands!UnlockBuffer, Commands!Unlocking, Sending
    <2>7. CASE ~Sending
      <3>1. cmd' = "none"
        BY <2>1, <2>3, <2>5, <2>7, Zenon
      <3> QED
        BY <2>4, <2>7, <3>1, Zenon DEF Commands!Next, Commands!NoCommand, Sending
    <2> QED
      BY <2>6, <2>7, Zenon
  <1>2. CASE ~err_frm_req
    BY <1>2, Zenon DEF AfterSample, NoErrorFrame, Sending, Commands!Next, Commands!NoCommand
  <1> QED
    BY <1>1, <1>2, Zenon

-----------------------------------------------------------------------------
(* Theorems.                                                               *)

\* Operation control and fault confinement fit together in every state, whatever
\* the limits, durations and counter widths: a receiver is never bus-off, a
\* bus-off node is off from its next sample point on, and a node that is off is
\* bus-off (operation_control.vhd, fault_confinement_fsm.vhd).
THEOREM CoreRolesFit == Spec => []RolesFit
  <1>1. IInv /\ [Next]_vars => IInv'
    BY IInvStep, Zenon
  <1>2. IInv => RolesFit
    BY Zenon DEF IInv, Types, Roles, RolesFit
  <1> QED
    BY <1>1, <1>2, IInvInit, PTL DEF Spec

\* The transmit error counter never wraps, although it is not saturated and
\* bus-off takes effect two sample points late (err_counters.vhd): it needs two
\* large increments of headroom above the limit, FaultConfinementAssumption.
THEOREM CoreTecNeverWraps == Spec => TecNeverWraps
  <1>1. IInv /\ [Next]_vars => IInv'
    BY IInvStep
  <1>2. IInv /\ [Next]_vars =>
          [tec' >= tec \/ tec' = tec - 1 \/ (fc = "bus_off" /\ fc' = "active")]_vars
    BY IInvStep, Zenon DEF TecStep
  <1> QED
    BY <1>1, <1>2, IInvInit, PTL DEF Spec, TecNeverWraps

\* Protocol control gives the TX arbitrator and the TXT buffers only alternating
\* locks and unlocks that are never adjacent, whatever errors, lost arbitrations,
\* overload frames and bus-off do (txtb_hw_cmd, block_txtb_unlock).
THEOREM CoreImplementsTxCommands == Spec => ImplementsTxCommands
  <1>1. IInv /\ [Next]_vars => IInv'
    BY IInvStep
  <1>2. Init => Commands!Init
    BY Zenon DEF Init, Commands!Init, Sending
  <1>3. IInv /\ [Next]_vars => [Commands!Next]_<<Sending, cmd>>
    <2> SUFFICES ASSUME IInv, [Next]_vars
                 PROVE  [Commands!Next]_<<Sending, cmd>>
      BY Zenon
    <2>1. CASE SamplePoint
      <3>1. PICK rx, tx, g : SignalsFit(g) /\ Detail(rx, tx, g) /\ Sampled(rx, tx, g)
        BY <2>1, SamplePointSignals
      <3> QED
        BY <3>1, SampledCommands, Zenon
    <2>2. CASE AfterSample
      BY <2>2, AfterSampleCommands, Zenon
    <2>3. CASE CommandErcrst
      BY <2>3, Zenon DEF CommandErcrst, Sending
    <2>4. CASE UNCHANGED vars
      BY <2>4, Zenon DEF vars, regs, Sending
    <2> QED
      BY <2>1, <2>2, <2>3, <2>4, Zenon DEF Next
  <1> QED
    BY <1>1, <1>2, <1>3, IInvInit, PTL DEF Spec, ImplementsTxCommands, Commands!Spec

-----------------------------------------------------------------------------
(* Bus-off, recovery, the lonely node and the number of transmissions       *)

\* Fault confinement at rest, and one sample point later.  A node in an active
\* error flag has not become bus-off: an error in the flag starts another frame.
Settling ==
    /\ fc = "active" => tec < ErpLimit + IncEight
    /\ fc = "active" /\ stage = "process" => tec < ErpLimit /\ rec < ErpLimit
    /\ st = "act_err_flag" => fc # "bus_off"
    /\ st = "act_err_flag" /\ stage = "next" /\ ~err_frm_req => tec <= BusOffLimit

\* ctrl_ctr counts a run of recessive bits down, reinteg_ctr the complete runs.
Runs ==
    /\ run \in 0 .. IntegrationDuration
    /\ st \in {"integrating", "reintegrating"} => ctrl_ctr = IntegrationDuration - run
    /\ st \notin {"integrating", "reintegrating"} => run = 0
    /\ run > 0 => rx_prev = "r" /\ ~err_frm_req
    /\ st \notin {"idle", "reintegrating"} => sequences = 0
    /\ st = "reintegrating" => sequences = reinteg_ctr /\ reinteg_ctr <= ReintegLimit

\* The frame that is sent has failed retr_ctr times; one that waits to be sent
\* again has failed with its last attempt as well, which is not counted twice.
Tries ==
    /\ attempts <= RetrTh + 1
    /\ attempts # 0 => mode.rtrle
    /\ cmd = "failed" => mode.rtrle /\ attempts \in {0, RetrTh + 1}
    /\ Sending => pending
    /\ err_frm_req /\ st = "integrating" => op \in {"transmitter", "receiver"}
    /\ attempts # 0 /\ Sending => retr_ctr = attempts - 1 /\ ~retr_ctr_add_block
    /\ attempts # 0 /\ pending /\ ~Sending =>
            /\ retr_ctr = attempts /\ attempts <= RetrTh
            /\ st \in ErrorStates => retr_ctr_add_block \/ op = "receiver"

\* The second part of the inductive invariant.
HInv == TypeOK /\ Settling /\ Runs /\ Tries /\ LonelyNotBusOff

-----------------------------------------------------------------------------
(* A sample point preserves the invariants about the counters.             *)

\* The limits, as far as the arithmetic needs them.
LEMMA Limits ==
    /\ ErpLimit \in Nat /\ BusOffLimit \in Nat /\ IncEight \in Nat /\ CtrMod \in Nat
    /\ 0 < ErpLimit /\ 0 < IncEight /\ ErpLimit + IncEight <= BusOffLimit
  BY FaultConfinementAssumption, Zenon

\* An error active node is below the limit, and was so before unless it has just
\* been set error active.
LEMMA FcActive ==
    ASSUME NEW f \in FcStates, NEW t \in Nat, NEW r \in Nat, NEW a \in BOOLEAN,
           FcNext(f, t, r, a) = "active"
    PROVE  t < ErpLimit \/ (f = "bus_off" /\ a)
  BY FaultConfinementAssumption DEF FcNext, FcStates

\* At rest, an error active node has both counters below the limit.
LEMMA SettledActive ==
    ASSUME NEW f \in FcStates, NEW t \in Nat, NEW r \in Nat, Settled(f, t, r) = "active"
    PROVE  t < ErpLimit /\ r < ErpLimit
  <1> USE FaultConfinementAssumption
  <1>1. CASE f = "active"
    BY <1>1 DEF Settled, FcNext, FcStates
  <1>2. CASE f = "passive"
    BY <1>2, Zenon DEF Settled, FcNext, FcStates
  <1>3. CASE f = "bus_off"
    BY <1>3, Zenon DEF Settled, FcNext, FcStates
  <1> QED
    BY <1>1, <1>2, <1>3, Zenon DEF FcStates

\* REC stays a counter value.
LEMMA RxErrCtrType ==
    ASSUME NEW r \in Counter, NEW o, NEW i1 \in BOOLEAN, NEW i8 \in BOOLEAN, NEW d \in BOOLEAN
    PROVE  RxErrCtr(r, o, i1, i8, d) \in Counter
  <1> USE FaultConfinementAssumption DEF Counter
  <1>1. CASE o = "receiver" /\ (i1 \/ i8)
    <2> DEFINE k == r + (IF i1 THEN 1 ELSE IncEight)
    <2>1. RxErrCtr(r, o, i1, i8, d) = IF k % CtrMod < r THEN CtrMod - 1 ELSE k % CtrMod
      BY <1>1, Zenon DEF RxErrCtr
    <2>2. k \in Nat /\ CtrMod \in Nat /\ CtrMod > 0
      OBVIOUS
    <2> HIDE DEF k
    <2>3. k % CtrMod \in 0 .. CtrMod - 1
      BY <2>2
    <2> QED
      BY <2>1, <2>2, <2>3
  <1>2. CASE ~(o = "receiver" /\ (i1 \/ i8))
    <2>1. RxErrCtr(r, o, i1, i8, d) \in {r, RecBack} \cup (IF r > 0 THEN {r - 1} ELSE {})
      BY <1>2, Zenon DEF RxErrCtr
    <2> QED
      BY <2>1
  <1> QED
    BY <1>1, <1>2, Zenon

\* Fault confinement around a sample point.
LEMMA SampledSettling ==
    ASSUME IInv, HInv, NEW rx, NEW tx, NEW g, SignalsFit(g), Detail(rx, tx, g),
           Sampled(rx, tx, g)
    PROVE  Settling'
  <1>1. /\ stage = "process" /\ stage' = "next" /\ st' = g.next
        /\ fc' = FcNext(fc, tec, rec, g.set_err_active)
    BY Zenon DEF Sampled
  <1>2. /\ tec' \in Nat /\ tec' <= tec + IncEight
        /\ NoIncrement(g) => tec' <= tec
        /\ g.set_err_active => tec' = 0
    BY SampledTec, Zenon
  <1>3. /\ fc \in FcStates /\ tec \in Nat /\ rec \in Nat /\ g.set_err_active \in BOOLEAN
        /\ fc # "bus_off" => tec <= BusOffLimit
    <2>1. fc \in FcStates /\ tec \in Nat /\ (fc # "bus_off" => tec <= BusOffLimit)
      BY <1>1, Zenon DEF IInv, Types, Roles
    <2>2. g.set_err_active \in BOOLEAN
      BY Zenon DEF SignalsFit
    <2>3. rec \in Nat
      BY Limits DEF HInv, TypeOK, Counter
    <2> QED
      BY <2>1, <2>2, <2>3, Zenon
  <1>4. fc' = "active" => tec < ErpLimit \/ g.set_err_active
    BY <1>1, <1>3, FcActive, Zenon
  <1>5. fc' = "active" => tec' < ErpLimit + IncEight
    BY <1>2, <1>3, <1>4, Limits
  <1>6. fc # "bus_off" => fc' # "bus_off"
    BY <1>1, <1>3, FcNextStep, Zenon
  <1>7. ASSUME st' = "act_err_flag" PROVE fc' # "bus_off" /\ (~err_frm_req' => tec' <= BusOffLimit)
    <2>1. st = "act_err_flag" /\ (g.err_detected \/ NoIncrement(g))
      BY <1>1, <1>7, Zenon DEF Detail
    <2>2. fc # "bus_off"
      BY <2>1, Zenon DEF HInv, Settling
    <2>3. err_frm_req' = g.err_detected
      BY Zenon DEF Sampled
    <2>4. ~err_frm_req' => NoIncrement(g)
      BY <2>1, <2>3, Zenon
    <2> QED
      BY <1>2, <1>3, <1>6, <2>2, <2>4, Limits
  <1> QED
    BY <1>1, <1>5, <1>7, Zenon DEF Settling

\* A node alone on the bus counts an error only while it is error active.
LEMMA SampledLonely ==
    ASSUME IInv, HInv, NEW rx, NEW tx, NEW g, SignalsFit(g), Detail(rx, tx, g),
           Sampled(rx, tx, g)
    PROVE  LonelyNotBusOff'
  <1> SUFFICES ASSUME lonely'
               PROVE  tec' < ErpLimit + IncEight
    BY Zenon DEF LonelyNotBusOff
  <1> DEFINE i == IncrementByEight(op, st \in {"act_err_flag", "ovr_flag"}, mode.rom, g)
             d == g.decrement_rec
             t == TxErrCtr(tec, op, i, d)
  <1>1. lonely' = (lonely /\ rx = tx) /\ stage = "process"
    BY Zenon DEF Sampled, Observe
  <1>2. lonely /\ rx = tx /\ rx \in Bits
    BY <1>1, Zenon DEF Detail, HInv, TypeOK
  <1>3. tec \in Nat /\ tec < ErpLimit + IncEight
    BY <1>2, Zenon DEF IInv, Types, HInv, LonelyNotBusOff
  <1>4. /\ tec' \in Nat /\ tec' <= tec + IncEight
        /\ tec' <= tec \/ op = "transmitter"
    BY SampledTec, Zenon
  <1>5. CASE op = "transmitter" /\ i
    <2>1. g.err_detected /\ st \in {"ack", "ack_fd_2"} /\ fc # "passive"
      BY <1>2, <1>5, Zenon DEF Detail, IncrementByEight
    <2>2. fc = "active"
      BY <2>1, Zenon DEF IInv, Types, Fields, FcStates, FrameStates
    <2>3. tec < ErpLimit
      BY <1>1, <2>2, Zenon DEF HInv, Settling
    <2> QED
      BY <1>3, <1>4, <2>3, Limits
  <1>6. CASE op = "transmitter" /\ ~i
    <2>1. tec' = IF g.set_err_active THEN 0 ELSE t
      BY Zenon DEF Sampled, CounterReset
    <2>2. d \in BOOLEAN /\ i \in BOOLEAN
      BY Zenon DEF SignalsFit, IncrementByEight
    <2>3. op = "transmitter" => tec <= BusOffLimit + IncEight
      BY Zenon DEF IInv, Roles
    <2> HIDE DEF i, d
    <2>4. t \in Nat /\ t <= tec
      BY <1>3, <1>6, <2>2, <2>3, TxErrCtrStep, Zenon
    <2> HIDE DEF t
    <2> QED
      BY <1>3, <2>1, <2>4, Limits
  <1>7. CASE op # "transmitter"
    BY <1>3, <1>4, <1>7, Limits
  <1> QED
    BY <1>5, <1>6, <1>7, Zenon

\* ctrl_ctr has counted a run to its end exactly when the run is complete.
LEMMA RunEnds ==
    ASSUME HInv, st \in {"integrating", "reintegrating"}, NEW rx \in Bits
    PROVE  IntegrationCtr(rx) = 0 <=> RunComplete(rx)
  <1>1. /\ run \in 0 .. IntegrationDuration /\ ctrl_ctr = IntegrationDuration - run
        /\ run > 0 => rx_prev = "r"
    BY Zenon DEF HInv, Runs
  <1>2. IntegrationDuration \in Nat /\ IntegrationDuration > 0
    BY CanCoreAssumption DEF Durations
  <1>3. CASE mode.edge /\ rx = "d"
    <2>1. ~RunComplete(rx)
      BY <1>3, Zenon DEF RunComplete
    <2>2. IntegrationCtr(rx) = IF rx_prev = "r" THEN IntegrationDuration ELSE ctrl_ctr
      BY <1>3, Zenon DEF IntegrationCtr
    <2> QED
      BY <1>1, <1>2, <2>1, <2>2
  <1>4. CASE ~(mode.edge /\ rx = "d")
    <2>1. IntegrationCtr(rx) = ctrl_ctr
      BY <1>4, Zenon DEF IntegrationCtr
    <2>2. RunComplete(rx) <=> run = IntegrationDuration
      BY <1>4, Zenon DEF RunComplete, Bits
    <2> QED
      BY <1>1, <1>2, <2>1, <2>2
  <1> QED
    BY <1>3, <1>4, Zenon

\* One bit of a run, for a node that stays in integration.
LEMMA RunStep ==
    ASSUME HInv, st \in {"integrating", "reintegrating"}, NEW rx \in Bits,
           run' = IF ~RunComplete(rx) /\ rx = "r" THEN run + 1 ELSE 0,
           ctrl_ctr' = IF rx = "d" \/ RunComplete(rx) THEN IntegrationDuration ELSE CountDown
    PROVE  /\ run' \in 0 .. IntegrationDuration
           /\ ctrl_ctr' = IntegrationDuration - run'
           /\ run' > 0 => rx = "r"
  <1>1. /\ run \in 0 .. IntegrationDuration /\ ctrl_ctr = IntegrationDuration - run
    BY Zenon DEF HInv, Runs
  <1>2. IntegrationDuration \in Nat /\ IntegrationDuration > 0
    BY CanCoreAssumption DEF Durations
  <1>3. CASE rx = "r" /\ ~RunComplete(rx)
    <2>1. run # IntegrationDuration
      BY <1>3, Zenon DEF RunComplete
    <2>2. run' = run + 1 /\ ctrl_ctr' = ctrl_ctr - 1
      BY <1>1, <1>2, <1>3, <2>1 DEF CountDown
    <2> QED
      BY <1>1, <1>2, <1>3, <2>1, <2>2
  <1>4. CASE ~(rx = "r" /\ ~RunComplete(rx))
    <2>1. run' = 0 /\ ctrl_ctr' = IntegrationDuration
      BY <1>4, Zenon DEF Bits
    <2> QED
      BY <1>2, <2>1
  <1> QED
    BY <1>3, <1>4, Zenon

\* Runs of recessive bits and the integrations made of them.
LEMMA SampledRuns ==
    ASSUME IInv, HInv, NEW rx, NEW tx, NEW g, SignalsFit(g), Detail(rx, tx, g),
           Sampled(rx, tx, g)
    PROVE  Runs' /\ reinteg_ctr' \in 0 .. ReintegLimit + 1
  <1>1. /\ st' = g.next /\ ctrl_ctr' = g.load /\ rx_prev' = rx
        /\ err_frm_req' = g.err_detected
        /\ reinteg_ctr' = ReintegCtr(g.counted)
        /\ run' = IF Integrates /\ ~RunComplete(rx) /\ rx = "r" THEN run + 1 ELSE 0
        /\ sequences' = CASE ~Integrates -> 0
                          [] Integrates /\ RunComplete(rx) -> sequences + 1
                          [] Integrates /\ ~RunComplete(rx) -> sequences
    BY Zenon DEF Sampled, Observe
  <1>2. rx \in Bits
    BY Zenon DEF Detail, HInv, TypeOK
  <1>3. /\ IntegrationDuration \in Nat /\ IntegrationDuration > 0 /\ ReintegLimit \in Nat
        /\ reinteg_ctr \in 0 .. ReintegLimit + 1
    BY CanCoreAssumption DEF Durations, HInv, TypeOK
  <1>4. Integrates => ~g.err_detected
    BY Zenon DEF SignalsFit, Detail, Integrates, Signalling, ErrorStates, OverloadStates,
           FrameStates
  <1>5. CASE st = "off"
    <2>1. run = 0 /\ sequences = 0
      BY <1>5, Zenon DEF HInv, Runs
    <2>2. ~RunComplete(rx) /\ Integrates
      BY <1>3, <1>5, <2>1 DEF RunComplete, Integrates
    <2>3. st' = "integrating" /\ sequences' = 0 /\ reinteg_ctr' = reinteg_ctr
      BY <1>1, <1>5, <2>1, <2>2, Zenon DEF Detail, ReintegCtr
    <2>4. run' = IF rx = "r" THEN 1 ELSE 0
      BY <1>1, <2>1, <2>2
    <2>5. ctrl_ctr' = IF rx = "d" THEN IntegrationDuration ELSE IntegrationDuration - 1
      BY <1>1, <1>5, Zenon DEF Detail
    <2>6. run' \in 0 .. IntegrationDuration /\ ctrl_ctr' = IntegrationDuration - run'
          /\ (run' > 0 => rx = "r")
      BY <1>2, <1>3, <2>4, <2>5 DEF Bits
    <2> QED
      BY <1>1, <1>3, <1>4, <2>2, <2>3, <2>6, Zenon DEF Runs
  <1>6. CASE st = "integrating"
    <2>1. sequences = 0 /\ Integrates
      BY <1>6, Zenon DEF HInv, Runs, Integrates
    <2>2. IntegrationCtr(rx) = 0 <=> RunComplete(rx)
      BY <1>2, <1>6, RunEnds, Zenon
    <2>3. st' = IF RunComplete(rx) THEN "idle" ELSE "integrating"
      BY <1>1, <1>6, <2>2, Zenon DEF Detail
    <2>4. reinteg_ctr' = reinteg_ctr
      BY <1>1, <1>6, Zenon DEF ReintegCtr
    <2>5. CASE RunComplete(rx)
      <3>1. st' = "idle" /\ run' = 0
        BY <1>1, <2>3, <2>5, Zenon
      <3> QED
        BY <1>1, <1>3, <2>4, <3>1 DEF Runs
    <2>6. CASE ~RunComplete(rx)
      <3>1. st' = "integrating" /\ sequences' = 0
        BY <1>1, <2>1, <2>3, <2>6, Zenon
      <3>2. run' = IF ~RunComplete(rx) /\ rx = "r" THEN run + 1 ELSE 0
        BY <1>1, <2>1, Zenon
      <3>3. ctrl_ctr' = IF rx = "d" \/ RunComplete(rx) THEN IntegrationDuration ELSE CountDown
        BY <1>1, <1>6, <2>6, Zenon DEF Detail, IntegrationLoad
      <3>4. /\ run' \in 0 .. IntegrationDuration /\ ctrl_ctr' = IntegrationDuration - run'
            /\ run' > 0 => rx = "r"
        BY <1>2, <1>6, <3>2, <3>3, RunStep, Zenon
      <3> QED
        BY <1>1, <1>3, <1>4, <2>1, <2>4, <3>1, <3>4, Zenon DEF Runs
    <2> QED
      BY <2>5, <2>6, Zenon
  <1>7. CASE st = "reintegrating"
    <2>1. Integrates /\ sequences = reinteg_ctr /\ reinteg_ctr <= ReintegLimit
      BY <1>7, Zenon DEF HInv, Runs, Integrates
    <2>2. IntegrationCtr(rx) = 0 <=> RunComplete(rx)
      BY <1>2, <1>7, RunEnds, Zenon
    <2>3. /\ st' = IF RunComplete(rx) /\ ReintegExpired THEN "idle" ELSE "reintegrating"
          /\ g.counted <=> RunComplete(rx)
      BY <1>1, <1>7, <2>2, Zenon DEF Detail
    <2>4. reinteg_ctr' = IF RunComplete(rx) THEN reinteg_ctr + 1 ELSE reinteg_ctr
      BY <1>1, <1>7, <2>3, Zenon DEF ReintegCtr
    <2>5. sequences' = reinteg_ctr' /\ reinteg_ctr' \in 0 .. ReintegLimit + 1
      BY <1>1, <1>3, <2>1, <2>4
    <2>6. run' = IF ~RunComplete(rx) /\ rx = "r" THEN run + 1 ELSE 0
      BY <1>1, <2>1, Zenon
    <2>7. CASE RunComplete(rx) /\ ReintegExpired
      <3>1. st' = "idle" /\ run' = 0
        BY <2>3, <2>6, <2>7, Zenon
      <3> QED
        BY <1>1, <1>3, <2>5, <3>1 DEF Runs
    <2>8. CASE ~(RunComplete(rx) /\ ReintegExpired)
      <3>1. st' = "reintegrating" /\ reinteg_ctr' <= ReintegLimit
        BY <1>3, <2>1, <2>3, <2>4, <2>8 DEF ReintegExpired
      <3>2. ctrl_ctr' = IF rx = "d" \/ RunComplete(rx) THEN IntegrationDuration ELSE CountDown
        BY <1>1, <1>7, <2>2, Zenon DEF Detail, IntegrationLoad
      <3>3. /\ run' \in 0 .. IntegrationDuration /\ ctrl_ctr' = IntegrationDuration - run'
            /\ run' > 0 => rx = "r"
        BY <1>2, <1>7, <2>6, <3>2, RunStep, Zenon
      <3> QED
        BY <1>1, <1>3, <1>4, <2>1, <2>5, <3>1, <3>3, Zenon DEF Runs
    <2> QED
      BY <2>7, <2>8, Zenon
  <1>8. CASE ~Integrates
    <2>1. run' = 0 /\ sequences' = 0
      BY <1>1, <1>8, Zenon
    <2>2. /\ st' \in {"integrating", "reintegrating"} => ctrl_ctr' = IntegrationDuration
          /\ st' = "reintegrating" => st = "reintegrating_wait" /\ ercrst
      BY <1>1, <1>8, Zenon DEF Detail, Integrates
    <2>3. /\ reinteg_ctr' \in {0, reinteg_ctr}
          /\ st' = "reintegrating" => reinteg_ctr' = 0
      BY <1>1, <1>8, <2>2, Zenon DEF ReintegCtr, Integrates
    <2> QED
      BY <1>3, <2>1, <2>2, <2>3 DEF Runs
  <1> QED
    BY <1>5, <1>6, <1>7, <1>8, Zenon DEF Integrates

\* The retransmission counter and the attempts.
LEMMA SampledTries ==
    ASSUME IInv, HInv, NEW rx, NEW tx, NEW g, SignalsFit(g), Detail(rx, tx, g),
           Sampled(rx, tx, g)
    PROVE  Tries' /\ attempts' \in Nat /\ retr_ctr' \in 0 .. RetrMod - 1
  <1> DEFINE failed == g.arbitration_lost /\ TxFailed
             add == RetrCtrAdd(g.arbitration_lost, failed)
  <1>1. /\ st' = g.next /\ mode' = mode /\ op' = OpNext(g)
        /\ retr_ctr' = RetrCtr(add, failed \/ g.valid \/ g.txtb = "other")
        /\ cmd' = CommandOf(g, failed)
        /\ attempts' = IF g.txtb # "none" THEN NextAttempt(g.txtb) ELSE attempts
    BY Zenon DEF Sampled, Observe
  <1>2. /\ retr_ctr_add_block' <=> add \/ (retr_ctr_add_block /\ st # "intermission")
        /\ pending' <=> g.txtb # "none" \/ (pending /\ cmd' \notin {"valid", "failed"})
    BY Zenon DEF Sampled, Observe
  <1>3. /\ RetrTh \in Nat /\ RetrMod \in Nat /\ RetrTh < RetrMod
        /\ attempts \in Nat /\ retr_ctr \in Nat /\ retr_ctr < RetrMod
    BY CanCoreAssumption DEF HInv, TypeOK
  <1>4. retr_ctr' \in 0 .. RetrMod - 1
    <2> HIDE DEF add, failed
    <2>1. (retr_ctr + 1) % RetrMod \in 0 .. RetrMod - 1
      BY <1>3
    <2> QED
      BY <1>1, <1>3, <2>1 DEF RetrCtr
  <1>8. err_frm_req' /\ st' = "integrating" => op' \in {"transmitter", "receiver"}
    <2> SUFFICES ASSUME err_frm_req', st' = "integrating"
                 PROVE  op' \in {"transmitter", "receiver"}
      BY Zenon
    <2>1. g.err_detected
      BY Zenon DEF Sampled
    <2>2. st \in FrameStates /\ g.set = "none" /\ ~g.arbitration_lost
      BY <1>1, <2>1, Zenon DEF SignalsFit, NoIncrement, Signalling, ErrorStates, OverloadStates
    <2>3. op \in {"transmitter", "receiver"} /\ fc # "bus_off"
      BY <2>2, Zenon DEF IInv, Fields
    <2> QED
      BY <1>1, <2>2, <2>3, Zenon DEF OpNext
  <1>5. CASE g.txtb # "none"
    <2>1. ~Sending /\ Sending' /\ cmd' = "lock"
      BY <1>5, SampledSending, Zenon
    <2>2. ~g.arbitration_lost /\ ~g.valid
      BY <1>5, Zenon DEF SignalsFit
    <2>3. ~add /\ ~failed
      BY <2>2, Zenon DEF RetrCtrAdd
    <2>4. /\ retr_ctr' = IF g.txtb = "other" THEN 0 ELSE retr_ctr
          /\ attempts' = NextAttempt(g.txtb)
          /\ pending'
          /\ retr_ctr_add_block' <=> retr_ctr_add_block /\ st # "intermission"
      BY <1>1, <1>2, <1>5, <2>2, <2>3, Zenon DEF RetrCtr
    <2> HIDE DEF add, failed
    <2>5. CASE ~mode.rtrle \/ Miscounted(g.txtb)
      <3>1. attempts' = 0
        BY <2>4, <2>5, Zenon DEF NextAttempt
      <3> QED
        BY <1>3, <1>4, <2>1, <2>4, <3>1, <1>8 DEF Tries
    <2>6. CASE mode.rtrle /\ ~Miscounted(g.txtb)
      <3>1. ~retr_ctr_add_block'
        BY <2>4, <2>6, Zenon DEF Miscounted
      <3>2. attempts' = IF g.txtb # "again" THEN 1
                        ELSE IF attempts > RetrTh + 1 THEN attempts ELSE attempts + 1
        BY <2>4, <2>6, Zenon DEF NextAttempt
      <3>3. attempts' \in Nat /\ attempts' <= RetrTh + 1 /\ retr_ctr' = attempts' - 1
        <4>1. CASE g.txtb = "again"
          <5>1. attempts # 0 /\ pending
            BY <2>6, <4>1, Zenon DEF Miscounted, Detail
          <5>2. retr_ctr = attempts /\ attempts <= RetrTh
            BY <2>1, <5>1, Zenon DEF HInv, Tries
          <5> QED
            BY <1>3, <2>4, <3>2, <4>1, <5>2
        <4>2. CASE g.txtb # "again"
          <5>1. attempts' = 1 /\ retr_ctr' = 0
            BY <1>5, <2>4, <2>6, <3>2, <4>2, Zenon DEF Miscounted, Detail
          <5> QED
            BY <1>3, <5>1
        <4> QED
          BY <4>1, <4>2, Zenon
      <3> QED
        BY <1>1, <1>4, <2>1, <2>4, <2>6, <3>1, <3>3, <1>8, Zenon DEF Tries
    <2> QED
      BY <2>5, <2>6, Zenon
  <1>6. CASE g.txtb = "none" /\ (g.valid \/ g.arbitration_lost)
    <2>1. Sending /\ ~Sending' /\ attempts' = attempts
      BY <1>1, <1>6, SampledSending, Zenon
    <2>2. /\ attempts <= RetrTh + 1 /\ (attempts # 0 => mode.rtrle)
          /\ attempts # 0 => retr_ctr = attempts - 1 /\ ~retr_ctr_add_block
      BY <2>1, Zenon DEF HInv, Tries
    <2>3. CASE g.valid
      <3>1. cmd' = "valid" /\ ~pending'
        BY <1>1, <1>2, <1>6, <2>3, Zenon DEF CommandOf
      <3> QED
        BY <1>1, <1>3, <1>4, <2>1, <2>2, <3>1, <1>8, Zenon DEF Tries
    <2>4. CASE ~g.valid /\ failed
      <3>1. cmd' = "failed" /\ ~pending' /\ mode.rtrle /\ retr_ctr = RetrTh
        BY <1>1, <1>2, <1>6, <2>4, Zenon DEF CommandOf, TxFailed
      <3>2. attempts \in {0, RetrTh + 1}
        BY <1>3, <2>2, <3>1
      <3> HIDE DEF add, failed
      <3> QED
        BY <1>1, <1>3, <1>4, <2>1, <2>2, <3>1, <3>2, <1>8, Zenon DEF Tries
    <2>5. CASE ~g.valid /\ ~failed
      <3>1. cmd' = "arbl" /\ g.arbitration_lost /\ op = "transmitter"
        BY <1>1, <1>6, <2>5, Zenon DEF CommandOf, SignalsFit
      <3>2. attempts # 0 => /\ retr_ctr' = attempts /\ attempts <= RetrTh
                            /\ retr_ctr_add_block'
        <4> SUFFICES ASSUME attempts # 0
                     PROVE  /\ retr_ctr' = attempts /\ attempts <= RetrTh
                            /\ retr_ctr_add_block'
          BY Zenon
        <4>1. add
          BY <2>2, <2>5, <3>1, Zenon DEF RetrCtrAdd
        <4>2. retr_ctr # RetrTh
          BY <2>2, <2>5, <3>1, Zenon DEF TxFailed
        <4> HIDE DEF add, failed
        <4>3. retr_ctr' = (retr_ctr + 1) % RetrMod
          BY <1>1, <4>1, Zenon DEF RetrCtr
        <4>4. retr_ctr + 1 = attempts /\ attempts <= RetrTh /\ retr_ctr + 1 < RetrMod
          BY <1>3, <2>2, <4>2
        <4>5. (retr_ctr + 1) % RetrMod = retr_ctr + 1
          BY <1>3, <4>4, SmallMod, Zenon
        <4> QED
          BY <1>2, <4>1, <4>3, <4>4, <4>5, Zenon
      <3> HIDE DEF add, failed
      <3> QED
        BY <1>1, <1>3, <1>4, <2>1, <2>2, <3>1, <3>2, <1>8, Zenon DEF Tries
    <2> HIDE DEF add, failed
    <2> QED
      BY <2>3, <2>4, <2>5, Zenon
  <1>7. CASE g.txtb = "none" /\ ~g.valid /\ ~g.arbitration_lost
    <2>1. (Sending' <=> Sending) /\ cmd' = "none" /\ attempts' = attempts
      BY <1>1, <1>7, SampledSending, Zenon
    <2>2. ~add /\ ~failed
      BY <1>7, Zenon DEF RetrCtrAdd
    <2> HIDE DEF add, failed
    <2>3. /\ retr_ctr' = retr_ctr /\ (pending' <=> pending)
          /\ retr_ctr_add_block' <=> retr_ctr_add_block /\ st # "intermission"
      BY <1>1, <1>2, <1>7, <2>1, <2>2, Zenon DEF RetrCtr
    <2>4. st' \in ErrorStates /\ (retr_ctr_add_block \/ op = "receiver") =>
            retr_ctr_add_block' \/ op' = "receiver"
      <3>1. st' \in ErrorStates => st \in ErrorStates /\ g.set = "none"
        BY <1>1, Zenon DEF Detail
      <3>2. op = "receiver" => op' = "receiver" \/ g.set # "none"
        BY <1>1, Zenon DEF OpNext
      <3> QED
        BY <2>3, <3>1, <3>2, Zenon DEF ErrorStates
    <2>5. attempts # 0 /\ pending /\ ~Sending =>
            (st' \in ErrorStates => retr_ctr_add_block' \/ op' = "receiver")
      BY <1>1, <2>4, Zenon DEF HInv, Tries, Detail
    <2> QED
      BY <1>1, <1>3, <1>4, <2>1, <2>3, <2>5, <1>8, Zenon DEF HInv, Tries
  <1> HIDE DEF add, failed
  <1> QED
    BY <1>5, <1>6, <1>7, Zenon

\* ctrl_ctr stays within the durations.
LEMMA SampledCtrlCtr ==
    ASSUME HInv, NEW rx, NEW tx, NEW g, Detail(rx, tx, g)
    PROVE  g.load \in Nat /\ \E d \in Durations : g.load <= d
  <1>1. Durations \subseteq Nat \ {0}
    BY CanCoreAssumption, Zenon
  <1>2. PICK e \in Durations : ctrl_ctr <= e
    BY Zenon DEF HInv, TypeOK
  <1>3. ctrl_ctr \in Nat /\ e \in Nat
    BY <1>1, Zenon DEF HInv, TypeOK
  <1>4. CASE g.load \in {ctrl_ctr, CountDown}
    <2>1. g.load \in Nat /\ g.load <= e
      BY <1>2, <1>3, <1>4 DEF CountDown
    <2> QED
      BY <2>1, Zenon
  <1>5. CASE g.load \in Durations
    <2>1. \A d \in Durations : d \in Nat /\ d <= d
      BY <1>1
    <2> QED
      BY <1>5, <2>1, Zenon
  <1>6. CASE g.load = IntegrationDuration - 1
    <2>1. IntegrationDuration \in Durations
      BY Zenon DEF Durations
    <2>2. g.load \in Nat /\ g.load <= IntegrationDuration
      BY <1>1, <1>6, <2>1
    <2> QED
      BY <2>1, <2>2, Zenon
  <1>7. CASE g.load = ErrFlgDuration - 1
    <2>1. ErrFlgDuration \in Durations
      BY Zenon DEF Durations
    <2>2. g.load \in Nat /\ g.load <= ErrFlgDuration
      BY <1>1, <1>7, <2>1
    <2> QED
      BY <2>1, <2>2
  <1> QED
    BY <1>4, <1>5, <1>6, <1>7, Zenon DEF Detail, Loads

\* The types after a sample point.
LEMMA SampledTypes ==
    ASSUME IInv, HInv, NEW rx, NEW tx, NEW g, SignalsFit(g), Detail(rx, tx, g),
           Sampled(rx, tx, g)
    PROVE  TypeOK'
  <1>1. /\ stage' = "next" /\ st' = g.next /\ ctrl_ctr' = g.load /\ rx_prev' = rx
        /\ mode' = mode
    BY Zenon DEF Sampled
  <1>2. mode' \in Modes /\ stage' \in {"process", "next"} /\ st' \in States /\ rx_prev' \in Bits
    BY <1>1, Zenon DEF HInv, TypeOK, Detail
  <1>3. ctrl_ctr' \in Nat /\ \E d \in Durations : ctrl_ctr' <= d
    BY <1>1, SampledCtrlCtr, Zenon
  <1>4. /\ op' \in {"off", "idle", "transmitter", "receiver"} /\ fc' \in FcStates
        /\ tec' \in Counter
    <2>1. Types'
      BY SampledStep, Zenon DEF IInv
    <2> QED
      BY <2>1, FaultConfinementAssumption DEF Types, Counter
  <1>5. rec' \in Counter
    <2> DEFINE flag == st \in {"act_err_flag", "ovr_flag"}
               i1 == IncrementByOne(op, flag, mode.rom, g)
               i8 == IncrementByEight(op, flag, mode.rom, g)
               r == RxErrCtr(rec, op, i1, i8, g.decrement_rec)
    <2>1. rec' = IF g.set_err_active THEN 0 ELSE r
      BY Zenon DEF Sampled, CounterReset
    <2>2. i1 \in BOOLEAN /\ i8 \in BOOLEAN /\ g.decrement_rec \in BOOLEAN
      BY Zenon DEF IncrementByOne, IncrementByEight, SignalsFit
    <2>3. rec \in Counter
      BY Zenon DEF HInv, TypeOK
    <2> HIDE DEF i1, i8
    <2>4. r \in Counter
      BY <2>2, <2>3, RxErrCtrType, Zenon
    <2> HIDE DEF r
    <2> QED
      BY <2>1, <2>4, FaultConfinementAssumption DEF Counter
  <1>6. cmd' \in {"none", "lock"} \cup Unlocks
    <2>1. cmd' = CommandOf(g, g.arbitration_lost /\ TxFailed)
      BY Zenon DEF Sampled
    <2> QED
      BY <2>1, Zenon DEF CommandOf, Unlocks
  <1>7. retr_ctr' \in 0 .. RetrMod - 1 /\ reinteg_ctr' \in 0 .. ReintegLimit + 1
    BY SampledTries, SampledRuns, Zenon
  <1>8. attempts' \in 0 .. RetrTh + 2
    <2>1. attempts' \in Nat /\ attempts' <= RetrTh + 1
      BY SampledTries, Zenon DEF Tries
    <2> QED
      BY <2>1, CanCoreAssumption
  <1>9. err_frm_req' \in BOOLEAN /\ retr_ctr_add_block' \in BOOLEAN /\ ercrst' \in BOOLEAN
        /\ ack_err_flag' \in BOOLEAN /\ pending' \in BOOLEAN /\ lonely' \in BOOLEAN
    <2>1. err_frm_req' = g.err_detected /\ g.err_detected \in BOOLEAN
      BY Zenon DEF Sampled, SignalsFit
    <2>2. /\ retr_ctr_add_block' \in BOOLEAN /\ ercrst' \in BOOLEAN
          /\ ack_err_flag' \in BOOLEAN /\ pending' \in BOOLEAN /\ lonely' \in BOOLEAN
      BY Zenon DEF Sampled, Observe
    <2> QED
      BY <2>1, <2>2, Zenon
  <1>10. first_err_delim' \in BOOLEAN /\ crc_match' \in BOOLEAN
    <2>1. first_err_delim' = g.first_err_delim /\ crc_match' = g.crc
      BY Zenon DEF Sampled
    <2>2. crc_match \in BOOLEAN
      BY Zenon DEF HInv, TypeOK
    <2> QED
      BY <2>1, <2>2, Zenon DEF Detail
  <1> QED
    BY <1>2, <1>3, <1>4, <1>5, <1>6, <1>7, <1>8, <1>9, <1>10, Zenon DEF TypeOK

-----------------------------------------------------------------------------
(* So does the cycle after it.                                             *)

\* Fault confinement at rest.
LEMMA AfterSettling ==
    ASSUME IInv, HInv, AfterSample
    PROVE  Settling' /\ LonelyNotBusOff'
  <1>1. /\ stage = "next" /\ stage' = "process" /\ lonely' = lonely /\ rec' = rec
        /\ tec' = TxErrCtr(tec, op, FALSE, cmd = "valid")
        /\ fc' = Settled(fc, tec', rec)
    BY Zenon DEF AfterSample
  <1>2. /\ fc \in FcStates /\ tec \in Nat /\ rec \in Nat
        /\ op = "transmitter" => tec <= BusOffLimit + IncEight
    BY Limits DEF IInv, Types, Roles, HInv, TypeOK, Counter
  <1>3. tec' \in Nat /\ tec' <= tec
    BY <1>1, <1>2, TxErrCtrStep, ZenonT(30)
  <1>4. /\ fc' = "active" => tec' < ErpLimit /\ rec' < ErpLimit
        /\ fc # "bus_off" /\ tec' <= BusOffLimit => fc' # "bus_off"
    <2>1. \A t \in Nat :
            /\ Settled(fc, t, rec) = "active" => t < ErpLimit /\ rec < ErpLimit
            /\ fc # "bus_off" /\ t <= BusOffLimit => Settled(fc, t, rec) # "bus_off"
      BY <1>2, SettledActive, SettledStep
    <2> QED
      BY <1>1, <1>3, <2>1, ZenonT(30)
  <1>5. fc' = "active" => tec' < ErpLimit + IncEight
    BY <1>3, <1>4, Limits
  <1>6. LonelyNotBusOff'
    <2>1. lonely' => tec < ErpLimit + IncEight
      BY <1>1, Zenon DEF HInv, LonelyNotBusOff
    <2>2. tec < ErpLimit + IncEight => tec' < ErpLimit + IncEight
      BY <1>2, <1>3, Limits
    <2> QED
      BY <2>1, <2>2, Zenon DEF LonelyNotBusOff
  <1>7. st' = "act_err_flag" => fc' # "bus_off"
    <2> SUFFICES ASSUME st' = "act_err_flag"
                 PROVE  fc # "bus_off" /\ tec <= BusOffLimit
      BY <1>2, <1>3, <1>4, Limits
    <2>1. CASE err_frm_req
      <3>1. fc = "active"
        BY <2>1, Zenon DEF AfterSample, ErrorFrame, ErrorFlag
      <3> QED
        BY <1>2, <3>1, Limits DEF HInv, Settling
    <2>2. CASE ~err_frm_req
      <3>1. st = "act_err_flag"
        BY <2>2, Zenon DEF AfterSample, NoErrorFrame
      <3> QED
        BY <1>1, <2>2, <3>1, Zenon DEF HInv, Settling
    <2> QED
      BY <2>1, <2>2, Zenon
  <1> QED
    BY <1>1, <1>4, <1>5, <1>6, <1>7, Zenon DEF Settling

\* An error frame ends an integration that has not begun to count.
LEMMA AfterRuns ==
    ASSUME IInv, HInv, AfterSample
    PROVE  Runs'
  <1>1. /\ UNCHANGED <<rx_prev, run, sequences, reinteg_ctr>> /\ ~err_frm_req'
    BY Zenon DEF AfterSample
  <1>2. CASE err_frm_req
    <2>1. st \in Holding \cup Blocked
      BY <1>2, Zenon DEF IInv, Requests
    <2>2. sequences = 0
      BY <2>1, Zenon DEF HInv, Runs, Holding, Blocked, Signalling, FrameStates, ErrorStates,
                  OverloadStates
    <2>3. run = 0
      BY <1>2 DEF HInv, Runs
    <2>4. /\ st' \in {"integrating", "act_err_flag", "pas_err_flag"}
          /\ st' = "integrating" => ctrl_ctr' = IntegrationDuration
      BY <1>2, Zenon DEF AfterSample, ErrorFrame, ErrorFlag
    <2>5. IntegrationDuration \in Nat
      BY CanCoreAssumption, Zenon DEF Durations
    <2> QED
      BY <1>1, <2>2, <2>3, <2>4, <2>5 DEF Runs
  <1>3. CASE ~err_frm_req
    <2>1. st' = st /\ ctrl_ctr' = ctrl_ctr
      BY <1>3, Zenon DEF AfterSample, NoErrorFrame
    <2> QED
      BY <1>1, <2>1, Zenon DEF HInv, Runs
  <1> QED
    BY <1>2, <1>3, Zenon

\* An error frame counts the attempt it ends, once.
LEMMA AfterTries ==
    ASSUME IInv, HInv, AfterSample
    PROVE  Tries' /\ attempts' \in Nat /\ retr_ctr' \in 0 .. RetrMod - 1
  <1>1. mode' = mode /\ ~err_frm_req'
    BY Zenon DEF AfterSample
  <1>2. /\ RetrTh \in Nat /\ RetrMod \in Nat /\ RetrTh < RetrMod
        /\ attempts \in Nat /\ retr_ctr \in Nat /\ retr_ctr < RetrMod
        /\ retr_ctr \in 0 .. RetrMod - 1
    BY CanCoreAssumption DEF HInv, TypeOK
  <1>3. CASE err_frm_req
    <2> DEFINE unlock == op = "transmitter" /\ ~BlockTxtbUnlock
               failed == unlock /\ TxFailed
               add == RetrCtrAdd(TRUE, failed)
    <2>1. /\ st' = ErrorFlag /\ op' = IF mode.rom THEN "idle" ELSE op
          /\ cmd' = IF failed THEN "failed" ELSE IF unlock THEN "err" ELSE "none"
          /\ retr_ctr' = RetrCtr(add, failed)
          /\ attempts' = IF add /\ st \in OverloadStates THEN 0 ELSE attempts
      BY <1>3, Zenon DEF AfterSample, ErrorFrame
    <2>2. /\ retr_ctr_add_block' <=> add \/ (retr_ctr_add_block /\ st # "intermission")
          /\ pending' <=> pending /\ ~failed
      BY <1>3, Zenon DEF AfterSample, ErrorFrame
    <2>3. st \in Holding \cup Blocked
      BY <1>3 DEF IInv, Requests
    <2>4. BlockTxtbUnlock <=> st \notin Holding
      BY <2>3, Zenon DEF BlockTxtbUnlock, Holding, Blocked, Signalling, ErrorStates,
                  OverloadStates, FrameStates
    <2>5. unlock <=> Sending
      BY <2>4, Zenon DEF Sending, Holding
    <2>6. ~Sending'
      BY <2>1, Zenon DEF Sending, ErrorFlag, FrameStates
    <2>7. st # "intermission"
      BY <2>3, Zenon DEF Holding, Blocked, Signalling, ErrorStates, OverloadStates, FrameStates
    <2>8. retr_ctr' \in 0 .. RetrMod - 1
      <3> HIDE DEF add, failed
      <3>1. (retr_ctr + 1) % RetrMod \in 0 .. RetrMod - 1
        BY <1>2
      <3> QED
        BY <1>2, <2>1, <3>1 DEF RetrCtr
    <2>9. attempts' \in {0, attempts} /\ attempts <= RetrTh + 1 /\ (attempts # 0 => mode.rtrle)
      BY <2>1, Zenon DEF HInv, Tries
    <2>12. attempts' \in Nat /\ attempts' <= RetrTh + 1 /\ (attempts' # 0 => mode'.rtrle)
      BY <1>1, <1>2, <2>9
    <2>10. CASE Sending
      <3>1. attempts # 0 => retr_ctr = attempts - 1 /\ ~retr_ctr_add_block
        BY <2>10, Zenon DEF HInv, Tries
      <3>2. op = "transmitter" /\ unlock
        BY <2>5, <2>10, Zenon
      <3>3. CASE TxFailed
        <4>1. cmd' = "failed" /\ mode.rtrle /\ retr_ctr = RetrTh /\ ~pending'
          BY <2>1, <2>2, <3>2, <3>3, Zenon DEF TxFailed
        <4>2. attempts \in {0, RetrTh + 1}
          BY <1>2, <3>1, <4>1
        <4> HIDE DEF add, failed, unlock
        <4> QED
          BY <1>1, <2>6, <2>8, <2>9, <2>12, <4>1, <4>2, Zenon DEF Tries
      <3>4. CASE ~TxFailed
        <4>1. cmd' = "err" /\ ~failed
          BY <2>1, <3>2, <3>4, Zenon
        <4>2. attempts # 0 => retr_ctr' = attempts /\ attempts <= RetrTh /\ retr_ctr_add_block'
          <5> SUFFICES ASSUME attempts # 0
                       PROVE  retr_ctr' = attempts /\ attempts <= RetrTh /\ retr_ctr_add_block'
            BY Zenon
          <5>1. add
            BY <2>9, <3>1, <3>2, <4>1, Zenon DEF RetrCtrAdd
          <5>2. retr_ctr # RetrTh
            BY <2>9, <3>4, Zenon DEF TxFailed
          <5> HIDE DEF add, failed, unlock
          <5>3. retr_ctr' = (retr_ctr + 1) % RetrMod
            BY <2>1, <5>1, Zenon DEF RetrCtr
          <5>4. retr_ctr + 1 = attempts /\ attempts <= RetrTh /\ retr_ctr + 1 < RetrMod
            BY <1>2, <2>9, <3>1, <5>2
          <5>5. (retr_ctr + 1) % RetrMod = retr_ctr + 1
            BY <1>2, <5>4, SmallMod, Zenon
          <5> QED
            BY <2>2, <5>1, <5>3, <5>4, <5>5, Zenon
        <4> HIDE DEF add, failed, unlock
        <4> QED
          BY <1>1, <2>6, <2>8, <2>9, <2>12, <4>1, <4>2, Zenon DEF Tries
      <3> HIDE DEF add, failed, unlock
      <3> QED
        BY <3>3, <3>4, Zenon
    <2>11. CASE ~Sending
      <3>1. ~failed /\ cmd' = "none"
        BY <2>1, <2>5, <2>11, Zenon
      <3>2. pending' <=> pending
        BY <2>2, <3>1, Zenon
      <3>3. ASSUME attempts' # 0, pending
            PROVE  /\ retr_ctr' = attempts' /\ attempts' <= RetrTh
                   /\ retr_ctr_add_block' \/ op = "receiver"
        <4>1. attempts' = attempts /\ attempts # 0
          BY <2>9, <3>3, Zenon
        <4>2. /\ retr_ctr = attempts /\ attempts <= RetrTh
              /\ st \in ErrorStates => retr_ctr_add_block \/ op = "receiver"
          BY <2>11, <3>3, <4>1, Zenon DEF HInv, Tries
        <4>3. CASE st \in ErrorStates
          <5>1. ~add
            BY <4>2, <4>3, Zenon DEF RetrCtrAdd
          <5> HIDE DEF add, failed, unlock
          <5>2. retr_ctr' = retr_ctr
            BY <2>1, <3>1, <5>1, Zenon DEF RetrCtr
          <5>3. retr_ctr_add_block' \/ op = "receiver"
            BY <2>2, <2>7, <4>2, <4>3, Zenon
          <5> QED
            BY <4>1, <4>2, <5>2, <5>3, Zenon
        <4>4. CASE st \in OverloadStates
          <5>1. ~add
            BY <2>1, <3>3, <4>4, Zenon
          <5>2. op = "receiver" \/ retr_ctr_add_block
            BY <2>9, <3>1, <4>1, <5>1, Zenon DEF RetrCtrAdd
          <5> HIDE DEF add, failed, unlock
          <5>3. retr_ctr' = retr_ctr
            BY <2>1, <3>1, <5>1 DEF RetrCtr
          <5>4. retr_ctr_add_block' \/ op = "receiver"
            BY <2>2, <2>7, <5>2, Zenon
          <5> QED
            BY <4>1, <4>2, <5>3, <5>4
        <4>5. CASE st \in Holding
          <5>1. op = "receiver"
            BY <1>3, <2>11, <4>5, Zenon DEF Sending, Holding, IInv, Fields, HInv, Tries
          <5>2. ~add
            BY <5>1, Zenon DEF RetrCtrAdd
          <5> HIDE DEF add, failed, unlock
          <5>3. retr_ctr' = retr_ctr
            BY <2>1, <3>1, <5>2 DEF RetrCtr
          <5> QED
            BY <4>1, <4>2, <5>1, <5>3, Zenon
        <4> QED
          BY <2>3, <4>3, <4>4, <4>5, Zenon DEF Blocked, Signalling
      <3>4. attempts' # 0 /\ pending /\ st' \in ErrorStates => retr_ctr_add_block' \/ op' = "receiver"
        <4>1. op' = op \/ st' = "integrating"
          BY <2>1, Zenon DEF ErrorFlag
        <4> QED
          BY <3>3, <4>1, Zenon DEF ErrorStates
      <3> HIDE DEF add, failed, unlock
      <3> QED
        BY <1>1, <2>6, <2>8, <2>12, <3>1, <3>2, <3>3, <3>4, Zenon DEF Tries
    <2> HIDE DEF add, failed, unlock
    <2> QED
      BY <2>10, <2>11, Zenon
  <1>4. CASE ~err_frm_req
    <2>1. /\ cmd' = "none"
          /\ UNCHANGED <<st, op, retr_ctr, retr_ctr_add_block, pending, attempts>>
      BY <1>4, Zenon DEF AfterSample, NoErrorFrame
    <2>2. Sending' <=> Sending
      BY <2>1, Zenon DEF Sending
    <2> QED
      BY <1>1, <1>2, <2>1, <2>2, Zenon DEF HInv, Tries
  <1> QED
    BY <1>3, <1>4, Zenon

\* The types after it.
LEMMA AfterTypes ==
    ASSUME IInv, HInv, AfterSample
    PROVE  TypeOK'
  <1>1. /\ stage' = "process" /\ UNCHANGED <<mode, rec, reinteg_ctr, rx_prev>>
        /\ UNCHANGED <<ercrst, first_err_delim, ack_err_flag, lonely>>
    BY Zenon DEF AfterSample
  <1>2. /\ mode' \in Modes /\ stage' \in {"process", "next"} /\ rx_prev' \in Bits
        /\ rec' \in Counter /\ reinteg_ctr' \in 0 .. ReintegLimit + 1
    BY <1>1, Zenon DEF HInv, TypeOK
  <1>3. /\ op' \in {"off", "idle", "transmitter", "receiver"} /\ fc' \in FcStates
        /\ tec' \in Counter
    <2>1. Types'
      BY AfterSampleStep, Zenon DEF IInv
    <2> QED
      BY <2>1, FaultConfinementAssumption DEF Types, Counter
  <1>4. retr_ctr' \in 0 .. RetrMod - 1 /\ attempts' \in 0 .. RetrTh + 2
    <2>1. attempts' \in Nat /\ attempts' <= RetrTh + 1 /\ retr_ctr' \in 0 .. RetrMod - 1
      BY AfterTries, Zenon DEF Tries
    <2> QED
      BY <2>1, CanCoreAssumption
  <1>5. ercrst' \in BOOLEAN /\ first_err_delim' \in BOOLEAN /\ ack_err_flag' \in BOOLEAN
        /\ lonely' \in BOOLEAN
    BY <1>1, Zenon DEF HInv, TypeOK
  <1>6. err_frm_req' \in BOOLEAN
    BY Zenon DEF AfterSample
  <1>7. /\ st' \in States /\ ctrl_ctr' \in Nat /\ \E d \in Durations : ctrl_ctr' <= d
        /\ cmd' \in {"none", "lock"} \cup Unlocks
        /\ retr_ctr_add_block' \in BOOLEAN /\ crc_match' \in BOOLEAN /\ pending' \in BOOLEAN
    <2>1. CASE err_frm_req
      <3>1. /\ st' = ErrorFlag
            /\ ctrl_ctr' = IF mode.rom THEN IntegrationDuration ELSE ErrFlgDuration
            /\ cmd' \in {"failed", "err", "none"}
        BY <2>1, Zenon DEF AfterSample, ErrorFrame
      <3>2. retr_ctr_add_block' \in BOOLEAN /\ crc_match' \in BOOLEAN /\ pending' \in BOOLEAN
        BY <2>1, Zenon DEF AfterSample, ErrorFrame
      <3>3. ctrl_ctr' \in Durations
        BY <3>1, Zenon DEF Durations
      <3>4. \A d \in Durations : d \in Nat /\ d <= d
        BY CanCoreAssumption
      <3>5. ctrl_ctr' \in Nat /\ \E d \in Durations : ctrl_ctr' <= d
        BY <3>3, <3>4, Zenon
      <3>6. st' \in States
        BY <3>1, Zenon DEF ErrorFlag, States, ErrorStates
      <3> QED
        BY <3>1, <3>2, <3>5, <3>6, Zenon DEF Unlocks
    <2>2. CASE ~err_frm_req
      BY <2>2, Zenon DEF AfterSample, NoErrorFrame, HInv, TypeOK
    <2> QED
      BY <2>1, <2>2, Zenon
  <1> QED
    BY <1>2, <1>3, <1>4, <1>5, <1>6, <1>7, Zenon DEF TypeOK

\* Both invariants together are inductive.
LEMMA HInvStep == IInv /\ HInv /\ [Next]_vars => HInv'
  <1> SUFFICES ASSUME IInv, HInv, [Next]_vars
               PROVE  HInv'
    BY Zenon
  <1>1. CASE SamplePoint
    <2>1. PICK rx, tx, g : SignalsFit(g) /\ Detail(rx, tx, g) /\ Sampled(rx, tx, g)
      BY <1>1, SamplePointSignals, Zenon
    <2> QED
      BY <2>1, SampledTypes, SampledSettling, SampledRuns, SampledTries, SampledLonely, Zenon DEF HInv
  <1>2. CASE AfterSample
    BY <1>2, AfterTypes, AfterSettling, AfterRuns, AfterTries, Zenon DEF HInv
  <1>3. CASE CommandErcrst \/ UNCHANGED vars
    <2>1. /\ UNCHANGED <<mode, stage, st, ctrl_ctr, op, fc, tec, rec, err_frm_req, cmd>>
          /\ UNCHANGED <<retr_ctr, retr_ctr_add_block, reinteg_ctr, first_err_delim>>
          /\ UNCHANGED <<ack_err_flag, rx_prev, crc_match>>
          /\ UNCHANGED <<attempts, pending, lonely, run, sequences>>
      BY <1>3, Zenon DEF CommandErcrst, vars, regs, hist
    <2>2. ercrst' \in BOOLEAN
      <3>1. ercrst \in BOOLEAN
        BY Zenon DEF HInv, TypeOK
      <3> QED
        BY <1>3, <3>1, Zenon DEF CommandErcrst, vars, regs
    <2>3. TypeOK'
      BY <2>1, <2>2, Zenon DEF HInv, TypeOK
    <2>4. Settling' /\ LonelyNotBusOff'
      BY <2>1, Zenon DEF HInv, Settling, LonelyNotBusOff
    <2>5. Runs'
      BY <2>1, Zenon DEF HInv, Runs
    <2>6. Tries'
      BY <2>1, Zenon DEF HInv, Tries, Sending
    <2> QED
      BY <2>3, <2>4, <2>5, <2>6, Zenon DEF HInv
  <1> QED
    BY <1>1, <1>2, <1>3, Zenon DEF Next

\* It holds when the core is enabled.
LEMMA HInvInit == Init => HInv
  <1> SUFFICES ASSUME Init
               PROVE  HInv
    OBVIOUS
  <1>1. TypeOK
    <2>1. 0 \in Counter /\ 0 \in 0 .. RetrMod - 1 /\ 0 \in 0 .. ReintegLimit + 1
          /\ 0 \in 0 .. RetrTh + 2
      BY FaultConfinementAssumption, CanCoreAssumption DEF Counter
    <2>2. \E d \in Durations : 0 <= d
      <3>1. IntegrationDuration \in Durations /\ 0 <= IntegrationDuration
        BY CanCoreAssumption DEF Durations
      <3> QED
        BY <3>1, Zenon
    <2>3. /\ err_frm_req \in BOOLEAN /\ retr_ctr_add_block \in BOOLEAN
          /\ ercrst \in BOOLEAN /\ first_err_delim \in BOOLEAN /\ ack_err_flag \in BOOLEAN
          /\ crc_match \in BOOLEAN /\ pending \in BOOLEAN /\ lonely \in BOOLEAN
      BY Zenon DEF Init
    <2>4. mode \in Modes /\ stage \in {"process", "next"} /\ st \in States
          /\ op \in {"off", "idle", "transmitter", "receiver"} /\ fc \in FcStates
          /\ cmd \in {"none", "lock"} \cup Unlocks /\ rx_prev \in Bits
      BY Zenon DEF Init, States, FcStates, Bits
    <2>5. ctrl_ctr = 0 /\ tec = 0 /\ rec = 0 /\ retr_ctr = 0 /\ reinteg_ctr = 0 /\ attempts = 0
      BY Zenon DEF Init
    <2>6. ctrl_ctr \in Nat /\ \E d \in Durations : ctrl_ctr <= d
      BY <2>2, <2>5, Zenon
    <2>7. tec \in Counter /\ rec \in Counter /\ retr_ctr \in 0 .. RetrMod - 1
          /\ reinteg_ctr \in 0 .. ReintegLimit + 1 /\ attempts \in 0 .. RetrTh + 2
      BY <2>1, <2>5, Zenon
    <2> QED
      BY <2>3, <2>4, <2>6, <2>7, Zenon DEF TypeOK
  <1>2. Settling /\ LonelyNotBusOff
    BY Limits DEF Init, Settling, LonelyNotBusOff
  <1>3. Runs
    BY CanCoreAssumption DEF Init, Runs, Durations
  <1>4. Tries
    BY CanCoreAssumption DEF Init, Tries, Sending
  <1> QED
    BY <1>1, <1>2, <1>3, <1>4, Zenon DEF HInv

\* Bus-off is left in no other way than by a complete integration.
LEMMA RecoveryStep ==
    ASSUME IInv, HInv, [Next]_vars, fc = "bus_off", fc' # "bus_off"
    PROVE  /\ fc' = "active" /\ tec' = 0 /\ rec' = 0
           /\ sequences' = IF st = "reintegrating" THEN ReintegLimit + 1 ELSE 1
  <1>1. fc \in FcStates /\ tec \in Nat
    BY Zenon DEF IInv, Types
  <1>2. CASE SamplePoint
    <2>1. PICK rx, tx, g : SignalsFit(g) /\ Detail(rx, tx, g) /\ Sampled(rx, tx, g)
      BY <1>2, SamplePointSignals, Zenon
    <2>2. fc' = FcNext(fc, tec, rec, g.set_err_active) /\ g.set_err_active \in BOOLEAN
      BY <2>1, Zenon DEF Sampled, SignalsFit
    <2>3. g.set_err_active /\ fc' = "active"
      BY <1>1, <2>2, FcNextStep, Zenon
    <2>4. tec' = 0 /\ rec' = 0
      BY <2>1, <2>3, Zenon DEF Sampled, CounterReset
    <2>5. st \in {"integrating", "reintegrating"} /\ rx \in Bits /\ IntegrationCtr(rx) = 0
          /\ (st = "reintegrating" => ReintegExpired)
      BY <2>1, <2>3, Zenon DEF Detail, HInv, TypeOK
    <2>6. RunComplete(rx)
      BY <2>5, RunEnds, Zenon
    <2>7. sequences' = sequences + 1
      BY <2>1, <2>5, <2>6, Zenon DEF Sampled, Observe, Integrates
    <2>8. sequences = IF st = "reintegrating" THEN ReintegLimit ELSE 0
      BY <2>5, Zenon DEF HInv, Runs, ReintegExpired
    <2> QED
      BY <2>3, <2>4, <2>7, <2>8
  <1>3. CASE AfterSample
    <2>1. fc' = Settled(fc, tec', rec)
      BY <1>3, Zenon DEF AfterSample
    <2>2. Types'
      BY <1>3, AfterSampleStep, Zenon DEF IInv
    <2>3. tec' \in Nat
      BY <2>2, Zenon DEF Types
    <2>4. \A t \in Nat : Settled(fc, t, rec) = "bus_off"
      BY <1>1, SettledStep, Zenon
    <2> QED
      BY <2>1, <2>3, <2>4, Zenon
  <1>4. CASE CommandErcrst
    BY <1>4, Zenon DEF CommandErcrst
  <1>5. CASE UNCHANGED vars
    BY <1>5, Zenon DEF vars, regs
  <1> QED
    BY <1>2, <1>3, <1>4, <1>5, Zenon DEF Next

-----------------------------------------------------------------------------
(* Theorems.                                                               *)

\* A bus-off node drives no dominant bit, except in the overload flag that may
\* still follow the error frame which made it bus-off: a node in an active error
\* flag has not become bus-off, and frames are sent and acknowledged only by
\* nodes that are not (protocol_control_fsm.vhd, tx_dominant).
THEOREM CoreBusOffSilent == Spec => []BusOffSilent
  <1>1. IInv /\ HInv /\ [Next]_vars => IInv' /\ HInv'
    BY IInvStep, HInvStep, Zenon
  <1>2. IInv /\ HInv => BusOffSilent
    BY Zenon DEF IInv, Roles, Fields, HInv, Settling, BusOffSilent, TxBits, TxDominant, FrameStates
  <1> QED
    BY <1>1, <1>2, IInvInit, HInvInit, PTL DEF Spec

\* With limited retransmission a frame is sent at most RTRTH + 1 times in a row,
\* and reported failed only after that many attempts, for every limit and every
\* width of the counter that holds it (retransmitt_counter.vhd, tx_failed).
THEOREM CoreAttemptsLimited == Spec => []AttemptsLimited
  <1>1. IInv /\ HInv /\ [Next]_vars => IInv' /\ HInv'
    BY IInvStep, HInvStep
  <1>2. IInv /\ HInv => AttemptsLimited
    BY Zenon DEF HInv, Tries, AttemptsLimited
  <1> QED
    BY <1>1, <1>2, IInvInit, HInvInit, PTL DEF Spec

\* A node that is alone on the bus never becomes bus-off: its TEC stops one large
\* increment above the error passive limit, which FaultConfinementAssumption puts
\* below the bus-off limit (err_ctrs_unchanged, bit_err_after_ack_err).
THEOREM CoreLonelyNotBusOff == Spec => []LonelyNotBusOff
  <1>1. IInv /\ HInv /\ [Next]_vars => IInv' /\ HInv'
    BY IInvStep, HInvStep
  <1>2. IInv /\ HInv => LonelyNotBusOff
    BY Zenon DEF HInv
  <1> QED
    BY <1>1, <1>2, IInvInit, HInvInit, PTL DEF Spec

\* Bus-off is left only after complete runs of recessive bits, one when the node
\* was just enabled and ReintegLimit + 1 otherwise, with both error counters at
\* zero (s_pc_integrating, s_pc_reintegrating, reintegration_counter.vhd).
THEOREM CoreRecoversAfterIntegration == Spec => RecoversAfterIntegration
  <1>1. IInv /\ HInv /\ [Next]_vars => IInv' /\ HInv'
    BY IInvStep, HInvStep
  <1>2. IInv /\ HInv /\ [Next]_vars =>
          [fc = "bus_off" /\ fc' # "bus_off" =>
             /\ fc' = "active" /\ tec' = 0 /\ rec' = 0
             /\ sequences' = IF st = "reintegrating" THEN ReintegLimit + 1 ELSE 1]_vars
    BY RecoveryStep, Zenon
  <1> QED
    BY <1>1, <1>2, IInvInit, HInvInit, PTL DEF Spec, RecoversAfterIntegration
=============================================================================
