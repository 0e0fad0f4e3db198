-------------------------- MODULE FaultConfinement --------------------------
(***************************************************************************)
(* The fault confinement of the core (fault_confinement_fsm.vhd,           *)
(* fault_confinement_rules.vhd, err_counters.vhd): the error counters TEC  *)
(* and REC, the rules that move them and the state machine they drive.     *)
(* All definitions are about one clock cycle; the signals of the cycle are *)
(* parameters.  The preset of the counters in test mode and the counters   *)
(* of errors per bit rate, which nothing else reads, are left out.         *)
(***************************************************************************)
EXTENDS Integers

CONSTANTS
    ErpLimit,    \* ERP: error passive from this value on (128)
    BusOffLimit, \* bus-off above this value of TEC (255)
    IncEight,    \* the large increment (8)
    CtrMod,      \* number of values of a counter (512)
    RecHigh,     \* above this value REC is set back instead of decremented (127)
    RecBack      \* ... to this one (120)

ASSUME FaultConfinementAssumption ==
    /\ {ErpLimit, BusOffLimit, IncEight, CtrMod, RecHigh, RecBack} \subseteq Nat
    /\ 0 < ErpLimit /\ ErpLimit + IncEight <= BusOffLimit
    /\ 0 < IncEight /\ BusOffLimit + 2 * IncEight < CtrMod
    /\ RecBack <= RecHigh /\ RecHigh < CtrMod

FcStates == {"active", "passive", "bus_off"}

Counter == 0 .. CtrMod - 1

-----------------------------------------------------------------------------
(* Rules (fault_confinement_rules.vhd).  g holds the signals of protocol   *)
(* control and error detector, flag is act_err_ovr_flag, rom is MODE[ROM]. *)

IncrementByOne(op, flag, rom, g) ==
    g.err_detected /\ ~flag /\ op = "receiver" /\ ~rom

\* Faulty variant: the exceptions for transmitters are forgotten.
IncrementByEightAlways(op, flag, rom, g) ==
    /\ ~rom
    /\ \/ g.primary_err /\ op = "receiver"
       \/ flag /\ g.err_detected
       \/ op = "transmitter" /\ g.err_detected
       \/ g.err_delim_late \/ g.bit_err_after_ack_err

IncrementByEight(op, flag, rom, g) ==
    /\ ~rom
    /\ \/ g.primary_err /\ op = "receiver"
       \/ flag /\ g.err_detected
       \/ op = "transmitter" /\ g.err_detected /\ ~g.err_ctrs_unchanged
       \/ g.err_delim_late \/ g.bit_err_after_ack_err

-----------------------------------------------------------------------------
(* Counters (err_counters.vhd).  inc and dec are the commands of the rules *)
(* for the unit's role.                                                    *)

\* TEC is not saturated.
TxErrCtr(tec, op, inc8, dec) ==
    CASE op = "transmitter" /\ inc8          -> (tec + IncEight) % CtrMod
      [] op = "transmitter" /\ ~inc8 /\ dec  -> IF tec > 0 THEN tec - 1 ELSE tec
      [] ~(op = "transmitter" /\ (inc8 \/ dec)) -> tec

\* REC saturates, and a good frame brings a high REC back below the limit.
RxErrCtr(rec, op, inc1, inc8, dec) ==
    CASE op = "receiver" /\ (inc1 \/ inc8) ->
            LET inc == (rec + (IF inc1 THEN 1 ELSE IncEight)) % CtrMod
            IN  IF inc < rec THEN CtrMod - 1 ELSE inc
      [] op = "receiver" /\ ~(inc1 \/ inc8) /\ dec ->
            IF rec > RecHigh THEN RecBack ELSE IF rec > 0 THEN rec - 1 ELSE rec
      [] ~(op = "receiver" /\ (inc1 \/ inc8 \/ dec)) -> rec

-----------------------------------------------------------------------------
(* State machine (fault_confinement_fsm.vhd).                              *)

\* Faulty variant: a limit with one bit more.
FcNextLate(fc, tec, rec, set_err_active) ==
    CASE fc = "active"  -> IF tec >= ErpLimit \/ rec >= ErpLimit
                           THEN "passive" ELSE "active"
      [] fc = "passive" -> IF tec > 2 * BusOffLimit + 1 THEN "bus_off"
                           ELSE IF tec < ErpLimit /\ rec < ErpLimit
                           THEN "active" ELSE "passive"
      [] fc = "bus_off" -> IF set_err_active THEN "active" ELSE "bus_off"

FcNext(fc, tec, rec, set_err_active) ==
    CASE fc = "active"  -> IF tec >= ErpLimit \/ rec >= ErpLimit
                           THEN "passive" ELSE "active"
      [] fc = "passive" -> IF tec > BusOffLimit THEN "bus_off"
                           ELSE IF tec < ErpLimit /\ rec < ErpLimit
                           THEN "active" ELSE "passive"
      [] fc = "bus_off" -> IF set_err_active THEN "active" ELSE "bus_off"
=============================================================================
