---------------------------- MODULE LibraryClient ----------------------------
(***************************************************************************)
(* A client of the library of the user-space driver that makes any calls   *)
(* of the functions that configure the controller (ctucanfd_hw.c and the   *)
(* inline functions of ctucanfd_hw.h), in any order.                       *)
(***************************************************************************)
EXTENDS FrameFormat

CONSTANTS
  MaxCalls,      \* calls of a client
  Calls          \* arguments of the calls: a set for each function

\* Numbers are unsigned, prio points to four of them.
ASSUME CallsAssumption ==
  /\ MaxCalls \in Nat
  /\ Calls.ret \subseteq [on : BOOLEAN, limit : Nat]
  /\ Calls.timing \subseteq
       [prop_seg : Nat, phase_seg1 : Nat, phase_seg2 : Nat, brp : Nat, sjw : Nat]
  /\ Calls.ssp \subseteq [enable : BOOLEAN, measure : BOOLEAN, offset : Nat]
  /\ \A p \in Calls.prio : \A k \in 1..4 : p[k] \in Nat
  /\ \A a \in Calls.filter \cup Calls.range : a.on \in BOOLEAN

VARIABLES
  dev,           \* the controller: registers, TXT buffer 1, RX FIFO
  prog,          \* the running program and its local variables
  bus            \* frames in flight and what the peer has heard

vars == <<dev, prog, bus>>

ResetDev(version) ==
  [version |-> version, regs |-> ResetRegs, txt |-> "TXT_ETY", buf |-> EmptyBuffer, fifo |-> <<>>,
   bus_off |-> FALSE, int_stat |-> {}]

QuietBus ==
  [sent |-> <<>>, count |-> 0, got |-> {}, heard |-> {}, fresh |-> FALSE, repeated |-> FALSE]

-----------------------------------------------------------------------------
\* A client of the library.  want is what it has asked for; berr remembers that a mode with
\* BERR_REPORTING was set since the last reset.

ResetWant ==
  [ena    |-> FALSE, modes |-> {"FD"}, ret |-> <<0, 0>>, ints |-> {}, berr |-> FALSE,
   masked |-> {},
   nbt    |-> [prop_seg |-> 5, phase_seg1 |-> 3, phase_seg2 |-> 5, brp |-> 10, sjw |-> 2],
   dbt    |-> [prop_seg |-> 3, phase_seg1 |-> 3, phase_seg2 |-> 3, brp |-> 4, sjw |-> 2],
   ssp    |-> <<0, 10>>, prio |-> <<1, 0, 0, 0>>, tsop |-> 0,
   filter |-> [f \in Filters |-> [on |-> f = "a", can_id |-> {}, can_mask |-> {}]],
   range  |-> [on |-> FALSE, low |-> {}, high |-> {}], txt |-> "TXT_ETY"]

ClientStep(d, want) ==
  /\ prog.kind = "client"
  /\ prog.calls < MaxCalls
  /\ dev' = d
  /\ prog' = [prog EXCEPT !.calls = @ + 1, !.want = want]
  /\ UNCHANGED bus

ClientCall(regs, want) == ClientStep([dev EXCEPT !.regs = regs], want)

EnableCall ==
  \E on \in BOOLEAN : ClientCall(hw_enable(dev.regs, on), [prog.want EXCEPT !.ena = on])

ResetCall == ClientStep([dev EXCEPT !.regs = hw_reset(@), !.txt = "TXT_ETY"], ResetWant)

RetLimitCall ==
  \E a \in Calls.ret :
    ClientCall(set_ret_limit(dev.regs, a.on, a.limit),
               IF a.limit > 15 THEN prog.want
               ELSE [prog.want EXCEPT !.ret = <<IF a.on THEN 1 ELSE 0, a.limit>>])

\* The interrupts in mask are enabled and disabled as val says.
IntCall ==
  \E a \in Calls.ints :
    \/ ClientCall(hw_int_ena(dev.regs, a.mask, a.val),
                  [prog.want EXCEPT !.ints = (@ \ a.mask) \cup (a.mask \cap a.val)])
    \/ ClientCall(hw_int_mask(dev.regs, a.mask, a.val),
                  [prog.want EXCEPT !.masked = (@ \ a.mask) \cup (a.mask \cap a.val)])

\* BERR_REPORTING asks for the bus error interrupt, or against it.
BusErrorInt(modes) == IF "BERR_REPORTING" \in modes THEN Place["int_stat"].bei ELSE {}

ModeCall ==
  \E a \in Calls.mode :
    ClientCall(hw_set_mode(dev.regs, a.mask, a.flags),
      [prog.want EXCEPT
         !.modes = (@ \ a.mask) \cup (a.mask \cap a.flags \cap DOMAIN ModeField),
         !.ret   = IF "ONE_SHOT" \in a.mask THEN <<IF "ONE_SHOT" \in a.flags THEN 1 ELSE 0, 0>> ELSE @,
         !.ints  = (@ \ BusErrorInt(a.mask)) \cup BusErrorInt(a.mask \cap a.flags),
         !.berr  = @ \/ "BERR_REPORTING" \in a.mask])

\* The bit timing can only be changed while the controller is disabled.
TimingCall ==
  \E bt \in Calls.timing, nominal \in BOOLEAN :
    LET field == IF nominal THEN "nbt" ELSE "dbt"
    IN  ClientCall(IF nominal THEN set_nom_bittiming(dev.regs, bt) ELSE set_data_bittiming(dev.regs, bt),
                   IF prog.want.ena THEN prog.want
                   ELSE [prog.want EXCEPT ![field] = Btr(bt, nominal)])

SspCall ==
  \E a \in Calls.ssp :
    ClientCall(configure_ssp(dev.regs, a.enable, a.measure, a.offset),
      IF prog.want.ena THEN prog.want
      ELSE [prog.want EXCEPT !.ssp = <<IF ~a.enable THEN 1 ELSE IF a.measure THEN 0 ELSE 2,
                                      FIELD_PREP(8, a.offset)>>])

\* The library has no call that turns the test mode on: these calls change nothing.
ErrorLimitsCall ==
  \/ ClientCall(set_err_limits(dev.regs, 50, 100), prog.want)
  \/ ClientCall(set_err_ctrs(dev.regs, 1, 2), prog.want)

PriorityCall ==
  \E p \in Calls.prio :
    ClientCall(set_txt_priority(dev.regs, p), [prog.want EXCEPT !.prio = [k \in 1..4 |-> FIELD_PREP(3, p[k])]])

TsopCall ==
  \E v \in {0, 1} : ClientCall(set_rx_tsop(dev.regs, v), [prog.want EXCEPT !.tsop = v])

MaskFilterCall ==
  \E f \in Filters, a \in Calls.filter :
    ClientCall(set_mask_filter(dev.regs, f, a.on, a), [prog.want EXCEPT !.filter[f] = a])

RangeFilterCall ==
  \E a \in Calls.range :
    ClientCall(set_range_filter(dev.regs, a.low, a.high, a.on),
      [prog.want EXCEPT !.range = [on |-> a.on, low |-> id_to_hwid(a.low), high |-> id_to_hwid(a.high)]])

\* ctucan_hw_txt_buf_give_command: the word for TX_COMMAND; buffers are numbered from 0.
give_command(cmd, n) ==
  {b + n : b \in Place["tx_command_txtb_info"].txb1} \cup Place["tx_command_txtb_info"][cmd]

txt_set_empty(n) == give_command("txce", n)
txt_set_rdy(n)   == give_command("txcr", n)
txt_set_abort(n) == give_command("txca", n)

\* What the controller does with TX_COMMAND for buffer 1, decoded with the masks of the
\* kernel driver; a buffer made ready in bus-off fails at once.
Command(word) ==
  LET Has(f) == MaskOf["tx_command_txtb_info"][f] \subseteq word
      idle   == {"TXT_ETY", "TXT_TOK", "TXT_ERR", "TXT_ABT"}
  IN  IF ~Has("txb1") THEN dev.txt
      ELSE IF Has("txcr") /\ dev.txt \in idle THEN IF dev.bus_off THEN "TXT_ERR" ELSE "TXT_RDY"
      ELSE IF Has("txce") /\ dev.txt \in idle THEN "TXT_ETY"
      ELSE IF Has("txca") /\ dev.txt = "TXT_RDY" THEN "TXT_ABT"
      ELSE IF Has("txca") /\ dev.txt = "TXT_TRAN" THEN "TXT_ABTP"
      ELSE dev.txt

\* Buffers 1 and 2 of a controller that is not on a bus; want is about buffer 1.
CommandCall ==
  \E n \in {0, 1} :
    \/ /\ dev.txt # "TXT_RDY"
       /\ ClientStep([dev EXCEPT !.txt = Command(txt_set_rdy(n))],
                     [prog.want EXCEPT !.txt = IF n = 0 THEN "TXT_RDY" ELSE @])
    \/ /\ dev.txt # "TXT_RDY"
       /\ ClientStep([dev EXCEPT !.txt = Command(txt_set_empty(n))],
                     [prog.want EXCEPT !.txt = IF n = 0 THEN "TXT_ETY" ELSE @])
    \/ /\ dev.txt = "TXT_RDY"
       /\ ClientStep([dev EXCEPT !.txt = Command(txt_set_abort(n))],
                     [prog.want EXCEPT !.txt = IF n = 0 THEN "TXT_ABT" ELSE @])

ClientNext ==
  \/ EnableCall \/ ResetCall \/ RetLimitCall \/ IntCall \/ ModeCall \/ TimingCall \/ SspCall
  \/ ErrorLimitsCall \/ PriorityCall \/ TsopCall \/ MaskFilterCall \/ RangeFilterCall \/ CommandCall

ClientInit ==
  /\ dev = ResetDev(26)
  /\ prog = [kind |-> "client", calls |-> 0, want |-> ResetWant]
  /\ bus = QuietBus

ClientSpec == ClientInit /\ [][ClientNext]_vars

-----------------------------------------------------------------------------

\* What the words of the registers say, read with the masks of the kernel driver.
EnaOf(w)   == Field("mode_settings", "ena", w) = 1
ModesOf(w) == {m \in DOMAIN ModeField : Field("mode_settings", ModeField[m], w) = 1}
RetOf(w)   == <<Field("mode_settings", "rtrle", w), Field("mode_settings", "rtrth", w)>>
NbtOf(w)   ==
  [prop_seg |-> Field("btr", "prop", w), phase_seg1 |-> Field("btr", "ph1", w),
   phase_seg2 |-> Field("btr", "ph2", w), brp |-> Field("btr", "brp", w), sjw |-> Field("btr", "sjw", w)]
DbtOf(w)   ==
  [prop_seg |-> Field("btr_fd", "prop_fd", w), phase_seg1 |-> Field("btr_fd", "ph1_fd", w),
   phase_seg2 |-> Field("btr_fd", "ph2_fd", w), brp |-> Field("btr_fd", "brp_fd", w),
   sjw |-> Field("btr_fd", "sjw_fd", w)]
SspOf(w)   == <<Field("trv_delay_ssp_cfg", "ssp_src", w), Field("trv_delay_ssp_cfg", "ssp_offset", w)>>
PrioOf(w)  ==
  [k \in 1..4 |-> Field("tx_priority", <<"txt1p", "txt2p", "txt3p", "txt4p">>[k], w)]
TsopOf(w)  == Field("rx_status_rx_settings", "rtsop", w)
FilterOn(f, w) ==
  \A g \in FilterFields[f] : Field("filter_control_filter_status", g, w) = 1

Decoded ==
  [ena    |-> EnaOf(dev.regs.mode_settings),
   modes  |-> ModesOf(dev.regs.mode_settings),
   ret    |-> RetOf(dev.regs.mode_settings),
   ints   |-> dev.regs.int_ena_set, masked |-> dev.regs.int_mask_set,
   nbt    |-> NbtOf(dev.regs.btr), dbt |-> DbtOf(dev.regs.btr_fd),
   ssp    |-> SspOf(dev.regs.trv_delay_ssp_cfg),
   prio   |-> PrioOf(dev.regs.tx_priority),
   tsop   |-> TsopOf(dev.regs.rx_status_rx_settings),
   filter |-> [f \in Filters |-> [on   |-> FilterOn(f, dev.regs.filter_control_filter_status),
                                  mask |-> dev.regs[FilterMask[f]], val |-> dev.regs[FilterVal[f]]]],
   range  |-> [on  |-> FilterOn("r", dev.regs.filter_control_filter_status),
               low |-> dev.regs.filter_ran_low, high |-> dev.regs.filter_ran_high],
   txt    |-> dev.txt]

\* After any sequence of library calls the controller has the settings that were asked for:
\* no call disturbs what another has set, a refused or locked call changes nothing, and the
\* error limits never leave their reset values.  Two things are left open, because the code
\* gets them wrong (SettingsAsRequested): which of its two registers holds the mask of a
\* filter and which the identifier (ctucan_hw_set_mask_filter), and the bus error interrupt
\* once a mode with BERR_REPORTING was set (ctucan_hw_set_mode).
OtherSettingsKept ==
  prog.kind = "client" =>
    /\ \A k \in DOMAIN Decoded \ {"ints", "filter"} : Decoded[k] = prog.want[k]
    /\ LET open == IF prog.want.berr THEN Place["int_stat"].bei ELSE {}
       IN  Decoded.ints \ open = prog.want.ints \ open
    /\ \A f \in Filters :
         /\ Decoded.filter[f].on = prog.want.filter[f].on
         /\ {Decoded.filter[f].mask, Decoded.filter[f].val}
              = {id_to_hwid(prog.want.filter[f].can_mask), id_to_hwid(prog.want.filter[f].can_id)}
    /\ Field("ewl_erp_fault_state", "ew_limit", dev.regs.ewl_erp_fault_state) = 96
    /\ Field("ewl_erp_fault_state", "erp_limit", dev.regs.ewl_erp_fault_state) = 128

\* The settings are exactly those asked for: a filter lets the frames through whose identifier
\* agrees with can_id under can_mask, as struct can_filter of ctucanfd_linux_defs.h says
\* ("<received_can_id> & mask == can_id & mask"), and BERR_REPORTING decides about the bus
\* error interrupt ("Bus error reporting -> Allow Error interrupt").
SettingsAsRequested ==
  /\ OtherSettingsKept
  /\ prog.kind = "client" =>
       /\ Decoded.ints = prog.want.ints
       /\ \A f \in Filters :
            /\ Decoded.filter[f].mask = id_to_hwid(prog.want.filter[f].can_mask)
            /\ Decoded.filter[f].val = id_to_hwid(prog.want.filter[f].can_id)

=============================================================================
