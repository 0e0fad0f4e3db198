------------------------------- MODULE HwLayer -------------------------------
(***************************************************************************)
(* The low-level library of the user-space driver (ctucanfd_hw.c and the   *)
(* inline functions of ctucanfd_hw.h) as operators on the register file.   *)
(* regs gives the word a read of each modelled register returns.  CAN      *)
(* identifiers and flags of canid_t are sets of bits: 31 is CAN_EFF_FLAG,   *)
(* 30 CAN_RTR_FLAG.                                                        *)
(***************************************************************************)
EXTENDS RegisterMap, BitTiming

Filters == {"a", "b", "c"}

\* The fields that are not zero after a reset (all filters are synthesised).
ResetFields ==
  [mode_settings         |-> [fde |-> 1, rxbam |-> 1, tbfbo |-> 1],
   btr                   |-> [prop |-> 5, ph1 |-> 3, ph2 |-> 5, brp |-> 10, sjw |-> 2],
   btr_fd                |-> [prop_fd |-> 3, ph1_fd |-> 3, ph2_fd |-> 3, brp_fd |-> 4, sjw_fd |-> 2],
   trv_delay_ssp_cfg     |-> [ssp_offset |-> 10],
   ewl_erp_fault_state   |-> [ew_limit |-> 96, erp_limit |-> 128, bof |-> 1],
   tx_priority           |-> [txt1p |-> 1],
   rx_status_rx_settings |-> [rxe |-> 1],
   filter_control_filter_status |-> [fanb |-> 1, fane |-> 1, fafb |-> 1, fafe |-> 1,
                                     sfa |-> 1, sfb |-> 1, sfc |-> 1, sfr |-> 1]]

ResetRegs ==
  [r \in DOMAIN ResetFields |-> Word(r, ResetFields[r])]
  @@ [r \in {"int_ena_set", "int_mask_set", "filter_a_mask", "filter_a_val", "filter_b_mask",
              "filter_b_val", "filter_c_mask", "filter_c_val", "filter_ran_low", "filter_ran_high"} |-> {}]

Is(regs, r, f) == Get(regs[r], r, f) # {}

\* Writes the controller ignores: the bit timing while it is enabled, the error limits
\* and counter presets outside the test mode.
LockedIn(mode, place) ==
  (IF place.ena \subseteq mode THEN {"btr", "btr_fd", "trv_delay_ssp_cfg"} ELSE {})
  \cup (IF place.tstm \subseteq mode THEN {} ELSE {"ewl_erp_fault_state", "ctr_pres"})

Locked(regs) == LockedIn(regs.mode_settings, Place["mode_settings"])

\* priv->write_reg: what a write does to the registers.
write_reg(regs, r, word) ==
  IF r \in Locked(regs) THEN regs
  ELSE CASE r = "mode_settings" /\ Place[r].rst \subseteq word -> ResetRegs
    [] r = "int_ena_set" -> [regs EXCEPT !.int_ena_set = @ \cup word]
    [] r = "int_ena_clr" -> [regs EXCEPT !.int_ena_set = @ \ word]
    [] r = "int_mask_set" -> [regs EXCEPT !.int_mask_set = @ \cup word]
    [] r = "int_mask_clr" -> [regs EXCEPT !.int_mask_set = @ \ word]
    [] r = "filter_control_filter_status" ->
         [regs EXCEPT ![r] = (@ \cap 16..31) \cup (word \cap 0..15)]
    [] r = "ewl_erp_fault_state" -> [regs EXCEPT ![r] = (@ \cap 16..31) \cup (word \cap 0..15)]
    [] r = "rx_status_rx_settings" -> [regs EXCEPT ![r] = (@ \cap 0..15) \cup (word \ 0..15)]
    [] r = "ctr_pres" -> regs
    [] OTHER -> [regs EXCEPT ![r] = word]

-----------------------------------------------------------------------------

CAN_EFF_MASK == 0..28
CAN_SFF_MASK == 0..10
CAN_EFF_FLAG == 31
CAN_RTR_FLAG == 30

id_to_hwid(id) ==
  IF CAN_EFF_FLAG \in id
  THEN Put(Put({}, "identifier_w", "identifier_base", {b - 18 : b \in (id \cap CAN_EFF_MASK) \ 0..17}),
           "identifier_w", "identifier_ext", id \cap 0..17)
  ELSE Put({}, "identifier_w", "identifier_base", id \cap CAN_SFF_MASK)

hwid_to_id(hwid, extended) ==
  IF extended
  THEN {CAN_EFF_FLAG} \cup {b + 18 : b \in Get(hwid, "identifier_w", "identifier_base")}
       \cup Get(hwid, "identifier_w", "identifier_ext")
  ELSE Get(hwid, "identifier_w", "identifier_base")

-----------------------------------------------------------------------------

hw_enable(regs, enable) ==
  write_reg(regs, "mode_settings", Put(regs.mode_settings, "mode_settings", "ena", Enabled(enable)))

hw_reset(regs) == write_reg(regs, "mode_settings", Place["mode_settings"].rst)

\* A limit above 15 is refused and changes nothing.
set_ret_limit(regs, enable, limit) ==
  IF limit > 15 THEN regs
  ELSE write_reg(regs, "mode_settings",
         Put(Put(regs.mode_settings, "mode_settings", "rtrle", Enabled(enable)),
             "mode_settings", "rtrth", BitsOf(limit)))

\* The bit of the MODE register that ctucan_hw_set_mode_reg changes for each mode.
ModeField ==
  [LOOPBACK |-> "ilbp", LISTENONLY |-> "bmm", FD |-> "fde", PRESUME_ACK |-> "stm",
   FD_NON_ISO |-> "nisofd"]

set_mode_reg(regs, mask, flags) ==
  LET Of(modes) == UNION {Place["mode_settings"][ModeField[m]] : m \in DOMAIN ModeField \cap modes}
  IN  write_reg(regs, "mode_settings", (regs.mode_settings \ Of(mask)) \cup Of(mask \cap flags))

\* ctucan_hw_int_conf for the enable and for the mask register of the interrupts.
hw_int_ena(regs, mask, val) ==
  write_reg(write_reg(regs, "int_ena_set", mask \cap val), "int_ena_clr", mask \ val)

hw_int_mask(regs, mask, val) ==
  write_reg(write_reg(regs, "int_mask_set", mask \cap val), "int_mask_clr", mask \ val)

\* The bus error interrupt is enabled for ONE_SHOT instead of BERR_REPORTING, and the
\* arguments are passed as (value, mask): it is never disabled.
hw_set_mode(regs, mask, flags) ==
  LET bei == Place["int_stat"].bei
      r1  == set_mode_reg(regs, mask, flags)
      r2  == IF "ONE_SHOT" \in mask THEN set_ret_limit(r1, "ONE_SHOT" \in flags, 0) ELSE r1
      ena == IF "ONE_SHOT" \in flags THEN bei ELSE {}
  IN  IF "BERR_REPORTING" \in mask THEN hw_int_ena(r2, ena, bei) ELSE r2

-----------------------------------------------------------------------------

\* The word for BTR or BTR_FD.
BtrWord(bt, nominal) ==
  LET t == Redistribute(bt, nominal)
  IN  IF nominal
      THEN Word("btr", [prop |-> t.prop_seg, ph1 |-> t.phase_seg1, ph2 |-> t.phase_seg2,
                        brp |-> t.brp, sjw |-> t.sjw])
      ELSE Word("btr_fd", [prop_fd |-> t.prop_seg, ph1_fd |-> t.phase_seg1,
                           ph2_fd |-> t.phase_seg2, brp_fd |-> t.brp, sjw_fd |-> t.sjw])

set_nom_bittiming(regs, nbt) == write_reg(regs, "btr", BtrWord(nbt, TRUE))

set_data_bittiming(regs, dbt) == write_reg(regs, "btr_fd", BtrWord(dbt, FALSE))

configure_ssp(regs, enable_ssp, use_trv_delay, ssp_offset) ==
  LET src == IF ~enable_ssp THEN ssp_src_code.SSP_SRC_NO_SSP
             ELSE IF use_trv_delay THEN ssp_src_code.SSP_SRC_MEAS_N_OFFSET
             ELSE ssp_src_code.SSP_SRC_OFFSET
  IN  write_reg(regs, "trv_delay_ssp_cfg",
                Word("trv_delay_ssp_cfg", [ssp_src |-> src, ssp_offset |-> ssp_offset]))

set_err_limits(regs, ewl, erp) ==
  write_reg(regs, "ewl_erp_fault_state",
            Word("ewl_erp_fault_state", [ew_limit |-> ewl, erp_limit |-> erp]))

\* Two writes of the preset register, one per counter; the counters are not in regs.
set_err_ctrs(regs, txerr, rxerr) ==
  write_reg(write_reg(regs, "ctr_pres", Word("ctr_pres", [ctpv |-> txerr, ptx |-> 1])),
            "ctr_pres", Word("ctr_pres", [ctpv |-> rxerr, prx |-> 1]))

set_txt_priority(regs, prio) ==
  write_reg(regs, "tx_priority", Word("tx_priority",
    [txt1p |-> prio[1], txt2p |-> prio[2], txt3p |-> prio[3], txt4p |-> prio[4]]))

\* The status bits of the word are read-only.
set_rx_tsop(regs, val) ==
  write_reg(regs, "rx_status_rx_settings", Word("rx_status_rx_settings", [rtsop |-> val]))

\* ctucan_hw_read_error_state, of the words of EWL and REC.
read_error_state(ewl, rec) ==
  LET v(f)    == Number(Get(rec, "rec_tec", f))
      limit   == Number(Get(ewl, "ewl_erp_fault_state", "ew_limit"))
      flag(f) == Get(ewl, "ewl_erp_fault_state", f) # {}
  IN  IF flag("era")
      THEN IF limit > v("rec_val") /\ limit > v("tec_val") THEN "ERROR_ACTIVE" ELSE "ERROR_WARNING"
      ELSE IF ~flag("erp") /\ flag("bof") THEN "BUS_OFF" ELSE "ERROR_PASSIVE"

-----------------------------------------------------------------------------

\* The fields and registers of each filter.
FilterSupport == [a |-> "sfa", b |-> "sfb", c |-> "sfc"]
FilterFields ==
  [a |-> {"fanb", "fane", "fafb", "fafe"}, b |-> {"fbnb", "fbne", "fbfb", "fbfe"},
   c |-> {"fcnb", "fcne", "fcfb", "fcfe"}, r |-> {"frnb", "frne", "frfb", "frfe"}]
FilterMask == [a |-> "filter_a_mask", b |-> "filter_b_mask", c |-> "filter_c_mask"]
FilterVal  == [a |-> "filter_a_val", b |-> "filter_b_val", c |-> "filter_c_val"]

get_mask_filter_support(regs, f) == Is(regs, "filter_control_filter_status", FilterSupport[f])

FilterControl(regs, f, enable) ==
  LET all == UNION {Place["filter_control_filter_status"][g] : g \in FilterFields[f]}
      old == regs.filter_control_filter_status
  IN  IF enable THEN old \cup all ELSE old \ all

\* Faulty variant: the control word is built from zero.
set_mask_filter_alone(regs, f, enable, filter) ==
  IF ~get_mask_filter_support(regs, f) THEN regs
  ELSE write_reg(write_reg(write_reg(regs, "filter_control_filter_status",
           FilterControl(regs, f, enable) \cap UNION {Place["filter_control_filter_status"][g] : g \in FilterFields[f]}),
         FilterMask[f], id_to_hwid(filter.can_id)),
         FilterVal[f], id_to_hwid(filter.can_mask))

\* The mask register gets can_id and the value register can_mask.
set_mask_filter(regs, f, enable, filter) ==
  IF ~get_mask_filter_support(regs, f) THEN regs
  ELSE write_reg(write_reg(write_reg(regs, "filter_control_filter_status",
                                     FilterControl(regs, f, enable)),
         FilterMask[f], id_to_hwid(filter.can_id)),
         FilterVal[f], id_to_hwid(filter.can_mask))

set_range_filter(regs, low_th, high_th, enable) ==
  write_reg(write_reg(write_reg(regs, "filter_control_filter_status",
                                FilterControl(regs, "r", enable)),
    "filter_ran_low", id_to_hwid(low_th)), "filter_ran_high", id_to_hwid(high_th))

=============================================================================
