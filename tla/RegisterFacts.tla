---------------------------- MODULE RegisterFacts ----------------------------
(***************************************************************************)
(* What the register layouts, the masks, powers of two and Number come to, *)
(* for the fields that the calls of a client set: closed formulas that TLC *)
(* evaluates, from the definitions, and that proofs can use.  The folds    *)
(* behind Place and Number are beyond the provers.                         *)
(***************************************************************************)
EXTENDS LibraryClient

\* Field f of register r is at these bits in both descriptions.
FieldAt(r, f, lo, hi) == Place[r][f] = lo..hi /\ MaskOf[r][f] = lo..hi

ASSUME ModeLayout ==
  /\ FieldAt("mode_settings", "rst", 0, 0) /\ FieldAt("mode_settings", "bmm", 1, 1)
  /\ FieldAt("mode_settings", "stm", 2, 2) /\ FieldAt("mode_settings", "fde", 4, 4)
  /\ FieldAt("mode_settings", "tstm", 8, 8) /\ FieldAt("mode_settings", "rtrle", 16, 16)
  /\ FieldAt("mode_settings", "rtrth", 17, 20) /\ FieldAt("mode_settings", "ilbp", 21, 21)
  /\ FieldAt("mode_settings", "ena", 22, 22) /\ FieldAt("mode_settings", "nisofd", 23, 23)

ASSUME BtrLayout ==
  /\ FieldAt("btr", "prop", 0, 6) /\ FieldAt("btr", "ph1", 7, 12)
  /\ FieldAt("btr", "ph2", 13, 18) /\ FieldAt("btr", "brp", 19, 26)
  /\ FieldAt("btr", "sjw", 27, 31)

ASSUME BtrFdLayout ==
  /\ FieldAt("btr_fd", "prop_fd", 0, 5) /\ FieldAt("btr_fd", "ph1_fd", 7, 11)
  /\ FieldAt("btr_fd", "ph2_fd", 13, 17) /\ FieldAt("btr_fd", "brp_fd", 19, 26)
  /\ FieldAt("btr_fd", "sjw_fd", 27, 31)

ASSUME SspLayout ==
  /\ FieldAt("trv_delay_ssp_cfg", "ssp_offset", 16, 23)
  /\ FieldAt("trv_delay_ssp_cfg", "ssp_src", 24, 25)

ASSUME PriorityLayout ==
  /\ FieldAt("tx_priority", "txt1p", 0, 2) /\ FieldAt("tx_priority", "txt2p", 4, 6)
  /\ FieldAt("tx_priority", "txt3p", 8, 10) /\ FieldAt("tx_priority", "txt4p", 12, 14)

ASSUME RxSettingsLayout ==
  /\ FieldAt("rx_status_rx_settings", "rtsop", 16, 16)

FilterBits == [a |-> 0..3, b |-> 4..7, c |-> 8..11, r |-> 12..15]

ASSUME FilterLayout ==
  /\ \A f \in DOMAIN FilterBits :
       /\ \A g \in FilterFields[f] : \E b \in FilterBits[f] : FieldAt("filter_control_filter_status", g, b, b)
       /\ \A b \in FilterBits[f] : \E g \in FilterFields[f] : FieldAt("filter_control_filter_status", g, b, b)
  /\ FieldAt("filter_control_filter_status", "sfa", 16, 16)
  /\ FieldAt("filter_control_filter_status", "sfb", 17, 17)
  /\ FieldAt("filter_control_filter_status", "sfc", 18, 18)

ASSUME CommandLayout ==
  /\ FieldAt("tx_command_txtb_info", "txce", 0, 0)
  /\ FieldAt("tx_command_txtb_info", "txcr", 1, 1)
  /\ FieldAt("tx_command_txtb_info", "txca", 2, 2)
  /\ FieldAt("tx_command_txtb_info", "txb1", 8, 8)

ASSUME PowerFacts ==
  /\ 2^0 = 1 /\ 2^1 = 2 /\ 2^2 = 4 /\ 2^3 = 8 /\ 2^4 = 16
  /\ 2^5 = 32 /\ 2^6 = 64 /\ 2^7 = 128 /\ 2^8 = 256

\* The bits that a field of w bits can hold.
Cut(bits, w) == bits \cap 0..(w - 1)

ASSUME NumberFacts ==
  /\ Number({}) = 0 /\ Number({0}) = 1
  /\ \A n \in 0..255, w \in 1..8 : Number(Cut(BitsOf(n), w)) = n % 2^w

\* The registers, and what their words say after a reset.
RegNames ==
  {"mode_settings", "btr", "btr_fd", "trv_delay_ssp_cfg", "ewl_erp_fault_state", "tx_priority",
   "rx_status_rx_settings", "filter_control_filter_status", "int_ena_set", "int_mask_set",
   "filter_a_mask", "filter_a_val", "filter_b_mask", "filter_b_val", "filter_c_mask",
   "filter_c_val", "filter_ran_low", "filter_ran_high"}

ASSUME ResetFacts ==
  /\ ResetRegs = [r \in RegNames |-> ResetRegs[r]]
  /\ {0, 1, 2, 8, 16, 21, 22, 23} \cap ResetRegs.mode_settings = {} /\ 4 \in ResetRegs.mode_settings
  /\ Field("mode_settings", "rtrth", ResetRegs.mode_settings) = 0
  /\ ResetRegs.int_ena_set = {} /\ ResetRegs.int_mask_set = {}
  /\ NbtOf(ResetRegs.btr) = ResetWant.nbt /\ DbtOf(ResetRegs.btr_fd) = ResetWant.dbt
  /\ SspOf(ResetRegs.trv_delay_ssp_cfg) = ResetWant.ssp
  /\ PrioOf(ResetRegs.tx_priority) = ResetWant.prio
  /\ 16 \notin ResetRegs.rx_status_rx_settings
  /\ ResetRegs.filter_control_filter_status \cap 0..18 = 0..3 \cup 16..18
  /\ \A f \in Filters : ResetRegs[FilterMask[f]] = {} /\ ResetRegs[FilterVal[f]] = {}
  /\ ResetRegs.filter_ran_low = {} /\ ResetRegs.filter_ran_high = {}
  /\ id_to_hwid({}) = {}
  /\ Field("ewl_erp_fault_state", "ew_limit", ResetRegs.ewl_erp_fault_state) = 96
  /\ Field("ewl_erp_fault_state", "erp_limit", ResetRegs.ewl_erp_fault_state) = 128

=============================================================================
