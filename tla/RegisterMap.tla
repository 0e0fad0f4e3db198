----------------------------- MODULE RegisterMap -----------------------------
(***************************************************************************)
(* The register map of the user-space driver: the bit fields of the unions *)
(* of ctucanfd_regs.h and ctucanfd_frame.h, and the addresses.  A 32-bit   *)
(* word is the set of the numbers of its bits that are one.  A layout lists *)
(* the fields of a word from bit 0 on; the branch of a union for big-endian *)
(* compilers lists the same fields from bit 31 down and is the same layout. *)
(***************************************************************************)
EXTENDS Integers, Sequences, TLC, Folds

\* A field of w bits, a run of one-bit fields, and w reserved bits.
F(name, w) == <<<<name, w>>>>

Bits(names) == [i \in 1..Len(names) |-> <<names[i], 1>>]

Gap(w) == IF w = 0 THEN <<>> ELSE F("reserved", w)

Only(name, w) == F(name, w) \o Gap(32 - w)

-----------------------------------------------------------------------------
device_id_version == F("device_id", 16) \o F("ver_minor", 8) \o F("ver_major", 8)

mode_settings ==
  Bits(<<"rst", "bmm", "stm", "afm", "fde", "tttm", "rom", "acf", "tstm", "rxbam", "txbbm",
      "sam", "erfm">>)
  \o Gap(3) \o Bits(<<"rtrle">>) \o F("rtrth", 4)
  \o Bits(<<"ilbp", "ena", "nisofd", "pex", "tbfbo", "fdrf", "pchke">>) \o Gap(4)

status ==
  Bits(<<"rxne", "dor", "txnf", "eft", "rxs", "txs", "ewl", "idle", "pexs", "rxpe", "txpe",
      "txdpe">>)
  \o Gap(4) \o Bits(<<"stcnt", "strgs", "sprt">>) \o Gap(13)

command ==
  Gap(1)
  \o Bits(<<"rxrpmv", "rrb", "cdo", "ercrst", "rxfcrst", "txfcrst", "cpexs", "crxpe", "ctxpe",
      "ctxdpe">>)
  \o Gap(21)

int_stat ==
  Bits(<<"rxi", "txi", "ewli", "doi", "fcsi", "ali", "bei", "ofi", "rxfi", "bsi", "rbnei",
      "txbhci">>)
  \o Gap(20)

int_enable_words ==
  [int_ena_set |-> Only("int_ena_set", 12), int_ena_clr |-> Only("int_ena_clr", 12),
   int_mask_set |-> Only("int_mask_set", 12), int_mask_clr |-> Only("int_mask_clr", 12)]

btr == F("prop", 7) \o F("ph1", 6) \o F("ph2", 6) \o F("brp", 8) \o F("sjw", 5)

btr_fd ==
  F("prop_fd", 6) \o Gap(1) \o F("ph1_fd", 5) \o Gap(1) \o F("ph2_fd", 5) \o Gap(1)
  \o F("brp_fd", 8) \o F("sjw_fd", 5)

ewl_erp_fault_state ==
  F("ew_limit", 8) \o F("erp_limit", 8) \o Bits(<<"era", "erp", "bof">>) \o Gap(13)

\* Faulty variant: no gap between the two counters.
rec_tec_packed == F("rec_val", 9) \o F("tec_val", 9) \o Gap(14)

rec_tec == F("rec_val", 9) \o Gap(7) \o F("tec_val", 9) \o Gap(7)

err_norm_err_fd == F("err_norm_val", 16) \o F("err_fd_val", 16)

ctr_pres == F("ctpv", 9) \o Bits(<<"ptx", "prx", "enorm", "efd">>) \o Gap(19)

filter_words ==
  [filter_a_mask |-> Only("bit_mask_a_val", 29), filter_a_val |-> Only("bit_val_a_val", 29),
   filter_b_mask |-> Only("bit_mask_b_val", 29), filter_b_val |-> Only("bit_val_b_val", 29),
   filter_c_mask |-> Only("bit_mask_c_val", 29), filter_c_val |-> Only("bit_val_c_val", 29),
   filter_ran_low |-> Only("bit_ran_low_val", 29),
   filter_ran_high |-> Only("bit_ran_high_val", 29)]

filter_control_filter_status ==
  Bits(<<"fanb", "fane", "fafb", "fafe", "fbnb", "fbne", "fbfb", "fbfe", "fcnb", "fcne", "fcfb",
      "fcfe", "frnb", "frne", "frfb", "frfe", "sfa", "sfb", "sfc", "sfr">>)
  \o Gap(12)

rx_mem_info == F("rx_buff_size", 13) \o Gap(3) \o F("rx_mem_free", 13) \o Gap(3)

rx_pointers == F("rx_wpp", 12) \o Gap(4) \o F("rx_rpp", 12) \o Gap(4)

rx_status_rx_settings ==
  Bits(<<"rxe", "rxf", "rxmof">>) \o Gap(1) \o F("rxfrc", 11) \o Gap(1) \o Bits(<<"rtsop">>)
  \o Gap(15)

rx_data == F("rx_data", 32)

tx_status ==
  F("tx1s", 4) \o F("tx2s", 4) \o F("tx3s", 4) \o F("tx4s", 4) \o F("tx5s", 4) \o F("tx6s", 4)
  \o F("tx7s", 4) \o F("tx8s", 4)

tx_command_txtb_info ==
  Bits(<<"txce", "txcr", "txca">>) \o Gap(5)
  \o Bits(<<"txb1", "txb2", "txb3", "txb4", "txb5", "txb6", "txb7", "txb8">>)
  \o F("txt_buffer_count", 4) \o Gap(12)

tx_priority ==
  F("txt1p", 3) \o Gap(1) \o F("txt2p", 3) \o Gap(1) \o F("txt3p", 3) \o Gap(1) \o F("txt4p", 3)
  \o Gap(1) \o F("txt5p", 3) \o Gap(1) \o F("txt6p", 3) \o Gap(1) \o F("txt7p", 3) \o Gap(1)
  \o F("txt8p", 3) \o Gap(1)

err_capt_retr_ctr_alc_ts_info ==
  F("err_pos", 4) \o Bits(<<"err_erp">>) \o F("err_type", 3) \o F("retr_ctr_val", 4) \o Gap(4)
  \o F("alc_bit", 5) \o F("alc_id_field", 3) \o F("ts_bits", 6) \o Gap(2)

trv_delay_ssp_cfg ==
  F("trv_delay_value", 7) \o Gap(9) \o F("ssp_offset", 8) \o F("ssp_src", 2) \o Gap(6)

frame_counters ==
  [rx_fr_ctr |-> Only("rx_fr_ctr_val", 32), tx_fr_ctr |-> Only("tx_fr_ctr_val", 32)]

debug_register ==
  F("stuff_count", 3) \o F("destuff_count", 3)
  \o Bits(<<"pc_arb", "pc_con", "pc_dat", "pc_stc", "pc_crc", "pc_crcd", "pc_ack", "pc_ackd",
      "pc_eof", "pc_int", "pc_susp", "pc_ovr", "pc_sof">>)
  \o Gap(13)

yolo_reg == F("yolo_val", 32)

timestamp_words ==
  [timestamp_low |-> Only("timestamp_low", 32), timestamp_high |-> Only("timestamp_high", 32)]

tst_control_words ==
  [tst_control |-> Bits(<<"tmaena", "twrstb">>) \o Gap(30),
   tst_dest |-> F("tst_addr", 16) \o F("tst_mtgt", 4) \o Gap(12)]

tst_data_words ==
  [tst_wdata |-> Only("tst_wdata", 32), tst_rdata |-> Only("tst_rdata", 32)]

frame_format_w ==
  F("dlc", 4) \o Bits(<<"erf", "rtr", "ide", "fdf", "lbpf", "brs", "esi_rsv">>) \o F("rwcnt", 5)
  \o F("erf_pos", 4) \o Bits(<<"erf_erp">>) \o F("erf_type", 3) \o Bits(<<"ivld">>)
  \o F("lbtbi", 3) \o Gap(4)

identifier_w == F("identifier_ext", 18) \o F("identifier_base", 11) \o Gap(3)

frame_timestamp_words ==
  [timestamp_l_w |-> Only("time_stamp_l_w", 32), timestamp_u_w |-> Only("timestamp_u_w", 32)]

frame_test_w == Bits(<<"fstc", "fcrc", "sdlc">>) \o Gap(5) \o F("tprm", 5) \o Gap(19)

\* Every word of the map.
Bitfields ==
  [device_id_version |-> device_id_version, mode_settings |-> mode_settings, status |-> status,
   command |-> command, int_stat |-> int_stat, btr |-> btr, btr_fd |-> btr_fd,
   ewl_erp_fault_state |-> ewl_erp_fault_state, rec_tec |-> rec_tec,
   err_norm_err_fd |-> err_norm_err_fd, ctr_pres |-> ctr_pres,
   filter_control_filter_status |-> filter_control_filter_status, rx_mem_info |-> rx_mem_info,
   rx_pointers |-> rx_pointers, rx_status_rx_settings |-> rx_status_rx_settings,
   rx_data |-> rx_data, tx_status |-> tx_status, tx_command_txtb_info |-> tx_command_txtb_info,
   tx_priority |-> tx_priority, err_capt_retr_ctr_alc_ts_info |-> err_capt_retr_ctr_alc_ts_info,
   trv_delay_ssp_cfg |-> trv_delay_ssp_cfg, debug_register |-> debug_register,
   yolo_reg |-> yolo_reg, frame_format_w |-> frame_format_w, identifier_w |-> identifier_w,
   frame_test_w |-> frame_test_w]
  @@ int_enable_words
  @@ filter_words
  @@ frame_counters
  @@ timestamp_words
  @@ tst_control_words
  @@ tst_data_words
  @@ frame_timestamp_words

\* The byte addresses.
Address ==
  [DEVICE_ID |-> 0, VERSION |-> 2, MODE |-> 4, SETTINGS |-> 6, STATUS |-> 8, COMMAND |-> 12,
   INT_STAT |-> 16, INT_ENA_SET |-> 20, INT_ENA_CLR |-> 24, INT_MASK_SET |-> 28,
   INT_MASK_CLR |-> 32, BTR |-> 36, BTR_FD |-> 40, EWL |-> 44, ERP |-> 45, FAULT_STATE |-> 46,
   REC |-> 48, TEC |-> 50, ERR_NORM |-> 52, ERR_FD |-> 54, CTR_PRES |-> 56,
   FILTER_A_MASK |-> 60, FILTER_A_VAL |-> 64, FILTER_B_MASK |-> 68, FILTER_B_VAL |-> 72,
   FILTER_C_MASK |-> 76, FILTER_C_VAL |-> 80, FILTER_RAN_LOW |-> 84, FILTER_RAN_HIGH |-> 88,
   FILTER_CONTROL |-> 92, FILTER_STATUS |-> 94, RX_MEM_INFO |-> 96, RX_POINTERS |-> 100,
   RX_STATUS |-> 104, RX_SETTINGS |-> 106, RX_DATA |-> 108, TX_STATUS |-> 112,
   TX_COMMAND |-> 116, TXTB_INFO |-> 118, TX_PRIORITY |-> 120, ERR_CAPT |-> 124,
   RETR_CTR |-> 125, ALC |-> 126, TS_INFO |-> 127, TRV_DELAY |-> 128, SSP_CFG |-> 130,
   RX_FR_CTR |-> 132, TX_FR_CTR |-> 136, DEBUG_REGISTER |-> 140, YOLO_REG |-> 144,
   TIMESTAMP_LOW |-> 148, TIMESTAMP_HIGH |-> 152, TST_CONTROL |-> 2304, TST_DEST |-> 2308,
   TST_WDATA |-> 2312, TST_RDATA |-> 2316]

\* TXTBn_DATA_i: word i of TXT buffer n.
TxtbData(n, i) == 256 * n + 4 * (i - 1)

\* Byte offsets of the words of a frame.
FrameOffset ==
  [FRAME_FORMAT_W |-> 0, IDENTIFIER_W |-> 4, TIMESTAMP_L_W |-> 8, TIMESTAMP_U_W |-> 12,
   DATA_1_4_W |-> 16, DATA_5_8_W |-> 20, DATA_9_12_W |-> 24, DATA_13_16_W |-> 28,
   DATA_17_20_W |-> 32, DATA_21_24_W |-> 36, DATA_25_28_W |-> 40, DATA_29_32_W |-> 44,
   DATA_33_36_W |-> 48, DATA_37_40_W |-> 52, DATA_41_44_W |-> 56, DATA_45_48_W |-> 60,
   DATA_49_52_W |-> 64, DATA_53_56_W |-> 68, DATA_57_60_W |-> 72, DATA_61_64_W |-> 76,
   FRAME_TEST_W |-> 80]

\* Byte k of the payload in each payload word DATA_(4k+1)_(4k+4)_W, from bit 0 on.
\* The generated names of the word of bytes 53 to 56 are out of order.
data_words ==
  [k \in 0..15 |-> IF k = 13 THEN <<53, 56, 55, 54>> ELSE <<4*k + 1, 4*k + 2, 4*k + 3, 4*k + 4>>]

\* The enumerations of one-bit fields: 0 is disabled (or the plain variant), 1 enabled.
Enabled(b) == IF b THEN {0} ELSE {}

\* The states of a TXT buffer as tx_status codes them.
tx_status_code ==
  [TXT_NOT_EXIST |-> 0, TXT_RDY |-> 1, TXT_TRAN |-> 2, TXT_ABTP |-> 3, TXT_TOK |-> 4,
   TXT_ERR |-> 6, TXT_ABT |-> 7, TXT_ETY |-> 8, TXT_PER |-> 9]

ssp_src_code == [SSP_SRC_MEAS_N_OFFSET |-> 0, SSP_SRC_NO_SSP |-> 1, SSP_SRC_OFFSET |-> 2]

-----------------------------------------------------------------------------

\* The bits each field of a word occupies: the fields follow each other from bit 0 on.
FieldBits(layout) ==
  LET Add(s, f) == [at    |-> s.at + f[2],
                    place |-> IF f[1] = "reserved" THEN s.place
                              ELSE s.place @@ (f[1] :> (s.at..(s.at + f[2] - 1)))]
      upto[k \in 0..Len(layout)] ==
        IF k = 0 THEN [at |-> 0, place |-> <<>>] ELSE Add(upto[k - 1], layout[k])
  IN  upto[Len(layout)].place

PlacesIn(layouts) == [r \in DOMAIN layouts |-> FieldBits(layouts[r])]

Place == PlacesIn(Bitfields)

\* The numbers a set of bits stands for, and back.
Number(bits) ==
  MapThenFoldSet(+, 0, LAMBDA b : 2^b, LAMBDA S : CHOOSE b \in S : TRUE, bits)

BitsOf(n) == {b \in 0..30 : (n \div 2^b) % 2 = 1}

Lowest(bits) == CHOOSE b \in bits : \A c \in bits : b <= c

\* Read and assign a bit field; what does not fit is cut off.
GetAt(word, place) == {b - Lowest(place) : b \in word \cap place}

PutAt(word, place, bits) == (word \ place) \cup ({b + Lowest(place) : b \in bits} \cap place)

Get(word, r, f) == GetAt(word, Place[r][f])

Put(word, r, f, bits) == PutAt(word, Place[r][f], bits)

\* A word that is zero but for the numbers in the given fields.
Word(r, vals) == UNION {Put({}, r, f, BitsOf(vals[f])) : f \in DOMAIN vals}

=============================================================================
