----------------------------- MODULE KernelMasks -----------------------------
(***************************************************************************)
(* The register map of the kernel driver: the masks of ctucanfd_kregs.h    *)
(* and ctucanfd_kframe.h, as pairs of a field and its set of bits.  The    *)
(* names are those of the unions in RegisterMap, in lower case.            *)
(***************************************************************************)
EXTENDS Integers, Sequences, TLC

GENMASK(name, hi, lo) == {<<name, lo..hi>>}

BIT(lo, names) == {<<names[i], {lo + i - 1}>> : i \in 1..Len(names)}

-----------------------------------------------------------------------------
REG_DEVICE_ID_VERSION ==
  GENMASK("device_id", 15, 0) \cup GENMASK("ver_minor", 23, 16) \cup GENMASK("ver_major", 31, 24)

REG_MODE_SETTINGS ==
  BIT(0, <<"rst", "bmm", "stm", "afm", "fde", "tttm", "rom", "acf", "tstm", "rxbam", "txbbm",
      "sam", "erfm">>)
  \cup BIT(16, <<"rtrle">>) \cup GENMASK("rtrth", 20, 17)
  \cup BIT(21, <<"ilbp", "ena", "nisofd", "pex", "tbfbo", "fdrf", "pchke">>)

REG_STATUS ==
  BIT(0, <<"rxne", "dor", "txnf", "eft", "rxs", "txs", "ewl", "idle", "pexs", "rxpe", "txpe",
      "txdpe">>)
  \cup BIT(16, <<"stcnt", "strgs", "sprt">>)

REG_COMMAND ==
  BIT(1, <<"rxrpmv", "rrb", "cdo", "ercrst", "rxfcrst", "txfcrst", "cpexs", "crxpe", "ctxpe",
      "ctxdpe">>)

REG_INT_STAT ==
  BIT(0, <<"rxi", "txi", "ewli", "doi", "fcsi", "ali", "bei", "ofi", "rxfi", "bsi", "rbnei",
      "txbhci">>)

REG_INT_ENABLE_WORDS ==
  [int_ena_set |-> GENMASK("int_ena_set", 11, 0), int_ena_clr |-> GENMASK("int_ena_clr", 11, 0),
   int_mask_set |-> GENMASK("int_mask_set", 11, 0),
   int_mask_clr |-> GENMASK("int_mask_clr", 11, 0)]

REG_BTR ==
  GENMASK("prop", 6, 0) \cup GENMASK("ph1", 12, 7) \cup GENMASK("ph2", 18, 13)
  \cup GENMASK("brp", 26, 19) \cup GENMASK("sjw", 31, 27)

REG_BTR_FD ==
  GENMASK("prop_fd", 5, 0) \cup GENMASK("ph1_fd", 11, 7) \cup GENMASK("ph2_fd", 17, 13)
  \cup GENMASK("brp_fd", 26, 19) \cup GENMASK("sjw_fd", 31, 27)

REG_EWL_ERP_FAULT_STATE ==
  GENMASK("ew_limit", 7, 0) \cup GENMASK("erp_limit", 15, 8)
  \cup BIT(16, <<"era", "erp", "bof">>)

REG_REC_TEC == GENMASK("rec_val", 8, 0) \cup GENMASK("tec_val", 24, 16)

REG_ERR_NORM_ERR_FD == GENMASK("err_norm_val", 15, 0) \cup GENMASK("err_fd_val", 31, 16)

REG_CTR_PRES == GENMASK("ctpv", 8, 0) \cup BIT(9, <<"ptx", "prx", "enorm", "efd">>)

REG_FILTER_WORDS ==
  [filter_a_mask |-> GENMASK("bit_mask_a_val", 28, 0),
   filter_a_val |-> GENMASK("bit_val_a_val", 28, 0),
   filter_b_mask |-> GENMASK("bit_mask_b_val", 28, 0),
   filter_b_val |-> GENMASK("bit_val_b_val", 28, 0),
   filter_c_mask |-> GENMASK("bit_mask_c_val", 28, 0),
   filter_c_val |-> GENMASK("bit_val_c_val", 28, 0),
   filter_ran_low |-> GENMASK("bit_ran_low_val", 28, 0),
   filter_ran_high |-> GENMASK("bit_ran_high_val", 28, 0)]

REG_FILTER_CONTROL_FILTER_STATUS ==
  BIT(0, <<"fanb", "fane", "fafb", "fafe", "fbnb", "fbne", "fbfb", "fbfe", "fcnb", "fcne",
      "fcfb", "fcfe", "frnb", "frne", "frfb", "frfe", "sfa", "sfb", "sfc", "sfr">>)

REG_RX_MEM_INFO == GENMASK("rx_buff_size", 12, 0) \cup GENMASK("rx_mem_free", 28, 16)

REG_RX_POINTERS == GENMASK("rx_wpp", 11, 0) \cup GENMASK("rx_rpp", 27, 16)

REG_RX_STATUS_RX_SETTINGS ==
  BIT(0, <<"rxe", "rxf", "rxmof">>) \cup GENMASK("rxfrc", 14, 4) \cup BIT(16, <<"rtsop">>)

REG_RX_DATA == GENMASK("rx_data", 31, 0)

REG_TX_STATUS ==
  GENMASK("tx1s", 3, 0) \cup GENMASK("tx2s", 7, 4) \cup GENMASK("tx3s", 11, 8)
  \cup GENMASK("tx4s", 15, 12) \cup GENMASK("tx5s", 19, 16) \cup GENMASK("tx6s", 23, 20)
  \cup GENMASK("tx7s", 27, 24) \cup GENMASK("tx8s", 31, 28)

REG_TX_COMMAND_TXTB_INFO ==
  BIT(0, <<"txce", "txcr", "txca">>)
  \cup BIT(8, <<"txb1", "txb2", "txb3", "txb4", "txb5", "txb6", "txb7", "txb8">>)
  \cup GENMASK("txt_buffer_count", 19, 16)

REG_TX_PRIORITY ==
  GENMASK("txt1p", 2, 0) \cup GENMASK("txt2p", 6, 4) \cup GENMASK("txt3p", 10, 8)
  \cup GENMASK("txt4p", 14, 12) \cup GENMASK("txt5p", 18, 16) \cup GENMASK("txt6p", 22, 20)
  \cup GENMASK("txt7p", 26, 24) \cup GENMASK("txt8p", 30, 28)

REG_ERR_CAPT_RETR_CTR_ALC_TS_INFO ==
  GENMASK("err_pos", 3, 0) \cup BIT(4, <<"err_erp">>) \cup GENMASK("err_type", 7, 5)
  \cup GENMASK("retr_ctr_val", 11, 8) \cup GENMASK("alc_bit", 20, 16)
  \cup GENMASK("alc_id_field", 23, 21) \cup GENMASK("ts_bits", 29, 24)

REG_TRV_DELAY_SSP_CFG ==
  GENMASK("trv_delay_value", 6, 0) \cup GENMASK("ssp_offset", 23, 16)
  \cup GENMASK("ssp_src", 25, 24)

REG_FRAME_COUNTERS ==
  [rx_fr_ctr |-> GENMASK("rx_fr_ctr_val", 31, 0), tx_fr_ctr |-> GENMASK("tx_fr_ctr_val", 31, 0)]

REG_DEBUG_REGISTER ==
  GENMASK("stuff_count", 2, 0) \cup GENMASK("destuff_count", 5, 3)
  \cup BIT(6, <<"pc_arb", "pc_con", "pc_dat", "pc_stc", "pc_crc", "pc_crcd", "pc_ack",
      "pc_ackd", "pc_eof", "pc_int", "pc_susp", "pc_ovr", "pc_sof">>)

REG_YOLO_REG == GENMASK("yolo_val", 31, 0)

REG_TIMESTAMP_WORDS ==
  [timestamp_low |-> GENMASK("timestamp_low", 31, 0),
   timestamp_high |-> GENMASK("timestamp_high", 31, 0)]

REG_FRAME_FORMAT_W ==
  GENMASK("dlc", 3, 0) \cup BIT(4, <<"erf", "rtr", "ide", "fdf", "lbpf", "brs", "esi_rsv">>)
  \cup GENMASK("rwcnt", 15, 11) \cup GENMASK("erf_pos", 19, 16) \cup BIT(20, <<"erf_erp">>)
  \cup GENMASK("erf_type", 23, 21) \cup BIT(24, <<"ivld">>) \cup GENMASK("lbtbi", 27, 25)

REG_IDENTIFIER_W == GENMASK("identifier_ext", 17, 0) \cup GENMASK("identifier_base", 28, 18)

REG_FRAME_TIMESTAMP_WORDS ==
  [timestamp_l_w |-> GENMASK("time_stamp_l_w", 31, 0),
   timestamp_u_w |-> GENMASK("timestamp_u_w", 31, 0)]

REG_FRAME_TEST_W == BIT(0, <<"fstc", "fcrc", "sdlc">>) \cup GENMASK("tprm", 12, 8)

\* Every word of the map.
Masks ==
  [device_id_version |-> REG_DEVICE_ID_VERSION, mode_settings |-> REG_MODE_SETTINGS,
   status |-> REG_STATUS, command |-> REG_COMMAND, int_stat |-> REG_INT_STAT, btr |-> REG_BTR,
   btr_fd |-> REG_BTR_FD, ewl_erp_fault_state |-> REG_EWL_ERP_FAULT_STATE,
   rec_tec |-> REG_REC_TEC, err_norm_err_fd |-> REG_ERR_NORM_ERR_FD, ctr_pres |-> REG_CTR_PRES,
   filter_control_filter_status |-> REG_FILTER_CONTROL_FILTER_STATUS,
   rx_mem_info |-> REG_RX_MEM_INFO, rx_pointers |-> REG_RX_POINTERS,
   rx_status_rx_settings |-> REG_RX_STATUS_RX_SETTINGS, rx_data |-> REG_RX_DATA,
   tx_status |-> REG_TX_STATUS, tx_command_txtb_info |-> REG_TX_COMMAND_TXTB_INFO,
   tx_priority |-> REG_TX_PRIORITY,
   err_capt_retr_ctr_alc_ts_info |-> REG_ERR_CAPT_RETR_CTR_ALC_TS_INFO,
   trv_delay_ssp_cfg |-> REG_TRV_DELAY_SSP_CFG, debug_register |-> REG_DEBUG_REGISTER,
   yolo_reg |-> REG_YOLO_REG, frame_format_w |-> REG_FRAME_FORMAT_W,
   identifier_w |-> REG_IDENTIFIER_W, frame_test_w |-> REG_FRAME_TEST_W]
  @@ REG_INT_ENABLE_WORDS
  @@ REG_FILTER_WORDS
  @@ REG_FRAME_COUNTERS
  @@ REG_TIMESTAMP_WORDS
  @@ REG_FRAME_TIMESTAMP_WORDS

\* The byte addresses.
CTUCANFD ==
  [DEVICE_ID |-> 0, VERSION |-> 2, MODE |-> 4, SETTINGS |-> 6, STATUS |-> 8, COMMAND |-> 12,
   INT_STAT |-> 16, INT_ENA_SET |-> 20, INT_ENA_CLR |-> 24, INT_MASK_SET |-> 28,
   INT_MASK_CLR |-> 32, BTR |-> 36, BTR_FD |-> 40, EWL |-> 44, ERP |-> 45, FAULT_STATE |-> 46,
   REC |-> 48, TEC |-> 50, ERR_NORM |-> 52, ERR_FD |-> 54, CTR_PRES |-> 56,
   FILTER_A_MASK |-> 60, FILTER_A_VAL |-> 64, FILTER_B_MASK |-> 68, FILTER_B_VAL |-> 72,
   FILTER_C_MASK |-> 76, FILTER_C_VAL |-> 80, FILTER_RAN_LOW |-> 84, FILTER_RAN_HIGH |-> 88,
   FILTER_CONTROL |-> 92, FILTER_STATUS |-> 94, RX_MEM_INFO |-> 96, RX_POINTERS |-> 100,
   RX_STATUS |-> 104, RX_SETTINGS |-> 106, RX_DATA |-> 108, TX_STATUS |-> 112,
   TX_COMMAND |-> 116, TXTB_INFO |-> 118, TX_PRIORITY |-> 120, ERR_CAPT |-> 124,
   RETR_CTR |-> 125, ALC |-> 126, TS_INFO |-> 127, TRV_DELAY |-> 128, SSP_CFG |-> 130,
   RX_FR_CTR |-> 132, TX_FR_CTR |-> 136, DEBUG_REGISTER |-> 140, YOLO_REG |-> 144,
   TIMESTAMP_LOW |-> 148, TIMESTAMP_HIGH |-> 152, TST_CONTROL |-> 2304, TST_DEST |-> 2308,
   TST_WDATA |-> 2312, TST_RDATA |-> 2316]

CTUCANFD_TXTB_DATA(n, i) == 256 * n + 4 * (i - 1)

\* Byte offsets of the words of a frame.
CTUCANFD_FRAME ==
  [FRAME_FORMAT_W |-> 0, IDENTIFIER_W |-> 4, TIMESTAMP_L_W |-> 8, TIMESTAMP_U_W |-> 12,
   DATA_1_4_W |-> 16, DATA_5_8_W |-> 20, DATA_9_12_W |-> 24, DATA_13_16_W |-> 28,
   DATA_17_20_W |-> 32, DATA_21_24_W |-> 36, DATA_25_28_W |-> 40, DATA_29_32_W |-> 44,
   DATA_33_36_W |-> 48, DATA_37_40_W |-> 52, DATA_41_44_W |-> 56, DATA_45_48_W |-> 60,
   DATA_49_52_W |-> 64, DATA_53_56_W |-> 68, DATA_57_60_W |-> 72, DATA_61_64_W |-> 76,
   FRAME_TEST_W |-> 80]

\* The payload words, from bit 0 on.
REG_DATA_WORDS ==
  [k \in 0..15 |-> IF k = 13 THEN <<53, 56, 55, 54>> ELSE <<4*k + 1, 4*k + 2, 4*k + 3, 4*k + 4>>]

\* The mask of every field of every register.
MasksIn(groups) ==
  [r \in DOMAIN groups |-> [f \in {m[1] : m \in groups[r]} |-> (CHOOSE m \in groups[r] : m[1] = f)[2]]]

MaskOf == MasksIn(Masks)

=============================================================================
