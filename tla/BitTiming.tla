------------------------------ MODULE BitTiming ------------------------------
(***************************************************************************)
(* Bit timing as the drivers write it to the controller: the limits they   *)
(* announce, the check of a timing given by the user (can_fixup_bittiming) *)
(* and the conversion of struct can_bittiming to the fields of BTR and     *)
(* BTR_FD, which is the same in ctucan_set_btr (kernel driver) and in      *)
(* ctucan_hw_set_nom_bittiming and ctucan_hw_set_data_bittiming.           *)
(***************************************************************************)
EXTENDS Integers

\* The limits for the nominal and for the data bit rate.
bit_timing_max ==
  [tseg1_min |-> 2, tseg1_max |-> 190, tseg2_min |-> 1, tseg2_max |-> 63,
   sjw_max |-> 31, brp_min |-> 1, brp_max |-> 8, brp_inc |-> 1]

bit_timing_data_max ==
  [tseg1_min |-> 2, tseg1_max |-> 94, tseg2_min |-> 1, tseg2_max |-> 31,
   sjw_max |-> 31, brp_min |-> 1, brp_max |-> 2, brp_inc |-> 1]

TimingConst(nominal) == IF nominal THEN bit_timing_max ELSE bit_timing_data_max

Tseg1(bt) == bt.prop_seg + bt.phase_seg1

BitLength(bt) == bt.brp * (1 + Tseg1(bt) + bt.phase_seg2)   \* in clock cycles

\* Widths of the fields of BTR and of BTR_FD.
BtrWidth(nominal) ==
  IF nominal THEN [prop |-> 7, ph1 |-> 6, ph2 |-> 6, brp |-> 8, sjw |-> 5]
             ELSE [prop |-> 6, ph1 |-> 5, ph2 |-> 5, brp |-> 8, sjw |-> 5]

\* FIELD_PREP and assignments to bit fields drop the bits that do not fit.
FIELD_PREP(width, val) == val % 2^width

\* Faulty variant: what PH1 cannot hold is cut off instead of moved to PROP.
RedistributeCut(bt, nominal) ==
  LET max_ph1_len == IF nominal THEN 63 ELSE 31
  IN  IF bt.phase_seg1 > max_ph1_len THEN [bt EXCEPT !.phase_seg1 = max_ph1_len] ELSE bt

\* Move to prop_seg what PH1 cannot hold; the caller's structure is updated too.
Redistribute(bt, nominal) ==
  LET max_ph1_len == IF nominal THEN 63 ELSE 31
  IN  IF bt.phase_seg1 > max_ph1_len
      THEN [bt EXCEPT !.prop_seg = @ + bt.phase_seg1 - max_ph1_len, !.phase_seg1 = max_ph1_len]
      ELSE bt

\* The fields that are written to BTR or BTR_FD.
Btr(bt, nominal) ==
  LET r == Redistribute(bt, nominal)
      w == BtrWidth(nominal)
  IN  [prop_seg   |-> FIELD_PREP(w.prop, r.prop_seg),
       phase_seg1 |-> FIELD_PREP(w.ph1, r.phase_seg1),
       phase_seg2 |-> FIELD_PREP(w.ph2, r.phase_seg2),
       brp        |-> FIELD_PREP(w.brp, r.brp),
       sjw        |-> FIELD_PREP(w.sjw, r.sjw)]

\* ctucan_set_secondary_sample_point: the offset in clock cycles, saturated to its
\* field; no secondary sampling at 1 Mbit/s and below.
SspConfig(freq, bitrate) ==
  LET half == (freq \div bitrate) \div 2
  IN  IF bitrate <= 1000000 THEN [src |-> "NO_SSP", offset |-> 0]
      ELSE [src |-> "MEAS_N_OFFSET", offset |-> IF half > 127 THEN 127 ELSE half]

\* can_fixup_bittiming for a clock of mhz MHz: the set is empty when the timing of
\* the user is refused, else it holds the timing completed with the prescaler that
\* the length tq of the time quantum (in ns) asks for.
FixupBittiming(bt, tq, nominal, mhz) ==
  LET btc  == TimingConst(nominal)
      brp  == (mhz * tq + 499) \div 1000
      full == [bt EXCEPT !.brp = brp, !.sjw = IF @ = 0 THEN 1 ELSE @]
  IN  IF \/ full.sjw > btc.sjw_max
         \/ Tseg1(bt) < btc.tseg1_min \/ Tseg1(bt) > btc.tseg1_max
         \/ bt.phase_seg2 < btc.tseg2_min \/ bt.phase_seg2 > btc.tseg2_max
         \/ brp < btc.brp_min \/ brp > btc.brp_max
      THEN {}
      ELSE {[full EXCEPT !.bitrate = (mhz * 1000000) \div BitLength(full)]}

=============================================================================
