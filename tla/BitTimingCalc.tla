---------------------------- MODULE BitTimingCalc ----------------------------
(***************************************************************************)
(* can_get_bittiming of the user-space driver: the search for the time     *)
(* segments and the prescaler of a bit rate (can_calc_bittiming), or the   *)
(* check of a given timing (can_fixup_bittiming).  Frequencies are in Hz;   *)
(* UINT_MAX stands for any error larger than the ones that occur.          *)
(***************************************************************************)
EXTENDS BitTiming, Sequences

UINT_MAX == 2147483647

Abs(x) == IF x < 0 THEN -x ELSE x

Clamp(x, lo, hi) == IF x < lo THEN lo ELSE IF x > hi THEN hi ELSE x

\* One round of can_update_sample_point; tseg2 is unsigned and never wraps here because
\* the nominal sample point is at most 875.
SamplePointTry(btc, nominal, tseg, i) ==
  LET t2a == Clamp(tseg + 1 - (nominal * (tseg + 1)) \div 1000 - i, btc.tseg2_min, btc.tseg2_max)
      t1  == IF tseg - t2a > btc.tseg1_max THEN btc.tseg1_max ELSE tseg - t2a
      t2  == IF tseg - t2a > btc.tseg1_max THEN tseg - btc.tseg1_max ELSE t2a
      sp  == (1000 * (tseg + 1 - t2)) \div (tseg + 1)
  IN  [tseg1 |-> t1, tseg2 |-> t2, sample_point |-> sp, error |-> Abs(nominal - sp)]

\* can_update_sample_point: the better of two rounds that do not sample later than asked.
\* When neither qualifies, tseg1 and tseg2 keep the values of the caller.
UpdateSamplePoint(btc, nominal, tseg, tseg1, tseg2) ==
  LET Better(best, try) ==
        IF try.sample_point <= nominal /\ try.error < best.error THEN try ELSE best
      none == [tseg1 |-> tseg1, tseg2 |-> tseg2, sample_point |-> 0, error |-> UINT_MAX]
  IN  Better(Better(none, SamplePointTry(btc, nominal, tseg, 0)), SamplePointTry(btc, nominal, tseg, 1))

NominalSamplePoint(sample_point, bitrate) ==
  IF sample_point # 0 THEN sample_point
  ELSE IF bitrate > 800000 THEN 750 ELSE IF bitrate > 500000 THEN 800 ELSE 875

\* One pass of the loop of can_calc_bittiming; s holds the local variables.
TryTseg(btc, freq, bitrate, nominal, tseg, s) ==
  LET tsegall == 1 + tseg \div 2
      brp     == ((freq \div (tsegall * bitrate) + (tseg % 2)) \div btc.brp_inc) * btc.brp_inc
      err     == Abs(bitrate - freq \div (brp * tsegall))
      best_sp == IF err < s.rate_error THEN UINT_MAX ELSE s.sp_error
      u       == UpdateSamplePoint(btc, nominal, tseg \div 2, s.tseg1, s.tseg2)
      s1      == [s EXCEPT !.sp_error = best_sp, !.tseg1 = u.tseg1, !.tseg2 = u.tseg2]
  IN  IF brp < btc.brp_min \/ brp > btc.brp_max THEN s
      ELSE IF err > s.rate_error THEN s
      ELSE IF u.error > best_sp THEN s1
      ELSE [s1 EXCEPT !.sp_error = u.error, !.rate_error = err, !.tseg = tseg \div 2, !.brp = brp,
                      !.break = err = 0 /\ u.error = 0]

\* The loop from hi down to lo, in halves.
RECURSIVE SearchTseg(_, _, _, _, _, _, _)
SearchTseg(btc, freq, bitrate, nominal, hi, lo, s) ==
  LET mid == (hi + lo) \div 2
  IN  IF s.break THEN s
      ELSE IF hi = lo THEN TryTseg(btc, freq, bitrate, nominal, hi, s)
      ELSE SearchTseg(btc, freq, bitrate, nominal, mid, lo,
                      SearchTseg(btc, freq, bitrate, nominal, hi, mid + 1, s))

BestTseg(btc, freq, bitrate, nominal) ==
  SearchTseg(btc, freq, bitrate, nominal,
    (btc.tseg1_max + btc.tseg2_max) * 2 + 1, (btc.tseg1_min + btc.tseg2_min) * 2,
    [rate_error |-> UINT_MAX, sp_error |-> UINT_MAX, tseg |-> 0, brp |-> 0, tseg1 |-> 0,
     tseg2 |-> 0, break |-> FALSE])

\* The result of can_calc_bittiming for segments u of the search s.
Timing(s, u, sjw, btc, freq) ==
  [prop_seg   |-> u.tseg1 \div 2,
   phase_seg1 |-> u.tseg1 - u.tseg1 \div 2,
   phase_seg2 |-> u.tseg2,
   brp        |-> s.brp,
   sjw        |-> IF sjw = 0 THEN 1 ELSE Clamp(Clamp(sjw, 1, btc.sjw_max), 0, u.tseg2),
   bitrate    |-> freq \div (s.brp * (1 + u.tseg1 + u.tseg2))]

\* Faulty variant: the segments are those of the last try, not of the best one.
FinishStale(s, nominal, bitrate, sjw, btc, freq) ==
  IF s.rate_error \div (bitrate \div 1000) > 50 THEN {} ELSE {Timing(s, s, sjw, btc, freq)}

\* After the search: empty when the error of the bit rate exceeds 5.0 %, else the sample
\* point is computed again for the best length.  Bit rates are whole kbit/s, so that the
\* error in tenths of a percent is exact.
Finish(s, nominal, bitrate, sjw, btc, freq) ==
  IF s.rate_error \div (bitrate \div 1000) > 50 THEN {}
  ELSE {Timing(s, UpdateSamplePoint(btc, nominal, s.tseg, s.tseg1, s.tseg2), sjw, btc, freq)}

CalcBittiming(bitrate, sample_point, sjw, btc, freq) ==
  LET nominal == NominalSamplePoint(sample_point, bitrate)
  IN  Finish(BestTseg(btc, freq, bitrate, nominal), nominal, bitrate, sjw, btc, freq)

\* can_get_bittiming without a table of bit rates: a bit rate or a time quantum is given,
\* never both.
GetBittiming(bt, tq, nominal, mhz) ==
  IF tq = 0 /\ bt.bitrate # 0
  THEN CalcBittiming(bt.bitrate, 0, bt.sjw, TimingConst(nominal), mhz * 1000000)
  ELSE IF tq # 0 /\ bt.bitrate = 0 THEN FixupBittiming(bt, tq, nominal, mhz)
  ELSE {}

=============================================================================
