----------------------- MODULE DriverLifecycle_proofs -----------------------
(***************************************************************************)
(* Proofs about the driver's transmit path, for every number of TXT        *)
(* buffers and every counter width that TxAssumption allows: first the     *)
(* arithmetic of the wrapping counters, then the inductive invariant of    *)
(* DriverTx, one lemma per actor, then the safety properties, and that the *)
(* path implements the bounded FIFO TxFifo.                                *)
(*                                                                         *)
(* The second part is about the same path while the device is opened,      *)
(* closed, suspended, resumed and restarted, when the restart overlaps no  *)
(* other path.  CoreInv, which does not depend on when the queue was       *)
(* started, holds but for two stretches: from the reset of a restart to    *)
(* its last counter assignment, and on a device closed after a restart     *)
(* that failed.  There the controller's buffers are all empty and none of  *)
(* the transmit paths runs, and a restart or ctucan_open makes the ring    *)
(* anew.                                                                   *)
(***************************************************************************)
EXTENDS DriverLifecycle, Sequences, TLAPS

-----------------------------------------------------------------------------
(* Wrapping counters and the ring indices taken from them                   *)

\* Division with remainder by a positive number.
LEMMA DivMod ==
  ASSUME NEW d \in Nat \ {0}, NEW x \in Int
  PROVE  /\ x % d \in 0..(d - 1)
         /\ x \div d \in Int
         /\ x = d * (x \div d) + (x % d)
  BY SMT

\* A positive multiple is at least one period up.
LEMMA MulPos ==
  ASSUME NEW d \in Nat \ {0}, NEW k \in Int, k >= 1
  PROVE  d * k >= d
  BY SMT

\* A negative multiple is at least one period down.
LEMMA MulNeg ==
  ASSUME NEW d \in Nat \ {0}, NEW k \in Int, k <= -1
  PROVE  d * k <= -d
  BY SMT

\* The remainder is unique.
LEMMA ModUnique ==
  ASSUME NEW d \in Nat \ {0}, NEW q \in Int, NEW r \in 0..(d - 1),
         NEW x \in Int, x = d * q + r
  PROVE  x % d = r
<1> DEFINE s == x % d
           k == (x \div d) - q
<1>1. s \in 0..(d - 1) /\ x \div d \in Int /\ x = d * (x \div d) + s
  BY DivMod, Zenon
<1>2. k \in Int
  BY <1>1
<1>3. d * k = r - s
  <2>1. d * k = d * (x \div d) - d * q
    BY <1>1, SMT
  <2> QED
    BY <2>1, <1>1, SMT
<1>4. ~(k >= 1)
  <2> SUFFICES ASSUME k >= 1 PROVE FALSE
    BY Zenon
  <2>1. d * k >= d
    BY <1>2, MulPos, Zenon
  <2> QED
    BY <2>1, <1>3, <1>1, SMT
<1>5. ~(k <= -1)
  <2> SUFFICES ASSUME k <= -1 PROVE FALSE
    BY Zenon
  <2>1. d * k <= -d
    BY <1>2, MulNeg, Zenon
  <2> QED
    BY <2>1, <1>3, <1>1, SMT
<1>6. k = 0
  BY <1>2, <1>4, <1>5
<1> QED
  BY <1>3, <1>6, <1>1, SMT

\* A number in range is its own remainder; one step out of range wraps.
LEMMA ModRange ==
  ASSUME NEW d \in Nat \ {0}, NEW x \in Int
  PROVE  /\ x \in 0..(d - 1) => x % d = x
         /\ x \in d..(2 * d - 1) => x % d = x - d
         /\ x \in (-d)..(-1) => x % d = x + d
<1>1. ASSUME x \in 0..(d - 1) PROVE x % d = x
  BY <1>1, x = d * 0 + x, ModUnique, SMT
<1>2. ASSUME x \in d..(2 * d - 1) PROVE x % d = x - d
  <2>1. x - d \in 0..(d - 1) /\ x = d * 1 + (x - d)
    BY <1>2
  <2> QED
    BY <2>1, ModUnique
<1>3. ASSUME x \in (-d)..(-1) PROVE x % d = x + d
  <2>1. x + d \in 0..(d - 1) /\ x = d * (-1) + (x + d)
    BY <1>3
  <2> QED
    BY <2>1, ModUnique
<1> QED
  BY <1>1, <1>2, <1>3, Zenon

\* Incrementing a counter modulo m moves its index modulo d on by one, also when the
\* counter wraps, provided that d divides m.
LEMMA ModSucc ==
  ASSUME NEW d \in Nat \ {0}, NEW m \in Nat \ {0}, m % d = 0, NEW c \in 0..(m - 1)
  PROVE  /\ (c + 1) % m \in 0..(m - 1)
         /\ c % d \in 0..(d - 1)
         /\ ((c + 1) % m) % d = IF c % d = d - 1 THEN 0 ELSE (c % d) + 1
<1> DEFINE r == c % d
           q == c \div d
           k == m \div d
<1>1. r \in 0..(d - 1) /\ q \in Int /\ c = d * q + r
  BY DivMod
<1>2. k \in Int /\ m = d * k
  BY DivMod, m \in Int, SMT
<1>3. CASE c < m - 1
  <2>1. (c + 1) % m = c + 1
    BY <1>3, ModRange
  <2>2. CASE r = d - 1
    <3>1. d * (q + 1) = d * q + d
      BY <1>1, SMT
    <3>2. c + 1 = d * (q + 1) + 0
      BY <3>1, <2>2, <1>1, SMT
    <3>3. (c + 1) % d = 0
      BY <3>2, <1>1, ModUnique, 0 \in 0..(d - 1), c + 1 \in Int, q + 1 \in Int
    <3> QED
      BY <3>3, <2>1, <2>2, <1>1, <1>3
  <2>3. CASE r # d - 1
    <3>1. r + 1 \in 0..(d - 1) /\ c + 1 = d * q + (r + 1)
      BY <2>3, <1>1
    <3>2. (c + 1) % d = r + 1
      <4> HIDE DEF r, q, k
      <4> QED
        BY <3>1, <1>1, ModUnique, c + 1 \in Int
    <3> QED
      BY <3>2, <2>1, <2>3, <1>1, <1>3
  <2> QED
    BY <2>2, <2>3, Zenon
<1>4. CASE c = m - 1
  <2>1. (c + 1) % m = 0
    <3>1. c + 1 \in m..(2 * m - 1) /\ c + 1 - m = 0
      BY <1>4
    <3> QED
      BY <3>1, ModRange, c + 1 \in Int
  <2>2. 0 % d = 0
    BY ModRange, 0 \in 0..(d - 1)
  <2>3. r = d - 1
    <3>1. d * (k - 1) = d * k - d
      BY <1>2, SMT
    <3>2. c = d * (k - 1) + (d - 1)
      BY <3>1, <1>2, <1>4, SMT
    <3>3. c % d = d - 1
      <4> HIDE DEF r, q, k
      <4> QED
        BY <3>2, <1>2, ModUnique, d - 1 \in 0..(d - 1), k - 1 \in Int, c \in Int
    <3> QED
      BY <3>3, Zenon
  <2> QED
    BY <2>1, <2>2, <2>3, <1>1
<1> QED
  BY <1>3, <1>4

-----------------------------------------------------------------------------
(* The ring                                                                 *)

\* The constants, as the arithmetic needs them.
LEMMA Consts == /\ N \in Nat \ {0} /\ N \in 1..8
                /\ M \in Nat \ {0} /\ M > 2 * N /\ M % N = 0
  BY TxAssumption

\* The fill level computed from the counters.
LEMMA DiffValue ==
  ASSUME NEW h \in Ids, NEW t \in Ids
  PROVE  (h - t) % M = IF h >= t THEN h - t ELSE h - t + M
<1>1. h \in 0..(M - 1) /\ t \in 0..(M - 1)
  BY Zenon DEF Ids
<1>2. CASE h >= t
  <2>1. h - t \in 0..(M - 1) /\ h - t \in Int
    BY <1>1, <1>2, Consts
  <2> QED
    BY <1>2, <2>1, Consts, ModRange, Zenon
<1>3. CASE ~(h >= t)
  <2>1. h - t \in (-M)..(-1) /\ h - t \in Int
    BY <1>1, <1>3, Consts
  <2> QED
    BY <1>3, <2>1, Consts, ModRange, Zenon
<1> QED
  BY <1>2, <1>3, Zenon

\* The ring indices and the fill level are in range.
LEMMA RingTypes ==
  ASSUME TypeOK
  PROVE  TailBuf \in Bufs /\ HeadBuf \in Bufs /\ Diff \in Ids
<1>1. txb_head \in Ids /\ txb_tail \in Ids
  BY Zenon DEF TypeOK
<1>2. TailBuf \in Bufs /\ HeadBuf \in Bufs
  BY <1>1, Consts, ModSucc, Zenon DEF TailBuf, HeadBuf, Bufs, Ids
<1>3. Diff \in Ids
  BY <1>1, DiffValue, Consts DEF Diff, Ids
<1> QED
  BY <1>2, <1>3, Zenon

\* What an increment of a counter does to the counter and to its ring index.
LEMMA IncFacts ==
  ASSUME NEW c \in Ids
  PROVE  /\ Inc(c) \in Ids
         /\ Inc(c) = IF c = M - 1 THEN 0 ELSE c + 1
         /\ Inc(c) % N = IF c % N = N - 1 THEN 0 ELSE (c % N) + 1
<1>1. c \in 0..(M - 1)
  BY Zenon DEF Ids
<1>2. Inc(c) \in 0..(M - 1) /\ Inc(c) % N = IF c % N = N - 1 THEN 0 ELSE (c % N) + 1
  <2>1. N \in Nat \ {0} /\ M \in Nat \ {0} /\ M % N = 0
    BY Consts, Zenon
  <2>2. /\ (c + 1) % M \in 0..(M - 1)
        /\ ((c + 1) % M) % N = IF c % N = N - 1 THEN 0 ELSE (c % N) + 1
    BY <1>1, <2>1, ModSucc, ZenonT(60)
  <2> QED
    BY <2>2, Zenon DEF Inc
<1>3. CASE c < M - 1
  <2>1. c + 1 \in 0..(M - 1) /\ c + 1 \in Int
    BY <1>1, <1>3, Consts
  <2>2. (c + 1) % M = c + 1
    BY <2>1, Consts, ModRange, Zenon
  <2> QED
    BY <1>2, <1>3, <2>2, Consts DEF Inc, Ids
<1>4. CASE c = M - 1
  <2>1. c + 1 \in M..(2 * M - 1) /\ c + 1 - M = 0 /\ c + 1 \in Int
    BY <1>4, Consts
  <2> QED
    BY <1>2, <1>4, <2>1, Consts, ModRange DEF Inc, Ids
<1> QED
  BY <1>1, <1>3, <1>4, Consts

\* Setting a buffer ready: the head moves on by one, the fill level grows by one.
LEMMA HeadStep ==
  ASSUME TypeOK, TypeOK', Diff <= N, txb_head' = Inc(txb_head), txb_tail' = txb_tail
  PROVE  /\ TailBuf' = TailBuf
         /\ HeadBuf' = IF HeadBuf = N - 1 THEN 0 ELSE HeadBuf + 1
         /\ Diff' = Diff + 1
<1>1. /\ txb_head \in Ids /\ txb_tail \in Ids
      /\ txb_head' \in Ids /\ txb_tail' \in Ids
  BY Zenon DEF TypeOK
<1>2. TailBuf' = TailBuf
  BY Zenon DEF TailBuf
<1>3. HeadBuf' = IF HeadBuf = N - 1 THEN 0 ELSE HeadBuf + 1
  BY <1>1, IncFacts, Zenon DEF HeadBuf
<1>4. Diff' = IF txb_head' >= txb_tail' THEN txb_head' - txb_tail' ELSE txb_head' - txb_tail' + M
  BY <1>1, DiffValue, Zenon DEF Diff
<1>5. Diff = IF txb_head >= txb_tail THEN txb_head - txb_tail ELSE txb_head - txb_tail + M
  BY <1>1, DiffValue, Zenon DEF Diff
<1>6. txb_head' = IF txb_head = M - 1 THEN 0 ELSE txb_head + 1
  BY <1>1, IncFacts, Zenon
<1>7. Diff' = Diff + 1
  BY <1>1, <1>4, <1>5, <1>6, Consts DEF Ids
<1> QED
  BY <1>2, <1>3, <1>7, Zenon

\* Reaping a buffer: the tail moves on by one, the fill level drops by one.
LEMMA TailStep ==
  ASSUME TypeOK, TypeOK', Diff > 0, txb_tail' = Inc(txb_tail), txb_head' = txb_head
  PROVE  /\ HeadBuf' = HeadBuf
         /\ TailBuf' = IF TailBuf = N - 1 THEN 0 ELSE TailBuf + 1
         /\ Diff' = Diff - 1
<1>1. /\ txb_head \in Ids /\ txb_tail \in Ids
      /\ txb_head' \in Ids /\ txb_tail' \in Ids
  BY Zenon DEF TypeOK
<1>2. HeadBuf' = HeadBuf
  BY Zenon DEF HeadBuf
<1>3. TailBuf' = IF TailBuf = N - 1 THEN 0 ELSE TailBuf + 1
  BY <1>1, IncFacts, Zenon DEF TailBuf
<1>4. Diff' = IF txb_head' >= txb_tail' THEN txb_head' - txb_tail' ELSE txb_head' - txb_tail' + M
  BY <1>1, DiffValue, Zenon DEF Diff
<1>5. Diff = IF txb_head >= txb_tail THEN txb_head - txb_tail ELSE txb_head - txb_tail + M
  BY <1>1, DiffValue, Zenon DEF Diff
<1>6. txb_tail' = IF txb_tail = M - 1 THEN 0 ELSE txb_tail + 1
  BY <1>1, IncFacts, Zenon
<1>7. Diff' = Diff - 1
  BY <1>1, <1>4, <1>5, <1>6, Consts DEF Ids
<1> QED
  BY <1>2, <1>3, <1>7, Zenon

\* Steps that leave both counters alone leave the ring alone.
LEMMA RingStutter ==
  ASSUME txb_head' = txb_head, txb_tail' = txb_tail
  PROVE  /\ HeadBuf' = HeadBuf /\ TailBuf' = TailBuf /\ Diff' = Diff
         /\ Pending' = Pending
         /\ \A b : Dist(b)' = Dist(b) /\ InFlight(b)' = InFlight(b)
  BY Zenon DEF HeadBuf, TailBuf, Diff, Pending, Dist, InFlight

\* Positions in the FIFO are distinct and start with zero at the tail.
LEMMA DistFacts ==
  ASSUME TypeOK
  PROVE  /\ \A b \in Bufs : Dist(b) \in 0..(N - 1)
         /\ \A b, c \in Bufs : Dist(b) = Dist(c) => b = c
         /\ Dist(TailBuf) = 0
  BY RingTypes, Consts DEF Dist, Bufs

\* The types are preserved by every step.
LEMMA TypeStep ==
  ASSUME TypeOK, [Next]_vars
  PROVE  TypeOK'
<1> USE DEF TypeOK, hwvars, drvvars, xvars, ivars, TxtStates, Finished
<1>1. HeadBuf \in Bufs /\ TailBuf \in Bufs
  BY RingTypes, Zenon
<1>2. \A c \in Ids : Inc(c) \in Ids
  BY IncFacts, Zenon
<1>3. CASE Xmit
  <2>1. CASE StartXmit
    BY <2>1 DEF StartXmit
  <2>2. CASE InsertFrame
    BY <1>1, <2>2 DEF InsertFrame
  <2>3. CASE PutEchoSkb
    BY <1>1, <2>3 DEF PutEchoSkb
  <2>4. CASE SetReady
    BY <1>1, <1>2, <2>4, Zenon DEF SetReady
  <2>5. CASE CheckFull
    <3>1. queue_stopped' \in BOOLEAN
      BY <2>5, Zenon DEF CheckFull
    <3> QED
      BY <2>5, <3>1, Zenon DEF CheckFull
  <2> QED
    BY <1>3, <2>1, <2>2, <2>3, <2>4, <2>5, Zenon DEF Xmit
<1>4. CASE Isr
  <2>1. CASE Interrupt
    BY <2>1, Zenon DEF Interrupt
  <2>2. CASE IsrLock
    BY <2>2, Zenon DEF IsrLock
  <2>3. CASE ReapTail
    BY <1>1, <1>2, <2>3, Zenon DEF ReapTail
  <2>4. CASE RotatePrio
    <3>1. txb_prio' \in [0..7 -> 0..7]
      BY <2>4, Consts DEF RotatePrio
    <3> QED
      BY <2>4, <3>1 DEF RotatePrio
  <2>5. CASE SetEmpty
    BY <2>5 DEF SetEmpty
  <2>6. CASE LoopEnd
    BY <2>6, Zenon DEF LoopEnd
  <2>7. CASE ClearTxbhci
    <3>1. txbhci' \in BOOLEAN
      BY <2>7, Zenon DEF ClearTxbhci
    <3> QED
      BY <2>7, <3>1 DEF ClearTxbhci
  <2>8. CASE WakeQueue
    <3>1. queue_stopped' \in BOOLEAN
      BY <2>8, Zenon DEF WakeQueue
    <3> QED
      BY <2>8, <3>1, Zenon DEF WakeQueue
  <2> QED
    BY <1>4, <2>1, <2>2, <2>3, <2>4, <2>5, <2>6, <2>7, <2>8, Zenon DEF Isr
<1>5. CASE Hw
  <2>1. ASSUME NEW b \in Bufs, HwLock(b)
        PROVE  TypeOK'
    BY <2>1 DEF HwLock
  <2>2. ASSUME NEW b \in Bufs, HwRetry(b)
        PROVE  TypeOK'
    BY <2>2 DEF HwRetry
  <2>3. ASSUME NEW b \in Bufs, NEW st \in Finished, HwFinish(b, st)
        PROVE  TypeOK'
    BY <2>3 DEF HwFinish
  <2>4. CASE HwBusOff \/ HwIntegrated
    BY <2>4 DEF HwBusOff, HwIntegrated
  <2>5. CASE HwFail
    BY <2>5 DEF HwFail
  <2> QED
    BY <1>5, <2>1, <2>2, <2>3, <2>4, <2>5, Zenon DEF Hw
<1>6. CASE UNCHANGED vars
  BY <1>6 DEF vars
<1> QED
  BY <1>3, <1>4, <1>5, <1>6, Zenon DEF Next

\* An empty buffer at the head lies right behind the occupied ones.
LEMMA HeadFree ==
  ASSUME TypeOK, RingInv, txb_state[HeadBuf] = "ETY"
  PROVE  Diff < N /\ Dist(HeadBuf) = Diff
<1>1. HeadBuf \in Bufs /\ TailBuf \in Bufs /\ Diff \in Int
  BY RingTypes DEF Ids
<1>2. Diff < N
  BY <1>1, DistFacts, Consts DEF RingInv, InFlight
<1>3. HeadBuf = IF TailBuf + Diff < N THEN TailBuf + Diff ELSE TailBuf + Diff - N
  BY Zenon DEF RingInv
<1>4. Diff >= 0
  BY RingTypes DEF Ids
<1> QED
  BY <1>1, <1>2, <1>3, <1>4, Consts DEF Dist, Bufs

\* If any buffer is empty, the one at the head is.
LEMMA RoomAtHead ==
  ASSUME TypeOK, RingInv, TXTNF
  PROVE  txb_state[HeadBuf] = "ETY"
<1>1. /\ HeadBuf \in Bufs /\ TailBuf \in Bufs /\ txtb_id \in Bufs
      /\ Diff \in Int /\ Diff >= 0
  BY RingTypes DEF Ids, TypeOK
<1>2. PICK b \in Bufs : ~InFlight(b) /\ ~(Reaping /\ b = txtb_id)
  BY Zenon DEF TXTNF, RingInv
<1>3. Dist(b) \in 0..(N - 1) /\ Dist(b) >= Diff /\ Diff < N
  BY <1>1, <1>2, DistFacts, Consts DEF InFlight
<1>4. Dist(HeadBuf) = Diff
  BY <1>1, <1>3, Consts DEF Dist, Bufs, RingInv
<1>5. ~InFlight(HeadBuf)
  BY <1>1, <1>4 DEF InFlight
<1>6. ~(Reaping /\ HeadBuf = txtb_id)
  BY <1>1, <1>2, <1>3, <1>4, DistFacts, Consts DEF RingInv
<1> QED
  BY <1>1, <1>5, <1>6, Zenon DEF RingInv

\* The invariant holds after ctucan_open.
LEMMA InitStep == Init => IInv
<1> SUFFICES ASSUME Init PROVE IInv
  BY Zenon
<1>1. TypeOK
  <2>1. txb_prio \in [0..7 -> 0..7]
    BY DEF Init
  <2>2. 0 \in Bufs /\ 0 \in Ids
    BY Consts DEF Bufs, Ids
  <2> QED
    BY <2>1, <2>2, Zenon DEF Init, TypeOK, TxtStates
<1>2. Diff = 0 /\ TailBuf = 0 /\ HeadBuf = 0
  <2>1. 0 % N = 0 /\ 0 % M = 0
    BY Consts, ModRange
  <2> QED
    BY <2>1 DEF Init, Diff, TailBuf, HeadBuf
<1>3. \A b \in Bufs : Dist(b) = b /\ ~InFlight(b)
  BY <1>2 DEF Dist, InFlight, Bufs
<1>4. RingInv
  BY <1>2, <1>3, Consts DEF Init, RingInv, Reaping
<1>5. PrioInv
  BY <1>3, Consts DEF Init, PrioInv, Bufs
<1>6. LockInv /\ IntInv
  BY Zenon DEF Init, LockInv, IntInv, Reaping
<1>7. SlotInv
  BY Zenon DEF Init, SlotInv
<1>8. FifoOrder
  BY <1>3, Zenon DEF FifoOrder
<1>9. QueueInv
  BY Consts DEF Init, QueueInv, AwakeMeansRoom, TXTNF, Bufs
<1> QED
  BY <1>1, <1>4, <1>5, <1>6, <1>7, <1>8, <1>9, Zenon DEF IInv, CoreInv

\* Every step of ctucan_start_xmit preserves the invariant.
LEMMA XmitStep ==
  ASSUME CoreInv, Xmit
  PROVE  CoreInv'
<1>1. TypeOK /\ TypeOK'
  BY TypeStep, Zenon DEF CoreInv, Next
<1> USE DEF CoreInv, hwvars, drvvars, xvars, ivars
<1>2. CASE StartXmit \/ InsertFrame \/ PutEchoSkb \/ CheckFull
  <2>1. txb_head' = txb_head /\ txb_tail' = txb_tail
    BY <1>2, Zenon DEF StartXmit, InsertFrame, PutEchoSkb, CheckFull
  <2>2. UNCHANGED <<txb_state, txb_prio, txbhci, ivars>>
    BY <1>2, Zenon DEF StartXmit, InsertFrame, PutEchoSkb, CheckFull
  <2>3. RingInv' /\ PrioInv' /\ FifoOrder' /\ IntInv'
    BY <2>1, <2>2, RingStutter, Zenon DEF RingInv, PrioInv, FifoOrder, IntInv, Reaping
  <2>4. LockInv'
    BY <1>1, <1>2, Zenon
      DEF StartXmit, InsertFrame, PutEchoSkb, CheckFull, LockInv, TypeOK, SlotInv
  <2>5. SlotInv'
    <3>1. /\ HeadBuf \in Bufs /\ HeadBuf' = HeadBuf
          /\ \A b \in Bufs : InFlight(b)' = InFlight(b)
          /\ txb_state' = txb_state
      BY <1>1, <2>1, <2>2, RingStutter, RingTypes, Zenon
    <3>2. CASE StartXmit
      BY <1>1, <3>1, <3>2, RoomAtHead, Zenon DEF StartXmit, SlotInv
    <3>3. CASE InsertFrame
      BY <3>1, <3>3, Zenon DEF InsertFrame, SlotInv, Writable
    <3>4. CASE PutEchoSkb
      BY <1>1, <3>1, <3>4, Zenon DEF PutEchoSkb, SlotInv, TypeOK
    <3>5. CASE CheckFull
      BY <3>1, <3>5, Zenon DEF CheckFull, SlotInv
    <3> QED
      BY <1>2, <3>2, <3>3, <3>4, <3>5, Zenon
  <2> QED
    BY <1>1, <2>3, <2>4, <2>5, Zenon
<1>3. CASE SetReady
  <2>1. /\ HeadBuf \in Bufs /\ TailBuf \in Bufs
        /\ Diff \in Int /\ Diff >= 0 /\ Diff < N /\ Dist(HeadBuf) = Diff
        /\ txb_state[HeadBuf] = "ETY"
    BY <1>1, <1>3, RingTypes, HeadFree DEF SetReady, SlotInv, Ids
  <2>2. /\ TailBuf' = TailBuf /\ Diff' = Diff + 1
        /\ HeadBuf' = IF HeadBuf = N - 1 THEN 0 ELSE HeadBuf + 1
    BY <1>1, <1>3, <2>1, HeadStep, Consts DEF SetReady
  <2>3. ~Reaping /\ ~Reaping' /\ isr_pc' = isr_pc
    BY <1>3, Zenon DEF SetReady, LockInv, Reaping
  <2>4. \A b \in Bufs : Dist(b)' = Dist(b)
    BY <2>2, Zenon DEF Dist
  <2>5. \A b \in Bufs : InFlight(b)' <=> InFlight(b) \/ b = HeadBuf
    BY <1>1, <2>1, <2>2, <2>4, DistFacts DEF InFlight
  <2>6. txb_state' = [txb_state EXCEPT ![HeadBuf] = "RDY"]
    BY <1>3, <2>1, Zenon DEF SetReady, Writable
  <2>7. RingInv'
    <3>1. \A b \in Bufs : (txb_state'[b] = "ETY") <=> ~InFlight(b)'
      BY <1>1, <2>1, <2>3, <2>5, <2>6, Zenon DEF RingInv, TypeOK
    <3>2. HeadBuf' = IF TailBuf' + Diff' < N THEN TailBuf' + Diff' ELSE TailBuf' + Diff' - N
      BY <2>1, <2>2, Consts DEF RingInv, Bufs
    <3> QED
      BY <2>1, <2>2, <2>3, <3>1, <3>2, Consts DEF RingInv
  <2>8. PrioInv'
    BY <1>3, <2>3, <2>4, Zenon DEF PrioInv, SetReady
  <2>9. LockInv'
    BY <1>1, <1>3, Zenon DEF SetReady, LockInv, TypeOK
  <2>10. SlotInv'
    BY <1>1, <1>3, <2>5, Zenon DEF SetReady, SlotInv
  <2>11. IntInv'
    BY <1>1, <1>3, <2>1, <2>2, <2>3, <2>6, Consts DEF SetReady, IntInv, Finished, Reaping, TypeOK
  <2>12. FifoOrder'
    <3> SUFFICES ASSUME NEW b \in Bufs, NEW c \in Bufs, InFlight(b)', InFlight(c)',
                        Dist(b)' < Dist(c)', txb_state'[c] \in {"TRAN"} \cup Finished
                 PROVE  txb_state'[b] \in Finished
      BY Zenon DEF FifoOrder
    <3>1. c # HeadBuf /\ InFlight(c) /\ txb_state[c] \in {"TRAN"} \cup Finished
      BY <1>1, <2>1, <2>5, <2>6, Zenon DEF Finished, TypeOK
    <3>2. b # HeadBuf /\ InFlight(b)
      BY <1>1, <2>1, <2>4, <2>5, <3>1, DistFacts DEF InFlight
    <3> QED
      BY <1>1, <2>4, <2>6, <3>1, <3>2, Zenon DEF FifoOrder, TypeOK
  <2> QED
    BY <1>1, <2>7, <2>8, <2>9, <2>10, <2>11, <2>12, Zenon
<1> QED
  BY <1>2, <1>3, Zenon DEF Xmit

\* How the positions shift when the tail moves on.
LEMMA ReapShift ==
  ASSUME TypeOK, TypeOK', Diff > 0, Diff <= N, txb_tail' = Inc(txb_tail), txb_head' = txb_head
  PROVE  \A b \in Bufs : /\ Dist(b)' = IF b = TailBuf THEN N - 1 ELSE Dist(b) - 1
                         /\ InFlight(b)' <=> InFlight(b) /\ b # TailBuf
<1>1. TailBuf \in Bufs /\ Diff \in Int
  BY RingTypes DEF Ids
<1>2. TailBuf' = (IF TailBuf = N - 1 THEN 0 ELSE TailBuf + 1) /\ Diff' = Diff - 1
  BY TailStep, Zenon
<1>3. ASSUME NEW b \in Bufs
      PROVE  Dist(b)' = IF b = TailBuf THEN N - 1 ELSE Dist(b) - 1
  BY <1>1, <1>2, Consts DEF Dist, Bufs
<1>4. ASSUME NEW b \in Bufs
      PROVE  InFlight(b)' <=> InFlight(b) /\ b # TailBuf
  BY <1>1, <1>2, <1>3, DistFacts, Consts DEF InFlight
<1> QED
  BY <1>3, <1>4, Zenon

\* Every step of the interrupt handler preserves the invariant.
LEMMA IsrStep ==
  ASSUME CoreInv, Isr
  PROVE  CoreInv'
<1>1. TypeOK /\ TypeOK'
  BY TypeStep, Zenon DEF CoreInv, Next
<1>2. /\ HeadBuf \in Bufs /\ TailBuf \in Bufs /\ txtb_id \in Bufs
      /\ Diff \in Int /\ Diff >= 0 /\ Diff <= N
  BY <1>1, RingTypes DEF Ids, TypeOK, CoreInv, RingInv
<1>3. Pending <=> Diff > 0
  BY <1>2, Consts DEF Pending
<1> USE DEF CoreInv, hwvars, drvvars, xvars, ivars
<1>4. CASE Interrupt \/ IsrLock \/ LoopEnd \/ ClearTxbhci \/ WakeQueue
  <2>1. /\ UNCHANGED <<txb_head, txb_tail, txb_state, txb_prio, echo_skb, xmit_pc, next_id>>
        /\ ~Reaping /\ ~Reaping'
    BY <1>4, Zenon DEF Interrupt, IsrLock, LoopEnd, ClearTxbhci, WakeQueue, Reaping
  <2>2. RingInv' /\ PrioInv' /\ FifoOrder'
    BY <2>1, RingStutter, Zenon DEF RingInv, PrioInv, FifoOrder, Reaping
  <2>3. LockInv'
    BY <1>1, <1>4, Zenon DEF Interrupt, IsrLock, LoopEnd, ClearTxbhci, WakeQueue, LockInv, TypeOK
  <2>4. SlotInv'
    <3>1. \/ queue_stopped' = queue_stopped
          \/ queue_stopped' = (queue_stopped /\ ~TXTNF)
      BY <1>4, Zenon DEF Interrupt, IsrLock, LoopEnd, ClearTxbhci, WakeQueue
    <3> QED
      BY <2>1, <3>1, RingStutter, Zenon DEF SlotInv
  <2>5. IntInv'
    <3>1. TailBuf' = TailBuf /\ Diff' = Diff /\ txb_state' = txb_state
      BY <2>1, RingStutter, Zenon
    <3>2. CASE Interrupt
      BY <3>1, <3>2, Zenon DEF Interrupt, IntInv, Reaping
    <3>3. CASE IsrLock
      BY <3>1, <3>3, Zenon DEF IsrLock, IntInv, Reaping
    <3>4. CASE LoopEnd
      BY <1>3, <3>1, <3>4, Zenon DEF LoopEnd, IntInv, Reaping
    <3>5. CASE ClearTxbhci
      BY <3>1, <3>5, Zenon DEF ClearTxbhci, IntInv, Reaping
    <3>6. CASE WakeQueue
      BY <3>1, <3>6, Zenon DEF WakeQueue, IntInv, Reaping
    <3> QED
      BY <1>4, <3>2, <3>3, <3>4, <3>5, <3>6, Zenon
  <2> QED
    BY <1>1, <2>2, <2>3, <2>4, <2>5, Zenon
<1>5. CASE ReapTail
  <2>1. Diff > 0 /\ ~Reaping /\ Reaping' /\ isr_pc = "loop"
    BY <1>3, <1>5, Zenon DEF ReapTail, Reaping
  <2>2. /\ HeadBuf' = HeadBuf /\ Diff' = Diff - 1
        /\ TailBuf' = IF TailBuf = N - 1 THEN 0 ELSE TailBuf + 1
    BY <1>1, <1>5, <2>1, TailStep, Zenon DEF ReapTail
  <2>3. \A b \in Bufs : /\ Dist(b)' = IF b = TailBuf THEN N - 1 ELSE Dist(b) - 1
                        /\ InFlight(b)' <=> InFlight(b) /\ b # TailBuf
    BY <1>1, <1>2, <1>5, <2>1, ReapShift, Zenon DEF ReapTail
  <2>4. RingInv'
    <3>1. HeadBuf' = IF TailBuf' + Diff' < N THEN TailBuf' + Diff' ELSE TailBuf' + Diff' - N
      BY <1>2, <2>1, <2>2, Consts DEF RingInv, Bufs
    <3>2. \A b \in Bufs : txb_state'[b] = "ETY" <=> ~InFlight(b)' /\ ~(b = txtb_id')
      BY <1>2, <1>5, <2>1, <2>3, Zenon DEF RingInv, ReapTail, Finished, InFlight
    <3> QED
      BY <1>2, <1>5, <2>1, <2>2, <2>3, <3>1, <3>2, Consts DEF RingInv, ReapTail
  <2>5. PrioInv'
    BY <1>1, <1>2, <1>5, <2>1, <2>3, DistFacts, Consts DEF PrioInv, ReapTail
  <2>6. LockInv'
    BY <1>1, <1>5, Zenon DEF ReapTail, LockInv, TypeOK
  <2>7. SlotInv'
    BY <1>1, <1>2, <1>5, <2>2, <2>3, Zenon DEF ReapTail, SlotInv, Finished, TypeOK
  <2>8. IntInv'
    BY <1>5, Zenon DEF ReapTail, IntInv, Reaping
  <2>9. FifoOrder'
    BY <1>1, <1>2, <1>5, <2>3, DistFacts DEF ReapTail, FifoOrder
  <2> QED
    BY <1>1, <2>4, <2>5, <2>6, <2>7, <2>8, <2>9
<1>6. CASE RotatePrio
  <2>1. /\ UNCHANGED <<txb_head, txb_tail, txb_state, echo_skb, xmit_pc, next_id, txtb_id>>
        /\ Reaping /\ Reaping'
    BY <1>6, Zenon DEF RotatePrio, Reaping
  <2>2. RingInv' /\ FifoOrder'
    BY <2>1, RingStutter, Zenon DEF RingInv, FifoOrder
  <2>3. PrioInv'
    <3> SUFFICES ASSUME NEW b \in Bufs
                 PROVE  txb_prio'[b] = 7 - Dist(b)
      BY <1>6, <2>1, RingStutter, Zenon DEF PrioInv, RotatePrio
    <3> DEFINE p == IF b = 0 THEN N - 1 ELSE b - 1
    <3>1. p \in Bufs /\ Dist(p) = IF Dist(b) = 0 THEN N - 1 ELSE Dist(b) - 1
      BY <1>2, Consts DEF Dist, Bufs
    <3>2. txb_prio'[b] = txb_prio[p]
      BY <1>6, Consts DEF RotatePrio, Bufs
    <3>3. txb_prio[p] = IF Dist(p) = N - 1 THEN 7 ELSE 6 - Dist(p)
      BY <1>6, <3>1, Zenon DEF PrioInv, RotatePrio
    <3>4. Dist(b) \in 0..(N - 1)
      BY <1>1, DistFacts, Zenon
    <3> QED
      BY <3>1, <3>2, <3>3, <3>4, Consts
  <2>4. LockInv' /\ IntInv'
    BY <1>6, Zenon DEF RotatePrio, LockInv, IntInv, Reaping
  <2>5. SlotInv'
    BY <1>6, <2>1, RingStutter, Zenon DEF RotatePrio, SlotInv
  <2> QED
    BY <1>1, <2>2, <2>3, <2>4, <2>5, Zenon
<1>7. CASE SetEmpty
  <2>1. /\ UNCHANGED <<txb_head, txb_tail, txb_prio, echo_skb, xmit_pc, next_id, txtb_id>>
        /\ Reaping /\ ~Reaping'
    BY <1>7, Zenon DEF SetEmpty, Reaping
  <2>2. ~InFlight(txtb_id) /\ Dist(txtb_id) = N - 1
    BY <1>2, <2>1, Consts DEF RingInv, InFlight
  <2>3. txb_state' = [txb_state EXCEPT ![txtb_id] = "ETY"]
    BY <1>7, <2>1, ZenonT(40) DEF SetEmpty, RingInv
  <2>4. RingInv'
    BY <1>1, <1>2, <2>1, <2>2, <2>3, RingStutter, Zenon DEF RingInv, TypeOK
  <2>5. PrioInv'
    BY <1>7, <2>1, RingStutter, Zenon DEF PrioInv, SetEmpty
  <2>6. LockInv' /\ IntInv'
    BY <1>7, Zenon DEF SetEmpty, LockInv, IntInv, Reaping
  <2>7. SlotInv'
    BY <1>1, <1>2, <1>7, <2>1, <2>3, RingStutter, Zenon
      DEF SetEmpty, SlotInv, TypeOK
  <2>8. FifoOrder'
    BY <1>1, <1>2, <2>1, <2>2, <2>3, RingStutter DEF FifoOrder, TypeOK
  <2> QED
    BY <1>1, <2>4, <2>5, <2>6, <2>7, <2>8, Zenon
<1> QED
  BY <1>4, <1>5, <1>6, <1>7, Zenon DEF Isr

\* The controller neither fills nor empties a buffer, and leaves finished ones alone;
\* that is all the driver's part of the invariant needs.
LEMMA HwFrame ==
  ASSUME CoreInv, TypeOK', UNCHANGED <<txb_prio, drvvars, xvars, ivars>>,
         \A b \in Bufs : /\ txb_state'[b] = "ETY" <=> txb_state[b] = "ETY"
                         /\ txb_state[b] \in Finished => txb_state'[b] = txb_state[b]
  PROVE  RingInv' /\ PrioInv' /\ LockInv' /\ SlotInv'
<1> USE DEF CoreInv, drvvars, xvars, ivars
<1>1. HeadBuf \in Bufs /\ txtb_id \in Bufs
  BY RingTypes, Zenon DEF TypeOK
<1>2. Reaping' = Reaping
  BY Zenon DEF Reaping
<1>3. RingInv'
  BY <1>1, <1>2, RingStutter, Zenon DEF RingInv
<1>4. PrioInv' /\ LockInv'
  BY RingStutter, Zenon DEF PrioInv, LockInv
<1>5. SlotInv'
  BY <1>1, RingStutter, Zenon DEF SlotInv
<1> QED
  BY <1>3, <1>4, <1>5, Zenon

\* Every step of the controller preserves the invariant.
LEMMA HwStep ==
  ASSUME CoreInv, Hw
  PROVE  CoreInv'
<1>1. TypeOK /\ TypeOK'
  BY TypeStep, Zenon DEF CoreInv, Next
<1>2. /\ TailBuf \in Bufs /\ Diff \in Int
      /\ \A b \in Bufs : Dist(b) \in 0..(N - 1)
  BY <1>1, RingTypes, DistFacts DEF Ids
<1>3. \A b \in Bufs : txb_state[b] \in {"RDY", "TRAN"} => InFlight(b)
  BY Zenon DEF CoreInv, RingInv, Finished
<1> USE DEF CoreInv, hwvars, drvvars, xvars, ivars
<1>9. /\ DOMAIN txb_state = Bufs
      /\ \A b \in Bufs : txb_state[b] \in TxtStates
  BY <1>1, Zenon DEF TypeOK
<1>4. ASSUME NEW b \in Bufs, HwLock(b)
      PROVE  CoreInv'
  <2>1. /\ UNCHANGED <<txb_prio, txbhci, drvvars, xvars, ivars>>
        /\ txb_state[b] = "RDY"
        /\ \A c \in Bufs : txb_state'[c] = IF c = b THEN "TRAN" ELSE txb_state[c]
    BY <1>4, <1>9, Zenon DEF HwLock, Selected
  <2>2. RingInv' /\ PrioInv' /\ LockInv' /\ SlotInv'
    BY <1>1, <2>1, HwFrame, Zenon DEF Finished
  <2>3. ASSUME NEW d \in Bufs, InFlight(d), Dist(d) < Dist(b)
        PROVE  txb_state[d] \in Finished
    <3>1. InFlight(b)
      BY <1>3, <2>1, Zenon
    <3>2. txb_prio[b] < txb_prio[d]
      BY <1>2, <2>3, <3>1, Consts DEF PrioInv, RingInv, InFlight, Reaping
    <3>3. txb_state[d] # "RDY"
      <4>1. txb_prio[b] \in Int /\ txb_prio[d] \in Int
        BY <1>1, Consts DEF TypeOK, Bufs
      <4> QED
        BY <1>4, <3>2, <4>1 DEF HwLock, Selected
    <3>4. txb_state[d] # "TRAN" /\ txb_state[d] # "ETY"
      BY <1>4, <2>3, Zenon DEF HwLock, RingInv
    <3> QED
      BY <1>1, <3>3, <3>4, Zenon DEF TypeOK, TxtStates, Finished
  <2>4. FifoOrder'
    BY <1>2, <1>3, <2>1, <2>3, RingStutter, Zenon DEF FifoOrder, Finished
  <2>5. IntInv'
    BY <1>2, <2>1, RingStutter, Zenon DEF IntInv, Finished, Reaping
  <2> QED
    BY <1>1, <2>2, <2>4, <2>5, Zenon
<1>5. ASSUME NEW b \in Bufs, HwRetry(b)
      PROVE  CoreInv'
  <2>1. /\ UNCHANGED <<txb_prio, txbhci, drvvars, xvars, ivars>>
        /\ txb_state[b] = "TRAN"
        /\ \A c \in Bufs : txb_state'[c] = IF c = b THEN "RDY" ELSE txb_state[c]
    BY <1>5, <1>9, Zenon DEF HwRetry
  <2>2. RingInv' /\ PrioInv' /\ LockInv' /\ SlotInv'
    BY <1>1, <2>1, HwFrame, Zenon DEF Finished
  <2>3. FifoOrder'
    BY <2>1, RingStutter, Zenon DEF FifoOrder, Finished
  <2>4. IntInv'
    BY <1>2, <2>1, RingStutter, Zenon DEF IntInv, Finished, Reaping
  <2> QED
    BY <1>1, <2>2, <2>3, <2>4
<1>6. ASSUME NEW b \in Bufs, NEW st \in Finished, HwFinish(b, st)
      PROVE  CoreInv'
  <2>1. /\ UNCHANGED <<txb_prio, drvvars, xvars, ivars>>
        /\ txb_state[b] = "TRAN"
        /\ \A c \in Bufs : txb_state'[c] = IF c = b THEN st ELSE txb_state[c]
    BY <1>6, <1>9, Zenon DEF HwFinish
  <2>2. RingInv' /\ PrioInv' /\ LockInv' /\ SlotInv'
    BY <1>1, <2>1, HwFrame, Zenon DEF Finished
  <2>3. FifoOrder'
    BY <2>1, RingStutter, Zenon DEF FifoOrder, Finished
  <2>4. Diff > 0 /\ txb_state'[TailBuf] \in Finished
    <3>1. CASE TailBuf = b
      BY <1>2, <1>3, <2>1, <3>1 DEF InFlight
    <3>2. CASE TailBuf # b
      <4>1. Dist(TailBuf) = 0 /\ Dist(b) > 0
        BY <1>1, <1>2, <3>2, DistFacts
      <4>2. InFlight(b) /\ InFlight(TailBuf) /\ Diff > 0
        BY <1>2, <1>3, <2>1, <4>1 DEF InFlight
      <4> QED
        BY <1>2, <2>1, <3>2, <4>1, <4>2, Zenon DEF FifoOrder
    <3> QED
      BY <3>1, <3>2, Zenon
  <2>5. IntInv'
    BY <2>1, <2>4, RingStutter, Zenon DEF IntInv, Reaping
  <2> QED
    BY <1>1, <2>2, <2>3, <2>5, Zenon
<1>7. CASE HwFail
  <2>1. /\ UNCHANGED <<txb_prio, drvvars, xvars, ivars>>
        /\ \A b \in Bufs : txb_state'[b] = IF txb_state[b] \in {"RDY", "TRAN"}
                                            THEN "ERR" ELSE txb_state[b]
    BY <1>7, Zenon DEF HwFail
  <2>2. RingInv' /\ PrioInv' /\ LockInv' /\ SlotInv'
    BY <1>1, <2>1, HwFrame, Zenon DEF Finished
  <2>3. \A b \in Bufs : InFlight(b) => txb_state'[b] \in Finished
    BY <1>1, <2>1, Zenon DEF RingInv, TypeOK, TxtStates, Finished
  <2>4. FifoOrder'
    BY <2>1, <2>3, RingStutter, Zenon DEF FifoOrder
  <2>5. Diff > 0 /\ txb_state'[TailBuf] \in Finished
    <3>1. PICK b \in Bufs : InFlight(b)
      BY <1>3, <1>7, Zenon DEF HwFail
    <3>2. Diff > 0
      BY <1>2, <3>1 DEF InFlight
    <3> QED
      BY <1>1, <1>2, <2>3, <3>2, DistFacts, Zenon DEF InFlight
  <2>6. IntInv'
    BY <2>1, <2>5, RingStutter, Zenon DEF IntInv, Reaping
  <2> QED
    BY <1>1, <2>2, <2>4, <2>6, Zenon
<1>8. CASE HwBusOff \/ HwIntegrated
  <2>1. UNCHANGED <<txb_state, txb_prio, txbhci, drvvars, xvars, ivars>>
    BY <1>8, Zenon DEF HwBusOff, HwIntegrated
  <2>2. RingInv' /\ PrioInv' /\ LockInv' /\ SlotInv'
    BY <1>1, <2>1, HwFrame, Zenon
  <2>3. IntInv' /\ FifoOrder'
    BY <2>1, RingStutter, Zenon DEF IntInv, FifoOrder, Reaping
  <2> QED
    BY <1>1, <2>2, <2>3, Zenon
<1> QED
  BY <1>4, <1>5, <1>6, <1>7, <1>8, Zenon DEF Hw

-----------------------------------------------------------------------------
\* Every variable of the transmit path keeps its type (the txb counters stay in
\* range over their wrap-around), for every number of buffers and counter width.
THEOREM TxTypes == Spec => []TypeOK
<1>1. Init => TypeOK
  BY InitStep, Zenon DEF IInv, CoreInv
<1> QED
  BY <1>1, TypeStep, PTL DEF Spec

\* The queue is stopped in time, and woken only when there is room.
LEMMA QueueStep ==
  ASSUME IInv, [Next]_vars
  PROVE  QueueInv'
<1> USE DEF IInv, QueueInv, AwakeMeansRoom, hwvars, drvvars, xvars, ivars
<1>1. TypeOK /\ SlotInv
  BY Zenon DEF CoreInv
<1>2. CASE Xmit
  <2>1. CASE StartXmit
    BY <2>1, Zenon DEF StartXmit
  <2>2. CASE InsertFrame
    BY <1>1, <2>2, Zenon DEF InsertFrame, SlotInv, Writable
  <2>3. CASE PutEchoSkb \/ SetReady
    BY <2>3, Zenon DEF PutEchoSkb, SetReady
  <2>4. CASE CheckFull
    BY <2>4, Zenon DEF CheckFull, TXTNF
  <2> QED
    BY <1>2, <2>1, <2>2, <2>3, <2>4, Zenon DEF Xmit
<1>3. CASE Isr
  <2>1. CASE SetEmpty
    <3>1. \A b \in Bufs : txb_state[b] = "ETY" => txb_state'[b] = "ETY"
      BY <1>1, <2>1, Zenon DEF SetEmpty, TypeOK, Finished
    <3> QED
      BY <2>1, <3>1, Zenon DEF SetEmpty, TXTNF
  <2>2. CASE WakeQueue
    BY <2>2, Zenon DEF WakeQueue, TXTNF
  <2>3. CASE Interrupt \/ IsrLock \/ ReapTail \/ RotatePrio \/ LoopEnd \/ ClearTxbhci
    BY <2>3, Zenon DEF Interrupt, IsrLock, ReapTail, RotatePrio, LoopEnd, ClearTxbhci, TXTNF
  <2> QED
    BY <1>3, <2>1, <2>2, <2>3, Zenon DEF Isr
<1>4. CASE Hw
  <2>1. /\ UNCHANGED <<xmit_pc, queue_stopped>>
        /\ \A b \in Bufs : txb_state[b] = "ETY" => txb_state'[b] = "ETY"
    BY <1>1, <1>4, Zenon DEF Hw, HwLock, HwRetry, HwFinish, HwBusOff, HwIntegrated, HwFail, Selected, TypeOK
  <2> QED
    BY <2>1, Zenon DEF TXTNF
<1>5. CASE UNCHANGED vars
  BY <1>5, Zenon DEF vars, TXTNF
<1> QED
  BY <1>2, <1>3, <1>4, <1>5, Zenon DEF Next

\* The invariant that ties counters, buffer states, priorities, lock, queue and pending
\* interrupt together holds in every reachable state.
THEOREM TxInvariant == Spec => []IInv
<1>1. ASSUME CoreInv, UNCHANGED vars
      PROVE  CoreInv'
  <2> USE <1>1 DEF CoreInv, vars, hwvars, drvvars, xvars, ivars
  <2>1. TypeOK'
    BY TypeStep, Zenon
  <2>2. RingInv' /\ PrioInv' /\ LockInv' /\ SlotInv'
    BY <2>1, HwFrame, Zenon
  <2>3. IntInv' /\ FifoOrder'
    BY RingStutter, Zenon DEF IntInv, FifoOrder, Reaping
  <2> QED
    BY <2>1, <2>2, <2>3, Zenon
<1>2. CoreInv /\ [Next]_vars => CoreInv'
  BY <1>1, XmitStep, IsrStep, HwStep, Zenon DEF Next
<1>3. IInv /\ [Next]_vars => IInv'
  BY <1>2, QueueStep, Zenon DEF IInv
<1> QED
  BY <1>3, InitStep, PTL DEF Spec

\* ctucan_start_xmit never finds all buffers taken while the queue is awake.
THEOREM TxAwakeMeansRoom == Spec => []AwakeMeansRoom
<1>1. IInv => AwakeMeansRoom
  BY Zenon DEF IInv, QueueInv
<1> QED
  BY <1>1, TxInvariant, PTL

\* The buffer and echo slot filled outside tx_lock are free all the while.
THEOREM TxSlotFree == Spec => []SlotFree
<1>1. CoreInv => SlotFree
  <2> SUFFICES ASSUME CoreInv, xmit_pc \in {"insert", "echo", "ready"}
               PROVE  /\ txb_state[HeadBuf] = "ETY"
                      /\ xmit_pc # "ready" => echo_skb[HeadBuf] = NoSkb
    BY Zenon DEF SlotFree
  <2>1. txb_state[HeadBuf] = "ETY" /\ HeadBuf \in Bufs
    BY RingTypes, Zenon DEF CoreInv, SlotInv
  <2> QED
    BY <2>1, Zenon DEF CoreInv, SlotInv, RingInv
<1>2. IInv => CoreInv
  BY Zenon DEF IInv
<1> QED
  BY <1>1, <1>2, TxInvariant, PTL

\* The interrupt handler never finds an unfinished buffer at its first look.
THEOREM TxTailFinished == Spec => []TailFinished
<1>1. CoreInv => TailFinished
  BY Zenon DEF CoreInv, IntInv, TailFinished
<1>2. IInv => CoreInv
  BY DEF IInv
<1> QED
  BY <1>1, <1>2, TxInvariant, PTL

\* The rotated priorities make the controller send the frames in FIFO order.
THEOREM TxFifoOrder == Spec => []FifoOrder
<1>1. CoreInv => FifoOrder
  BY Zenon DEF CoreInv
<1>2. IInv => CoreInv
  BY DEF IInv
<1> QED
  BY <1>1, <1>2, TxInvariant, PTL

-----------------------------------------------------------------------------
(* The refinement: each action either leaves the view of the FIFO alone     *)
(* (SameView) or is one step of TxFifo, which the invariant enables.        *)

\* Functions on an initial segment as sequences.
LEMMA AppendValue ==
  ASSUME NEW n \in Nat, NEW S, NEW f \in [1..n -> S], NEW g \in [1..(n + 1) -> S],
         \A k \in 1..n : g[k] = f[k]
  PROVE  g = Append(f, g[n + 1]) /\ Len(f) = n
<1>1. f \in Seq(S) /\ Len(f) = n
  OBVIOUS
<1>2. Append(f, g[n + 1]) = [k \in 1..(n + 1) |-> IF k <= n THEN f[k] ELSE g[n + 1]]
  BY <1>1
<1>3. \A k \in 1..(n + 1) : g[k] = IF k <= n THEN f[k] ELSE g[n + 1]
  OBVIOUS
<1> QED
  BY <1>1, <1>2, <1>3, Zenon

\* The same, for taking the first element off.
LEMMA TailValue ==
  ASSUME NEW n \in Nat, NEW S, NEW f \in [1..(n + 1) -> S], NEW g \in [1..n -> S],
         \A k \in 1..n : g[k] = f[k + 1]
  PROVE  g = Tail(f) /\ Head(f) = f[1] /\ f # <<>>
<1>1. f \in Seq(S) /\ Len(f) = n + 1
  OBVIOUS
<1>2. f # <<>>
  BY <1>1
<1>3. Head(f) = f[1]
  BY <1>1, <1>2
<1>4. /\ Tail(f) \in Seq(S) /\ Len(Tail(f)) = n
      /\ \A k \in 1..n : Tail(f)[k] = f[k + 1]
  BY <1>1, <1>2
<1>5. DOMAIN Tail(f) = 1..n
  BY <1>1, <1>2, <1>4
<1> QED
  BY <1>2, <1>3, <1>4, <1>5

\* The k-th place of the FIFO is the buffer at distance k - 1 from the tail.
LEMMA SlotFacts ==
  ASSUME TypeOK, Diff <= N
  PROVE  /\ Diff \in Nat
         /\ \A k \in 1..N : /\ Slot(k) \in Bufs
                            /\ Dist(Slot(k)) = k - 1
                            /\ Slot(k) = IF TailBuf + k - 1 < N THEN TailBuf + k - 1
                                         ELSE TailBuf + k - 1 - N
         /\ \A k \in 1..Diff : k \in 1..N /\ InFlight(Slot(k))
         /\ \A b \in Bufs : Dist(b) + 1 \in 1..N /\ Slot(Dist(b) + 1) = b
<1>1. TailBuf \in 0..(N - 1) /\ Diff \in Nat /\ N \in Nat \ {0}
  BY RingTypes, Consts DEF Bufs, Ids
<1>2. ASSUME NEW k \in 1..N
      PROVE  Slot(k) = IF TailBuf + k - 1 < N THEN TailBuf + k - 1 ELSE TailBuf + k - 1 - N
  <2>1. CASE TailBuf + k - 1 < N
    <3>1. TailBuf + k - 1 \in 0..(N - 1) /\ TailBuf + k - 1 \in Int
      BY <1>1, <2>1
    <3> QED
      BY <1>1, <2>1, <3>1, ModRange, Zenon DEF Slot
  <2>2. CASE ~(TailBuf + k - 1 < N)
    <3>1. TailBuf + k - 1 \in N..(2 * N - 1) /\ TailBuf + k - 1 \in Int
      BY <1>1, <2>2
    <3> QED
      BY <1>1, <2>2, <3>1, ModRange DEF Slot
  <2> QED
    BY <2>1, <2>2, Zenon
<1>3. \A k \in 1..N : Slot(k) \in Bufs /\ Dist(Slot(k)) = k - 1
  BY <1>1, <1>2 DEF Bufs, Dist
<1>4. \A k \in 1..Diff : k \in 1..N /\ InFlight(Slot(k))
  <2>1. \A k \in 1..Diff : k \in 1..N /\ k - 1 < Diff
    BY <1>1
  <2> QED
    BY <1>3, <2>1, Zenon DEF InFlight
<1>5. \A b \in Bufs : Dist(b) + 1 \in 1..N /\ Slot(Dist(b) + 1) = b
  <2> SUFFICES ASSUME NEW b \in Bufs
               PROVE  Dist(b) + 1 \in 1..N /\ Slot(Dist(b) + 1) = b
    BY Zenon
  <2>1. Dist(b) \in 0..(N - 1)
    BY DistFacts, Zenon
  <2>2. Dist(b) + 1 \in 1..N
    BY <1>1, <2>1
  <2> QED
    BY <1>1, <1>2, <2>2 DEF Dist, Bufs
<1> QED
  BY <1>1, <1>2, <1>3, <1>4, <1>5, Zenon

\* The possible entries of the FIFO.
Entries == [id : Ids \cup {NoSkb}, st : {"ok", "failed", "wait"}]

\* The view is a sequence of entries.
LEMMA ViewType ==
  ASSUME TypeOK, Diff <= N
  PROVE  FifoView \in [1..Diff -> Entries]
<1>1. \A b \in Bufs : FifoEntry(b) \in Entries
  BY Zenon DEF TypeOK, FifoEntry, Status, Entries
<1> QED
  BY <1>1, SlotFacts, Zenon DEF FifoView

\* A step that leaves the counters, and the entries of the buffers in flight, alone
\* leaves the view alone.
LEMMA SameView ==
  ASSUME TypeOK, Diff <= N, txb_head' = txb_head, txb_tail' = txb_tail,
         \A b \in Bufs : InFlight(b) => FifoEntry(b)' = FifoEntry(b)
  PROVE  FifoView' = FifoView
<1>1. Diff' = Diff /\ TailBuf' = TailBuf
  BY RingStutter, Zenon
<1>2. \A k \in 1..Diff : Slot(k)' = Slot(k) /\ FifoEntry(Slot(k))' = FifoEntry(Slot(k))
  BY <1>1, SlotFacts, Zenon DEF Slot
<1> QED
  BY <1>1, <1>2, Zenon DEF FifoView

\* The steps of ctucan_start_xmit: setting the buffer ready accepts the frame, the
\* others stutter.
LEMMA XmitRefines ==
  ASSUME CoreInv, Xmit
  PROVE  Fifo!Accept \/ UNCHANGED Fifo!vars
<1> USE DEF hwvars, drvvars, xvars, ivars
<1>1. TypeOK /\ TypeOK' /\ Diff <= N /\ Diff \in Nat
  BY TypeStep, SlotFacts, Zenon DEF CoreInv, Next, RingInv
<1>2. CASE StartXmit \/ InsertFrame \/ CheckFull
  <2>1. UNCHANGED <<txb_head, txb_tail, txb_state, echo_skb, next_id>>
    BY <1>2, Zenon DEF StartXmit, InsertFrame, CheckFull
  <2>2. \A b \in Bufs : FifoEntry(b)' = FifoEntry(b)
    BY <2>1, Zenon DEF FifoEntry
  <2> QED
    BY <1>1, <2>1, <2>2, SameView, Zenon DEF Fifo!vars
<1>3. CASE PutEchoSkb
  <2>1. /\ UNCHANGED <<txb_head, txb_tail, txb_state, next_id>>
        /\ echo_skb' = [echo_skb EXCEPT ![HeadBuf] = next_id]
        /\ txb_state[HeadBuf] = "ETY" /\ HeadBuf \in Bufs
    BY <1>1, <1>3, RingTypes, Zenon DEF PutEchoSkb, CoreInv, SlotInv
  <2>2. ~InFlight(HeadBuf)
    BY <2>1, ZenonT(40) DEF CoreInv, RingInv
  <2>3. ASSUME NEW b \in Bufs, InFlight(b)
        PROVE  FifoEntry(b)' = FifoEntry(b)
    BY <1>1, <2>1, <2>2, <2>3, Zenon DEF FifoEntry, TypeOK
  <2> QED
    BY <1>1, <2>1, <2>3, SameView, Zenon DEF Fifo!vars
<1>4. CASE SetReady
  <2>1. /\ txb_state[HeadBuf] = "ETY" /\ echo_skb[HeadBuf] = next_id /\ HeadBuf \in Bufs
        /\ txb_head' = Inc(txb_head) /\ txb_tail' = txb_tail
        /\ next_id' = (next_id + 1) % M /\ echo_skb' = echo_skb
        /\ txb_state' = [txb_state EXCEPT ![HeadBuf] = "RDY"]
    BY <1>1, <1>4, RingTypes, Zenon DEF SetReady, CoreInv, SlotInv, Writable, Inc
  <2>2. Diff < N /\ Dist(HeadBuf) = Diff
    BY <1>1, <2>1, HeadFree, Zenon DEF CoreInv
  <2>3. TailBuf' = TailBuf /\ Diff' = Diff + 1
    BY <1>1, <2>1, HeadStep, Zenon
  <2>4. Slot(Diff + 1) = HeadBuf /\ Diff + 1 \in 1..N
    BY <1>1, <2>1, <2>2, SlotFacts, Zenon
  <2>5. ASSUME NEW b \in Bufs, b = HeadBuf
        PROVE  FifoEntry(b)' = [id |-> next_id, st |-> "wait"]
    <3>1. echo_skb'[b] = next_id /\ txb_state'[b] = "RDY"
      BY <1>1, <2>1, <2>5, Zenon DEF TypeOK
    <3> QED
      BY <3>1, Zenon DEF FifoEntry, Status
  <2>6. ASSUME NEW b \in Bufs, b # HeadBuf
        PROVE  FifoEntry(b)' = FifoEntry(b)
    <3>1. echo_skb'[b] = echo_skb[b] /\ txb_state'[b] = txb_state[b]
      BY <1>1, <2>1, <2>6, Zenon DEF TypeOK
    <3> QED
      BY <3>1, Zenon DEF FifoEntry
  <2>7. \A k \in 1..N : Slot(k)' = Slot(k)
    BY <2>3, Zenon DEF Slot
  <2>8. \A k \in 1..(Diff + 1) : FifoView'[k] = FifoEntry(Slot(k))'
    BY <2>3, Zenon DEF FifoView
  <2>9. ASSUME NEW k \in 1..N, k = Diff + 1
        PROVE  FifoView'[k] = [id |-> next_id, st |-> "wait"]
    <3>1. Slot(k)' = Slot(k) /\ Slot(k) = HeadBuf /\ Slot(k) \in Bufs /\ k \in 1..(Diff + 1)
      BY <1>1, <2>1, <2>4, <2>7, <2>9
    <3> QED
      BY <2>5, <2>8, <3>1, Zenon DEF FifoEntry
  <2>10. ASSUME NEW k \in 1..Diff
         PROVE  FifoView'[k] = FifoView[k]
    <3>1. Slot(k) \in Bufs /\ Slot(k) # HeadBuf /\ k \in 1..N /\ k \in 1..(Diff + 1)
      BY <1>1, <2>2, SlotFacts
    <3> QED
      BY <2>6, <2>7, <2>8, <3>1, Zenon DEF FifoView, FifoEntry
  <2>11. FifoView \in [1..Diff -> Entries] /\ FifoView' \in [1..(Diff + 1) -> Entries]
    <3>1. FifoView' = [k \in 1..(Diff + 1) |-> FifoView'[k]]
      BY <2>3, Zenon DEF FifoView
    <3>2. [id |-> next_id, st |-> "wait"] \in Entries
      BY <1>1, Zenon DEF TypeOK, Entries
    <3>3. FifoView \in [1..Diff -> Entries]
      BY <1>1, ViewType, Zenon
    <3>4. \A k \in 1..(Diff + 1) : FifoView'[k] \in Entries
      <4> SUFFICES ASSUME NEW k \in 1..(Diff + 1) PROVE FifoView'[k] \in Entries
        BY Zenon
      <4>1. k \in 1..Diff \/ (k = Diff + 1 /\ k \in 1..N)
        BY <1>1, <2>4
      <4> QED
        BY <2>9, <2>10, <3>2, <3>3, <4>1, Zenon
    <3> QED
      BY <3>1, <3>3, <3>4, Zenon
  <2>12. FifoView' = Append(FifoView, FifoView'[Diff + 1]) /\ Len(FifoView) = Diff
    BY <1>1, <2>10, <2>11, AppendValue, Zenon
  <2> QED
    BY <2>1, <2>2, <2>4, <2>9, <2>12, Zenon DEF Fifo!Accept
<1> QED
  BY <1>2, <1>3, <1>4, Zenon DEF Xmit

\* The steps of the interrupt handler: reaping the tail reports its frame, the others
\* stutter; the buffer emptied is no longer in the FIFO.
LEMMA IsrRefines ==
  ASSUME CoreInv, Isr
  PROVE  Fifo!Report \/ UNCHANGED Fifo!vars
<1> USE DEF hwvars, drvvars, xvars, ivars
<1>1. TypeOK /\ TypeOK' /\ Diff <= N /\ Diff \in Nat
  BY TypeStep, SlotFacts, Zenon DEF CoreInv, Next, RingInv
<1>2. CASE Interrupt \/ IsrLock \/ RotatePrio \/ LoopEnd \/ ClearTxbhci \/ WakeQueue
  <2>1. UNCHANGED <<txb_head, txb_tail, txb_state, echo_skb, next_id>>
    BY <1>2, Zenon DEF Interrupt, IsrLock, RotatePrio, LoopEnd, ClearTxbhci, WakeQueue
  <2>2. \A b \in Bufs : FifoEntry(b)' = FifoEntry(b)
    BY <2>1 DEF FifoEntry
  <2> QED
    BY <1>1, <2>1, <2>2, SameView DEF Fifo!vars
<1>3. CASE SetEmpty
  <2>1. /\ UNCHANGED <<txb_head, txb_tail, echo_skb, next_id>> /\ Reaping
        /\ \A b \in Bufs : b # txtb_id => txb_state'[b] = txb_state[b]
    BY <1>1, <1>3, Zenon DEF SetEmpty, Reaping, TypeOK
  <2>2. ~InFlight(txtb_id)
    <3>1. Diff < N /\ Dist(txtb_id) = N - 1
      BY <2>1, Zenon DEF CoreInv, RingInv
    <3>2. Diff \in Ids
      BY RingTypes, Zenon DEF CoreInv
    <3> QED
      BY <3>1, <3>2, Consts DEF InFlight, Ids
  <2>3. ASSUME NEW b \in Bufs, InFlight(b)
        PROVE  FifoEntry(b)' = FifoEntry(b)
    BY <2>1, <2>2, <2>3, Zenon DEF FifoEntry
  <2> QED
    BY <1>1, <2>1, <2>3, SameView, Zenon DEF Fifo!vars
<1>4. CASE ReapTail
  <2>1. /\ TailBuf \in Bufs /\ txb_state[TailBuf] \in Finished /\ Diff > 0
        /\ txb_tail' = Inc(txb_tail) /\ txb_head' = txb_head
        /\ UNCHANGED <<txb_state, next_id>>
        /\ echo_skb' = [echo_skb EXCEPT ![TailBuf] = NoSkb]
    BY <1>1, <1>4, RingTypes, Zenon DEF ReapTail, Pending
  <2>2. Diff' = Diff - 1 /\ TailBuf' = IF TailBuf = N - 1 THEN 0 ELSE TailBuf + 1
    BY <1>1, <2>1, TailStep, Zenon
  <2>3. Diff - 1 \in Nat /\ \A k \in 1..(Diff - 1) : k \in 1..N /\ k + 1 \in 1..Diff /\ k + 1 \in 1..N
    BY <1>1, <2>1, Consts
  <2>4. ASSUME NEW k \in 1..(Diff - 1)
        PROVE  Slot(k)' = Slot(k + 1) /\ Slot(k + 1) \in Bufs /\ Slot(k + 1) # TailBuf
    <3>1. Slot(k)' = (TailBuf' + k - 1) % N
      BY Zenon DEF Slot
    <3>2. Slot(k + 1) \in Bufs /\ Dist(Slot(k + 1)) = k
      BY <1>1, <2>3, SlotFacts
    <3>3. Slot(k + 1) # TailBuf
      BY <1>1, <3>2, DistFacts
    <3>4. Slot(k + 1) = IF TailBuf + k < N THEN TailBuf + k ELSE TailBuf + k - N
      BY <1>1, <2>3, SlotFacts
    <3>5. TailBuf' + k - 1 \in Int /\ TailBuf \in 0..(N - 1) /\ N \in Nat \ {0} /\ k \in 1..N
      BY <2>1, <2>2, <2>3, Consts DEF Bufs
    <3>6. CASE TailBuf = N - 1
      <4>1. TailBuf' + k - 1 = k - 1 /\ k - 1 \in 0..(N - 1) /\ Slot(k + 1) = k - 1
        BY <2>2, <3>4, <3>5, <3>6
      <4> QED
        BY <3>1, <3>2, <3>3, <3>5, <4>1, ModRange, Zenon
    <3>7. CASE TailBuf # N - 1
      <4>1. TailBuf' + k - 1 = TailBuf + k
        BY <2>2, <3>5, <3>7
      <4>2. CASE TailBuf + k < N
        BY <3>1, <3>2, <3>3, <3>4, <3>5, <4>1, <4>2, ModRange
      <4>3. CASE ~(TailBuf + k < N)
        <5>1. TailBuf + k \in N..(2 * N - 1)
          BY <3>5, <4>3
        <5> QED
          BY <3>1, <3>2, <3>3, <3>4, <3>5, <4>1, <4>3, <5>1, ModRange
      <4> QED
        BY <4>2, <4>3, Zenon
    <3> QED
      BY <3>6, <3>7, Zenon
  <2>5. ASSUME NEW k \in 1..(Diff - 1)
        PROVE  FifoView'[k] = FifoView[k + 1]
    <3>1. FifoView'[k] = FifoEntry(Slot(k))' /\ FifoView[k + 1] = FifoEntry(Slot(k + 1))
      BY <2>2, <2>3, Zenon DEF FifoView
    <3>2. echo_skb'[Slot(k + 1)] = echo_skb[Slot(k + 1)]
      BY <1>1, <2>1, <2>4, Zenon DEF TypeOK
    <3> QED
      BY <2>1, <2>4, <3>1, <3>2, Zenon DEF FifoEntry
  <2>6. FifoView \in [1..(Diff - 1 + 1) -> Entries] /\ FifoView' \in [1..(Diff - 1) -> Entries]
    <3>1. FifoView \in [1..Diff -> Entries] /\ Diff - 1 + 1 = Diff
      BY <1>1, ViewType
    <3>2. FifoView' = [k \in 1..(Diff - 1) |-> FifoView'[k]]
      BY <2>2, Zenon DEF FifoView
    <3>3. \A k \in 1..(Diff - 1) : FifoView'[k] \in Entries
      BY <2>3, <2>5, <3>1, Zenon
    <3> QED
      BY <3>1, <3>2, <3>3, Zenon
  <2>7. FifoView' = Tail(FifoView) /\ Head(FifoView) = FifoView[1] /\ FifoView # <<>>
    BY <2>3, <2>5, <2>6, TailValue, Zenon
  <2>8. FifoView[1].st # "wait"
    <3>1. 1 \in 1..Diff /\ 1 \in 1..N
      BY <1>1, <2>1, Consts
    <3>2. Slot(1) \in Bufs /\ Dist(Slot(1)) = 0
      BY <1>1, <3>1, SlotFacts
    <3>3. Slot(1) = TailBuf
      BY <1>1, <2>1, <3>2, DistFacts, Zenon
    <3>4. FifoView[1] = FifoEntry(Slot(1))
      BY <3>1, Zenon DEF FifoView
    <3> QED
      BY <2>1, <3>3, <3>4 DEF FifoEntry, Status, Finished
  <2> QED
    BY <2>1, <2>7, <2>8, Zenon DEF Fifo!Report
<1> QED
  BY <1>2, <1>3, <1>4, Zenon DEF Isr

\* A step that may change only the states of TXT buffers.
LEMMA StatesOnly ==
  ASSUME CoreInv, UNCHANGED <<txb_head, txb_tail, echo_skb, next_id>>
  PROVE  /\ DOMAIN FifoView' = DOMAIN FifoView /\ DOMAIN FifoView = 1..Diff
         /\ FifoView' = [k \in 1..Diff |-> FifoView'[k]]
         /\ FifoView = [k \in 1..Diff |-> FifoView[k]]
         /\ Len(FifoView) = Diff
         /\ \A k \in 1..Diff :
              /\ Slot(k) \in Bufs /\ InFlight(Slot(k)) /\ Dist(Slot(k)) = k - 1
              /\ FifoView[k] = [id |-> echo_skb[Slot(k)], st |-> Status(txb_state[Slot(k)])]
              /\ FifoView'[k] = [id |-> echo_skb[Slot(k)], st |-> Status(txb_state'[Slot(k)])]
<1>1. TypeOK /\ Diff <= N /\ Diff \in Nat
  BY SlotFacts, Zenon DEF CoreInv, RingInv
<1>2. Diff' = Diff /\ \A k \in 1..Diff : Slot(k)' = Slot(k)
  BY RingStutter, Zenon DEF Slot
<1>3. Len(FifoView) = Diff
  BY <1>1 DEF FifoView
<1>4. \A k \in 1..Diff : Slot(k) \in Bufs /\ InFlight(Slot(k)) /\ Dist(Slot(k)) = k - 1
  BY <1>1, SlotFacts, Zenon
<1>5. /\ FifoView' = [k \in 1..Diff |-> FifoView'[k]]
      /\ FifoView = [k \in 1..Diff |-> FifoView[k]]
  BY <1>2, Zenon DEF FifoView
<1>6. ASSUME NEW k \in 1..Diff
      PROVE  /\ FifoView[k] = [id |-> echo_skb[Slot(k)], st |-> Status(txb_state[Slot(k)])]
             /\ FifoView'[k] = [id |-> echo_skb[Slot(k)], st |-> Status(txb_state'[Slot(k)])]
  BY <1>2, Zenon DEF FifoView, FifoEntry
<1> QED
  BY <1>3, <1>4, <1>5, <1>6, Zenon

\* The steps of the controller: finishing a transmission, or failing all that wait, is
\* what TxFifo allows; locking, retrying and the state of the bus do not show.
LEMMA HwRefines ==
  ASSUME CoreInv, Hw
  PROVE  Fifo!Finish \/ Fifo!FailAll \/ UNCHANGED Fifo!vars
<1> USE DEF hwvars, drvvars, xvars, ivars
<1>1. TypeOK /\ Diff <= N /\ Diff \in Nat
  BY SlotFacts, Zenon DEF CoreInv, RingInv
<1>2. CASE HwBusOff \/ HwIntegrated
  <2>1. UNCHANGED <<txb_head, txb_tail, txb_state, echo_skb, next_id>>
    BY <1>2, Zenon DEF HwBusOff, HwIntegrated
  <2>2. \A b \in Bufs : FifoEntry(b)' = FifoEntry(b)
    BY <2>1 DEF FifoEntry
  <2> QED
    BY <1>1, <2>1, <2>2, SameView, Zenon DEF Fifo!vars
<1>3. ASSUME NEW b \in Bufs, HwLock(b) \/ HwRetry(b)
      PROVE  UNCHANGED Fifo!vars
  <2>1. /\ UNCHANGED <<txb_head, txb_tail, echo_skb, next_id>>
        /\ \A c \in Bufs : Status(txb_state'[c]) = Status(txb_state[c])
    BY <1>1, <1>3, Zenon DEF HwLock, HwRetry, Selected, Status, TypeOK
  <2>2. \A c \in Bufs : FifoEntry(c)' = FifoEntry(c)
    BY <2>1, Zenon DEF FifoEntry, Status
  <2> QED
    BY <1>1, <2>1, <2>2, SameView, Zenon DEF Fifo!vars
<1>4. ASSUME NEW b \in Bufs, NEW st \in Finished, HwFinish(b, st)
      PROVE  Fifo!Finish
  <2>1. /\ UNCHANGED <<txb_head, txb_tail, echo_skb, next_id>>
        /\ txb_state[b] = "TRAN" /\ txb_state' = [txb_state EXCEPT ![b] = st]
    BY <1>4, Zenon DEF HwFinish
  <2>2. InFlight(b)
    BY <2>1, Zenon DEF CoreInv, RingInv, Finished
  <2> DEFINE k == Dist(b) + 1
  <2>3. k \in 1..Diff /\ Slot(k) = b
    <3>1. Dist(b) \in 0..(N - 1) /\ Slot(k) = b
      BY <1>1, SlotFacts, DistFacts, Zenon
    <3> QED
      BY <1>1, <2>2, <3>1, Consts DEF InFlight
  <2> HIDE DEF k
  <2>4. FifoView[k].st = "wait"
    BY <2>1, <2>3, StatesOnly DEF Status
  <2>5. ASSUME NEW j \in 1..(k - 1)
        PROVE  FifoView[j].st # "wait"
    <3>1. j \in 1..Diff /\ j < k
      BY <1>1, <2>3
    <3>2. Slot(j) \in Bufs /\ InFlight(Slot(j)) /\ Dist(Slot(j)) < Dist(b)
      BY <2>1, <2>3, <3>1, StatesOnly
    <3>3. txb_state[Slot(j)] \in Finished
      BY <2>1, <2>2, <3>2, Zenon DEF CoreInv, FifoOrder
    <3> QED
      BY <2>1, <3>1, <3>3, StatesOnly DEF Status, Finished
  <2>6. FifoView' = [FifoView EXCEPT ![k].st = Status(st)] /\ Status(st) \in {"ok", "failed"}
    <3>1. \A j \in 1..Diff : j # k => Slot(j) # b
      BY <2>1, <2>3, StatesOnly
    <3>2. \A j \in 1..Diff : txb_state'[Slot(j)] = IF j = k THEN st ELSE txb_state[Slot(j)]
      BY <1>1, <2>1, <2>3, <3>1, StatesOnly, Zenon DEF TypeOK
    <3>3. ASSUME NEW j \in 1..Diff
          PROVE  FifoView'[j] = IF j = k THEN [FifoView[k] EXCEPT !.st = Status(st)] ELSE FifoView[j]
      <4>1. /\ FifoView[j] = [id |-> echo_skb[Slot(j)], st |-> Status(txb_state[Slot(j)])]
            /\ FifoView'[j] = [id |-> echo_skb[Slot(j)], st |-> Status(txb_state'[Slot(j)])]
        BY <2>1, StatesOnly, Zenon
      <4>2. CASE j = k
        BY <3>2, <4>1, <4>2
      <4>3. CASE j # k
        BY <3>2, <4>1, <4>3, Zenon
      <4> QED
        BY <4>2, <4>3, Zenon
    <3> QED
      BY <2>1, <2>3, <3>3, StatesOnly, Zenon DEF Status, Finished
  <2> QED
    BY <2>1, <2>3, <2>4, <2>5, <2>6, StatesOnly, Zenon DEF Fifo!Finish
<1>5. CASE HwFail
  <2>1. /\ UNCHANGED <<txb_head, txb_tail, echo_skb, next_id>>
        /\ \A c \in Bufs : txb_state'[c] = IF txb_state[c] \in {"RDY", "TRAN"} THEN "ERR" ELSE txb_state[c]
    BY <1>5, Zenon DEF HwFail
  <2>2. \A c \in Bufs : InFlight(c) => txb_state[c] \in {"RDY", "TRAN", "TOK", "ERR"}
    BY <1>1, Zenon DEF CoreInv, RingInv, TypeOK, TxtStates
  <2>3. ASSUME NEW k \in 1..Diff
        PROVE  FifoView'[k] = IF FifoView[k].st = "wait" THEN [FifoView[k] EXCEPT !.st = "failed"]
                              ELSE FifoView[k]
    <3>1. Slot(k) \in Bufs /\ InFlight(Slot(k))
      BY <2>1, StatesOnly, Zenon
    <3> QED
      BY <2>1, <2>2, <3>1, StatesOnly DEF Status
  <2> QED
    BY <2>1, <2>3, StatesOnly, Zenon DEF Fifo!FailAll
<1> QED
  BY <1>2, <1>3, <1>4, <1>5, Zenon DEF Hw

\* The TXT buffers, the two wrapping counters, the rotated priorities and the echo skbs
\* implement the bounded FIFO of TxFifo: frames are accepted, finished and reported in
\* one order, and the echo that is reported belongs to the frame that finished
\* (ctucan_start_xmit, ctucan_tx_interrupt, ctucan_rotate_txb_prio).
THEOREM TxImplementsFifo == Spec => ImplementsFifo
<1>1. Init => Fifo!Init
  <2> SUFFICES ASSUME Init PROVE Fifo!Init
    OBVIOUS
  <2>1. 0 % M = 0
    BY Consts, ModRange
  <2>2. Diff = 0
    BY <2>1 DEF Init, Diff
  <2> QED
    BY <2>2 DEF Init, Fifo!Init, FifoView
<1>2. CoreInv /\ [Next]_vars => [Fifo!Next]_(Fifo!vars)
  <2> SUFFICES ASSUME CoreInv, [Next]_vars PROVE [Fifo!Next]_(Fifo!vars)
    BY Zenon
  <2>1. CASE UNCHANGED vars
    <3>1. TypeOK /\ Diff <= N
      BY Zenon DEF CoreInv, RingInv
    <3>2. UNCHANGED <<txb_head, txb_tail, txb_state, echo_skb, next_id>>
      BY <2>1, Zenon DEF vars, hwvars, drvvars, xvars
    <3>3. \A b \in Bufs : FifoEntry(b)' = FifoEntry(b)
      BY <3>2, Zenon DEF FifoEntry
    <3> QED
      BY <3>1, <3>2, <3>3, SameView, Zenon DEF Fifo!vars
  <2> QED
    BY <2>1, XmitRefines, IsrRefines, HwRefines, Zenon DEF Next, Fifo!Next
<1>3. IInv => CoreInv
  BY DEF IInv
<1> QED
  BY <1>1, <1>2, <1>3, TxInvariant, PTL DEF Spec, ImplementsFifo, Fifo!Spec


-----------------------------------------------------------------------------
(* Open, close, suspend, resume and restart: the inductive invariant        *)

\* The TXT buffers as MODE.RST leaves them
Blank ==
  /\ \A b \in Bufs : txb_state[b] = "ETY"
  /\ ~txbhci

EchoFlushed == \A b \in Bufs : echo_skb[b] = NoSkb

\* Which paths may run in which state of the device and of the restart
PathInv ==
  /\ xmit_pc # "idle" => netdev = "up" /\ restart_pc = "idle"
  /\ isr_pc # "idle" => netdev # "down" /\ restart_pc = "idle"
  /\ restart_pc \notin {"idle", "failed"} => netdev = "up"
  /\ netdev = "down" => restart_pc = "idle"
  /\ netdev \in {"stopped", "down"} => ~int_ena /\ ~mode_ena

\* What the steps of the restart have done so far
RestartInv ==
  /\ netdev = "down" \/ restart_pc # "idle" => EchoFlushed
  /\ restart_pc \notin {"idle", "reset"} => Blank
  /\ restart_pc = "tail" => txb_head = 0
  /\ restart_pc # "tail" => Diff <= N

\* Where the ring is consistent
CoreSometimes ==
  restart_pc \in {"head", "tail", "failed"} \/ (netdev = "down" /\ Blank) \/ CoreInv

\* The invariant while no restart has overlapped another path
LifeInv == LTypeOK /\ LockInv /\ PathInv /\ RestartInv /\ CoreSometimes

\* What the device keeps whatever overlaps: an open finds nothing running and nothing
\* left in the echo slots, and only a restart during ctucan_close leaves it enabled.
EndsInv ==
  /\ xmit_pc # "idle" => netdev = "up"
  /\ netdev = "down" => isr_pc = "idle" /\ restart_pc = "idle" /\ ~restart_due /\ EchoFlushed
  /\ LateRestart => late
  /\ netdev \in {"stopped", "down"} => late \/ (~int_ena /\ ~mode_ena)

BaseInv == LTypeOK /\ LockInv /\ EndsInv

\* The inductive invariant
WholeInv == BaseInv /\ (~disturbed => LifeInv)

corevars == <<txb_state, txb_prio, txbhci, txb_head, txb_tail, tx_lock, xvars, ivars>>

-----------------------------------------------------------------------------
(* Steps that leave the ring alone, and steps that make it anew             *)

\* A step that leaves the ring alone, but may stop or wake the queue, keeps the types.
LEMMA TypeFrame ==
  ASSUME TypeOK, UNCHANGED <<corevars, echo_skb, txb_frame, bus>>, queue_stopped' \in BOOLEAN
  PROVE  TypeOK'
  BY DEF TypeOK, corevars, xvars, ivars

\* Management may start and stop the queue and drop echo skbs that no call of
\* ctucan_start_xmit is about to use.
LEMMA CoreFrame ==
  ASSUME CoreInv, TypeOK', UNCHANGED corevars,
         echo_skb' = echo_skb \/ (xmit_pc = "idle" /\ EchoFlushed')
  PROVE  CoreInv'
<1> USE DEF CoreInv, corevars, xvars, ivars
<1>1. RingInv' /\ PrioInv' /\ FifoOrder' /\ IntInv'
  BY RingStutter, Zenon DEF RingInv, PrioInv, FifoOrder, IntInv, Reaping
<1>2. LockInv'
  BY Zenon DEF LockInv
<1>3. SlotInv'
  BY RingStutter, Zenon DEF SlotInv, EchoFlushed
<1> QED
  BY <1>1, <1>2, <1>3, Zenon

\* Empty buffers, counters at zero and the initial priorities are a consistent ring.
LEMMA CoreFresh ==
  ASSUME TypeOK', LockInv', Blank', EchoFlushed', txb_head' = 0, txb_tail' = 0,
         txb_prio' = [i \in 0..7 |-> 7 - i], xmit_pc' = "idle", isr_pc' = "idle"
  PROVE  CoreInv' /\ Diff' = 0
<1>1. Diff' = 0 /\ TailBuf' = 0 /\ HeadBuf' = 0
  <2>1. 0 % N = 0 /\ 0 % M = 0
    BY Consts, ModRange
  <2> QED
    BY <2>1 DEF Diff, TailBuf, HeadBuf
<1>2. \A b \in Bufs : Dist(b)' = b /\ ~InFlight(b)'
  BY <1>1 DEF Dist, InFlight, Bufs
<1>3. RingInv'
  BY <1>1, <1>2, Consts DEF RingInv, Reaping, Blank
<1>4. PrioInv'
  BY <1>2, Consts DEF PrioInv, Bufs
<1>5. IntInv' /\ SlotInv' /\ FifoOrder'
  BY <1>2, Zenon DEF IntInv, Reaping, Blank, SlotInv, EchoFlushed, FifoOrder
<1> QED
  BY <1>1, <1>3, <1>4, <1>5, Zenon DEF CoreInv

\* Empty buffers are in order whatever the counters say.
LEMMA BlankOrder ==
  ASSUME Blank
  PROVE  FifoOrder
  BY Zenon DEF Blank, FifoOrder, Finished

\* A device that is closed and idle satisfies the invariant.
LEMMA LifeInit == LInit => WholeInv
<1> SUFFICES ASSUME LInit PROVE WholeInv
  OBVIOUS
<1>1. IInv
  BY InitStep, Zenon DEF LInit
<1>2. LTypeOK
  BY <1>1, Zenon DEF LInit, LTypeOK, IInv, CoreInv
<1>3. PathInv
  BY Zenon DEF LInit, Init, PathInv
<1>4. RestartInv
  BY <1>1, Zenon DEF LInit, RestartInv, IInv, CoreInv, RingInv
<1>5. EndsInv
  BY Zenon DEF LInit, Init, EndsInv, LateRestart
<1> QED
  BY <1>1, <1>2, <1>3, <1>4, <1>5, Zenon
    DEF WholeInv, BaseInv, LifeInv, CoreSometimes, IInv, CoreInv

-----------------------------------------------------------------------------
(* One lemma per group of actions                                           *)

\* Where a transmit path runs, the ring is consistent.
LEMMA PathsMeanCore ==
  ASSUME LifeInv, xmit_pc # "idle" \/ isr_pc # "idle" \/ (netdev # "down" /\ restart_pc = "idle")
  PROVE  CoreInv /\ restart_pc = "idle" /\ netdev # "down"
  BY Zenon DEF LifeInv, PathInv, CoreSometimes

\* ctucan_start_xmit
LEMMA TxPathStep ==
  ASSUME LifeInv, LTypeOK', TxPath, ~Overlap'
  PROVE  LifeInv'
<1> USE DEF TxPath, lvars, mvars, cvars, rvars
<1>1. Xmit
  BY Zenon DEF Xmit
<1>2. xmit_pc # "idle" \/ (netdev = "up" /\ restart_pc = "idle")
  <2>1. CASE StartXmit
    <3>1. xmit_pc' # "idle"
      BY <2>1, Zenon DEF StartXmit
    <3> QED
      BY <2>1, <3>1, Zenon DEF Overlap, InsertFrame, PutEchoSkb, SetReady, CheckFull
  <2> QED
    BY <2>1, Zenon DEF InsertFrame, PutEchoSkb, SetReady, CheckFull
<1>3. CoreInv /\ restart_pc = "idle" /\ netdev = "up"
  BY <1>2, PathsMeanCore, Zenon DEF LifeInv, PathInv
<1>4. CoreInv'
  BY <1>1, <1>3, XmitStep, ZenonT(40)
<1>5. isr_pc' = isr_pc
  BY <1>1, Zenon DEF Xmit, StartXmit, InsertFrame, PutEchoSkb, SetReady, CheckFull, ivars
<1>7. PathInv'
  BY <1>3, <1>5, Zenon DEF LifeInv, PathInv
<1>8. RestartInv'
  BY <1>3, <1>4, Zenon DEF RestartInv, CoreInv, RingInv
<1> QED
  BY <1>4, <1>7, <1>8, Zenon DEF LifeInv, CoreSometimes, CoreInv

\* The transmit part of the interrupt handler
LEMMA IsrPathStep ==
  ASSUME LifeInv, LTypeOK', IsrPath, ~Overlap'
  PROVE  LifeInv'
<1> USE DEF IsrPath, lvars, mvars, cvars, rvars
<1>1. Isr
  BY Zenon DEF Isr
<1>2. isr_pc # "idle" \/ (netdev # "down" /\ restart_pc = "idle")
  BY Zenon DEF Overlap, Interrupt, IsrLock, ReapTail, RotatePrio, SetEmpty, LoopEnd, ClearTxbhci, WakeQueue
<1>3. CoreInv /\ restart_pc = "idle" /\ netdev # "down"
  BY <1>2, PathsMeanCore, Zenon
<1>4. CoreInv'
  BY <1>1, <1>3, IsrStep, Zenon
<1>5. xmit_pc' = xmit_pc
  BY <1>1, Zenon DEF Isr, Interrupt, IsrLock, ReapTail, RotatePrio, SetEmpty, LoopEnd, ClearTxbhci,
              WakeQueue, xvars
<1>7. PathInv'
  BY <1>3, <1>5, Zenon DEF LifeInv, PathInv
<1>8. RestartInv'
  BY <1>3, <1>4, Zenon DEF RestartInv, CoreInv, RingInv
<1> QED
  BY <1>4, <1>7, <1>8, Zenon DEF LifeInv, CoreSometimes, CoreInv

\* The controller: with all buffers empty it has nothing to do to them.
LEMMA ControllerStep ==
  ASSUME LifeInv, LTypeOK', Controller
  PROVE  LifeInv'
<1> USE DEF Controller, lvars, mvars, cvars, rvars
<1>1. Hw
  BY Zenon DEF Hw
<1>2. UNCHANGED <<netdev, suspended, can_state, int_ena, mode_ena, restart_due, restart_pc,
                  drvvars, xvars, ivars, txb_prio>>
  BY Zenon DEF HwLock, HwRetry, HwFinish, HwBusOff, HwIntegrated, HwFail
<1>5. LockInv' /\ PathInv' /\ Diff' = Diff
  BY <1>2, RingStutter, Zenon DEF LifeInv, LockInv, PathInv, drvvars, xvars, ivars
<1>6. ASSUME Blank
      PROVE  txb_state' = txb_state /\ txbhci' = txbhci
  BY <1>6, Zenon DEF Blank, HwLock, Selected, HwRetry, HwFinish, HwBusOff, HwIntegrated, HwFail
<1>7. Blank => Blank'
  BY <1>6, Zenon DEF Blank
<1>8. RestartInv'
  BY <1>2, <1>5, <1>7, Zenon DEF LifeInv, RestartInv, EchoFlushed, drvvars
<1>9. CoreSometimes'
  BY <1>1, <1>2, <1>7, HwStep, Zenon DEF LifeInv, CoreSometimes
<1> QED
  BY <1>5, <1>8, <1>9, Zenon DEF LifeInv

\* The error interrupt
LEMMA ErrInterruptStep ==
  ASSUME LifeInv, LTypeOK', ErrInterrupt
  PROVE  LifeInv'
<1>1. UNCHANGED <<vars, netdev, int_ena, mode_ena, restart_pc, suspended>>
  BY Zenon DEF ErrInterrupt
<1>2. TypeOK'
  BY Zenon DEF LTypeOK
<1> USE DEF vars, hwvars, drvvars, xvars, ivars
<1>5. LockInv' /\ PathInv' /\ Diff' = Diff
  BY <1>1, RingStutter, Zenon DEF LifeInv, LockInv, PathInv
<1>6. CoreInv => CoreInv'
  BY <1>1, <1>2, CoreFrame, Zenon DEF corevars
<1> QED
  BY <1>1, <1>5, <1>6, Zenon DEF LifeInv, RestartInv, EchoFlushed, Blank, CoreSometimes

\* The restart: flushing the echo skbs keeps the ring, the reset empties the buffers,
\* and the ring is consistent again once both counters are zero.
LEMMA RestartStep ==
  ASSUME LifeInv, LTypeOK', Restart, ~Overlap'
  PROVE  LifeInv'
<1> USE DEF LifeInv, hwvars, drvvars, xvars, ivars, mvars, cvars
<1>1. CASE RestartFlush
  <2>1. /\ xmit_pc = "idle" /\ isr_pc = "idle" /\ netdev = "up" /\ restart_pc = "idle"
        /\ restart_pc' = "reset"
        /\ UNCHANGED <<corevars, txb_frame, bus, queue_stopped, netdev, suspended, can_state,
                       int_ena, mode_ena, fcsi>>
        /\ EchoFlushed'
    BY <1>1, Zenon DEF RestartFlush, Overlap, LateRestart, corevars, EchoFlushed
  <2>2. CoreInv /\ TypeOK
    BY <2>1, PathsMeanCore, Zenon DEF CoreInv
  <2>3. TypeOK'
    BY Zenon DEF LTypeOK
  <2>4. CoreInv'
    BY <2>1, <2>2, <2>3, CoreFrame, Zenon
  <2>6. PathInv' /\ LockInv'
    BY <2>1, <2>4, Zenon DEF PathInv, corevars, CoreInv
  <2>7. RestartInv'
    BY <2>1, <2>4, Zenon DEF RestartInv, CoreInv, RingInv
  <2> QED
    BY <2>4, <2>6, <2>7, Zenon DEF CoreSometimes
<1>2. CASE RestartReset
  <2>1. /\ restart_pc = "reset" /\ restart_pc' \in {"head", "failed"} /\ Blank'
        /\ UNCHANGED <<txb_frame, txb_prio, drvvars, xvars, ivars, mvars, restart_due>>
    BY <1>2, Zenon DEF RestartReset, ResetHw, Blank
  <2>2. netdev = "up" /\ Diff <= N /\ EchoFlushed /\ xmit_pc = "idle" /\ isr_pc = "idle"
    BY <2>1, Zenon DEF PathInv, RestartInv
  <2>5. PathInv' /\ LockInv'
    BY <2>1, <2>2, Zenon DEF PathInv, LockInv
  <2>6. RestartInv'
    BY <2>1, <2>2, RingStutter, Zenon DEF RestartInv, EchoFlushed
  <2> QED
    BY <2>1, <2>5, <2>6, Zenon DEF CoreSometimes
<1>3. CASE RestartHead
  <2>1. /\ restart_pc = "head" /\ restart_pc' = "tail" /\ txb_head' = 0
        /\ UNCHANGED <<hwvars, txb_tail, echo_skb, queue_stopped, tx_lock, xvars, ivars, mvars,
                       cvars, restart_due>>
    BY <1>3, Zenon DEF RestartHead
  <2>2. netdev = "up" /\ EchoFlushed /\ Blank /\ xmit_pc = "idle" /\ isr_pc = "idle"
    BY <2>1, Zenon DEF PathInv, RestartInv
  <2>5. PathInv' /\ LockInv'
    BY <2>1, <2>2, Zenon DEF PathInv, LockInv
  <2>6. RestartInv'
    BY <2>1, <2>2, Zenon DEF RestartInv, EchoFlushed, Blank
  <2> QED
    BY <2>1, <2>5, <2>6, Zenon DEF CoreSometimes
<1>4. CASE RestartTail
  <2>1. /\ restart_pc = "tail" /\ restart_pc' = "enable" /\ txb_tail' = 0
        /\ txb_prio' = [i \in 0..7 |-> 7 - i]
        /\ UNCHANGED <<txb_state, txb_frame, txbhci, bus, txb_head, echo_skb, queue_stopped,
                       tx_lock, xvars, ivars, mvars, cvars, restart_due>>
    BY <1>4, Zenon DEF RestartTail
  <2>2. /\ netdev = "up" /\ EchoFlushed /\ Blank /\ xmit_pc = "idle" /\ isr_pc = "idle"
        /\ txb_head = 0
    BY <2>1, Zenon DEF PathInv, RestartInv
  <2>5. PathInv' /\ LockInv'
    BY <2>1, <2>2, Zenon DEF PathInv, LockInv
  <2>6. Blank' /\ EchoFlushed'
    BY <2>1, <2>2, Zenon DEF Blank, EchoFlushed
  <2>7. CoreInv' /\ Diff' = 0
    BY <2>1, <2>2, <2>5, <2>6, CoreFresh, Zenon DEF LTypeOK
  <2>8. RestartInv'
    BY <2>1, <2>6, <2>7, Consts DEF RestartInv
  <2> QED
    BY <2>5, <2>7, <2>8, Zenon DEF CoreSometimes
<1>5. CASE RestartEnable \/ RestartWake
  <2>1. /\ restart_pc \in {"enable", "wake"} /\ restart_pc' \in {"wake", "idle"}
        /\ UNCHANGED <<corevars, echo_skb, txb_frame, bus, netdev, suspended, fcsi, restart_due>>
    BY <1>5, Zenon DEF RestartEnable, RestartWake, corevars, vars
  <2>2. netdev = "up" /\ CoreInv /\ xmit_pc = "idle" /\ isr_pc = "idle" /\ Blank /\ EchoFlushed
    BY <2>1, Zenon DEF PathInv, RestartInv, CoreSometimes
  <2>4. CoreInv'
    BY <2>1, <2>2, CoreFrame, Zenon DEF LTypeOK
  <2>5. PathInv'
    BY <2>1, <2>2, Zenon DEF PathInv, corevars
  <2>6. RestartInv'
    BY <2>1, <2>2, <2>4, Zenon DEF RestartInv, CoreInv, RingInv, Blank, EchoFlushed, corevars
  <2> QED
    BY <2>4, <2>5, <2>6, Zenon DEF CoreSometimes, CoreInv
<1> QED
  BY <1>1, <1>2, <1>3, <1>4, <1>5, Zenon DEF Restart

\* ctucan_close, ctucan_suspend and ctucan_resume
LEMMA ManageStep ==
  ASSUME LifeInv, LTypeOK', Manage, ~Open, ~Overlap'
  PROVE  LifeInv'
<1> USE DEF LifeInv, hwvars, drvvars, xvars, ivars, mvars, cvars, rvars
<1>1. CASE Close \/ ChipStop \/ Suspend \/ Resume
  <2>1. /\ UNCHANGED <<corevars, echo_skb, txb_frame, bus, fcsi, restart_due, restart_pc>>
        /\ netdev = "down" <=> netdev' = "down"
    BY <1>1, Zenon DEF Close, ChipStop, Suspend, Resume, vars, corevars
  <2>2. TypeOK'
    BY Zenon DEF LTypeOK
  <2>4. CoreInv => CoreInv'
    BY <2>1, <2>2, CoreFrame, Zenon
  <2>5. PathInv'
    <3>1. CASE Close
      BY <3>1, Zenon DEF Close, PathInv, Overlap, LateRestart
    <3>2. CASE ChipStop
      BY <3>2, Zenon DEF ChipStop, PathInv, vars
    <3>3. CASE Suspend
      BY <3>3, SMTT(30) DEF Suspend, PathInv
    <3>4. CASE Resume
      BY <3>4, SMTT(30) DEF Resume, PathInv
    <3> QED
      BY <1>1, <3>1, <3>2, <3>3, <3>4, Zenon
  <2>6. LockInv'
    BY <2>1, ZenonT(40) DEF LockInv, corevars
  <2>7. RestartInv'
    BY <2>1, RingStutter, Zenon DEF RestartInv, corevars, Blank, EchoFlushed
  <2> QED
    BY <2>1, <2>4, <2>5, <2>6, <2>7, ZenonT(40) DEF CoreSometimes, Blank, corevars
<1>2. CASE FreeIrq
  <2>1. /\ UNCHANGED <<corevars, txb_frame, bus, queue_stopped, suspended, can_state, cvars>>
        /\ netdev = "stopped" /\ netdev' = "down" /\ isr_pc = "idle" /\ restart_pc' = "idle"
        /\ restart_pc \in {"idle", "failed"} /\ EchoFlushed'
    BY <1>2, Zenon DEF FreeIrq, corevars, EchoFlushed
  <2>2. xmit_pc = "idle" /\ ~int_ena /\ ~mode_ena /\ Diff <= N
    BY <2>1, Zenon DEF PathInv, RestartInv
  <2>3. TypeOK'
    BY Zenon DEF LTypeOK
  <2>5. PathInv' /\ LockInv'
    BY <2>1, <2>2, Zenon DEF PathInv, LockInv, corevars
  <2>6. RestartInv'
    BY <2>1, <2>2, RingStutter, Zenon DEF RestartInv, corevars
  <2>7. CoreInv => CoreInv'
    BY <2>1, <2>2, <2>3, CoreFrame, Zenon
  <2>8. restart_pc = "failed" => Blank'
    BY <2>1, Zenon DEF RestartInv, Blank, corevars
  <2> QED
    BY <2>1, <2>5, <2>6, <2>7, <2>8, Zenon DEF CoreSometimes
<1> QED
  BY <1>1, <1>2, Zenon DEF Manage

\* ctucan_open makes the ring anew, whatever happened before.
LEMMA OpenStep ==
  ASSUME BaseInv, LTypeOK', Open
  PROVE  LifeInv'
<1> USE DEF BaseInv, hwvars, drvvars, xvars, ivars, mvars, cvars, rvars
<1>1. /\ netdev = "down" /\ netdev' = "up" /\ Blank' /\ txb_head' = 0 /\ txb_tail' = 0
      /\ txb_prio' = [i \in 0..7 |-> 7 - i]
      /\ UNCHANGED <<txb_frame, echo_skb, tx_lock, xvars, ivars, suspended, rvars>>
  BY Zenon DEF Open, Blank
<1>2. xmit_pc = "idle" /\ isr_pc = "idle" /\ restart_pc = "idle" /\ EchoFlushed
  BY <1>1, Zenon DEF EndsInv
<1>3. PathInv' /\ LockInv' /\ EchoFlushed'
  BY <1>1, <1>2, Zenon DEF PathInv, LockInv, EchoFlushed
<1>4. CoreInv' /\ Diff' = 0
  BY <1>1, <1>2, <1>3, CoreFresh, Zenon DEF LTypeOK
<1>5. RestartInv'
  BY <1>1, <1>2, <1>4, Consts DEF RestartInv
<1> QED
  BY <1>3, <1>4, <1>5, Zenon DEF LifeInv, CoreSometimes

-----------------------------------------------------------------------------
(* What every step keeps, overlapping or not                                *)

\* The restart and the management of the device keep the types of the transmit path.
LEMMA ManageTypes ==
  ASSUME TypeOK, ErrInterrupt \/ Restart \/ Manage
  PROVE  TypeOK'
<1> USE DEF hwvars, drvvars, xvars, ivars, mvars, cvars, rvars
<1>1. CASE RestartFlush \/ FreeIrq
  BY <1>1 DEF RestartFlush, FreeIrq, TypeOK
<1>2. CASE RestartReset
  <2>1. txb_state' \in [Bufs -> TxtStates]
    BY <1>2, Zenon DEF RestartReset, ResetHw, TxtStates
  <2> QED
    BY <1>2, <2>1, ZenonT(60) DEF RestartReset, ResetHw, TypeOK
<1>3. CASE RestartHead
  <2>1. 0 \in Ids
    BY Consts DEF Ids
  <2> QED
    BY <1>3, <2>1 DEF RestartHead, TypeOK
<1>4. CASE RestartTail
  <2>1. 0 \in Ids /\ txb_prio' \in [0..7 -> 0..7]
    BY <1>4, Consts DEF RestartTail, Ids
  <2> QED
    BY <1>4, <2>1 DEF RestartTail, TypeOK
<1>5. CASE ErrInterrupt \/ RestartEnable \/ RestartWake \/ Close \/ ChipStop \/ Suspend \/ Resume
  <2>1. UNCHANGED <<corevars, echo_skb, txb_frame, bus>>
    BY <1>5, ZenonT(40) DEF ErrInterrupt, RestartEnable, RestartWake, Close, ChipStop, Suspend, Resume,
                       corevars, vars
  <2>2. queue_stopped' \in BOOLEAN
    BY <1>5, ZenonT(40) DEF ErrInterrupt, RestartEnable, RestartWake, Close, ChipStop, Suspend, Resume,
                       vars, TypeOK
  <2> QED
    BY <2>1, <2>2, TypeFrame, Zenon
<1>6. CASE Open
  <2>1. 0 \in Ids /\ txb_prio' \in [0..7 -> 0..7]
    BY <1>6, Consts DEF Open, Ids
  <2>2. txb_state' \in [Bufs -> TxtStates]
    BY <1>6, Zenon DEF Open, TxtStates
  <2> QED
    BY <1>6, <2>1, <2>2, Zenon DEF Open, TypeOK
<1> QED
  BY <1>1, <1>2, <1>3, <1>4, <1>5, <1>6, Zenon DEF Restart, Manage

\* Every step keeps the types.
LEMMA LifeTypes ==
  ASSUME LTypeOK, LNext
  PROVE  LTypeOK'
<1> USE DEF lvars, mvars, cvars, rvars
<1>1. TypeOK'
  <2>1. CASE TxPath
    BY <2>1, TypeStep, Zenon DEF TxPath, Next, Xmit, LTypeOK
  <2>2. CASE IsrPath
    BY <2>2, TypeStep, Zenon DEF IsrPath, Next, Isr, LTypeOK
  <2>3. CASE Controller
    BY <2>3, TypeStep, Zenon DEF Controller, Next, Hw, LTypeOK
  <2> QED
    BY <2>1, <2>2, <2>3, ManageTypes, Zenon DEF LNext, LTypeOK
<1>2. disturbed' \in BOOLEAN /\ late' \in BOOLEAN
  <2>1. Remember
    BY Zenon DEF LNext
  <2> QED
    BY <2>1, Zenon DEF Remember
<1>3. ASSUME UNCHANGED <<netdev, suspended, can_state, int_ena, mode_ena, restart_due, restart_pc>>,
             fcsi' \in BOOLEAN
      PROVE  LTypeOK'
  BY <1>1, <1>2, <1>3, ZenonT(60) DEF LTypeOK
<1>4. CASE TxPath \/ IsrPath
  BY <1>3, <1>4, Zenon DEF TxPath, IsrPath, LTypeOK
<1>5. CASE Controller
  BY <1>3, <1>5, Zenon DEF Controller, LTypeOK
<1>6. CASE ErrInterrupt
  <2>1. restart_due' \in BOOLEAN
    BY <1>6, Zenon DEF ErrInterrupt, LTypeOK
  <2> QED
    BY <1>1, <1>2, <1>6, <2>1, Zenon DEF ErrInterrupt, LTypeOK
<1>7. CASE Restart
  <2>1. CASE RestartFlush \/ RestartHead \/ RestartTail \/ RestartWake
    BY <1>1, <1>2, <2>1, ZenonT(60) DEF RestartFlush, RestartHead, RestartTail, RestartWake, LTypeOK
  <2>2. CASE RestartReset
    BY <1>1, <1>2, <2>2, ZenonT(60) DEF RestartReset, ResetHw, LTypeOK
  <2>3. CASE RestartEnable
    BY <1>1, <1>2, <2>3, ZenonT(60) DEF RestartEnable, LTypeOK
  <2> QED
    BY <1>7, <2>1, <2>2, <2>3, Zenon DEF Restart
<1>8. CASE Manage
  <2>1. CASE Close \/ ChipStop \/ FreeIrq
    BY <1>1, <1>2, <2>1, ZenonT(60) DEF Close, ChipStop, FreeIrq, LTypeOK
  <2>2. CASE Open \/ Suspend \/ Resume
    BY <1>1, <1>2, <2>2, ZenonT(60) DEF Open, Suspend, Resume, LTypeOK
  <2> QED
    BY <1>8, <2>1, <2>2, Zenon DEF Manage
<1> QED
  BY <1>4, <1>5, <1>6, <1>7, <1>8, Zenon DEF LNext

\* The histories record the state a step leads to.
LEMMA Remembered ==
  ASSUME LNext
  PROVE  /\ ~disturbed' => Open \/ (~disturbed /\ ~Overlap')
         /\ ~late' => Open \/ (~late /\ ~LateRestart')
         /\ Open => ~disturbed' /\ ~late'
<1>1. Remember
  BY Zenon DEF LNext
<1>2. ASSUME ~Open
      PROVE  ~(netdev = "down" /\ netdev' = "up")
  <2> USE DEF lvars, mvars
  <2>1. CASE TxPath \/ IsrPath \/ Controller \/ ErrInterrupt
    BY <2>1, Zenon DEF TxPath, IsrPath, Controller, ErrInterrupt
  <2>2. CASE Restart
    BY <2>2, Zenon DEF Restart, RestartFlush, RestartReset, RestartHead, RestartTail, RestartEnable,
                  RestartWake
  <2>3. CASE Manage
    BY <1>2, <2>3, Zenon DEF Manage, Close, ChipStop, FreeIrq, Suspend, Resume
  <2> QED
    BY <2>1, <2>2, <2>3, Zenon DEF LNext
<1>3. Open => netdev = "down" /\ netdev' = "up"
  BY Zenon DEF Open
<1> QED
  BY <1>1, <1>2, <1>3, Zenon DEF Remember

\* Every step keeps the lock and the ends of the device's life.
LEMMA BaseStep ==
  ASSUME BaseInv, LNext
  PROVE  BaseInv'
<1> USE DEF BaseInv
<1>1. LTypeOK'
  BY LifeTypes, Zenon
<1>2. LockInv'
  <2> USE DEF xvars, ivars, drvvars
  <2>1. CASE TxPath
    BY <2>1, ZenonT(40) DEF TxPath, StartXmit, InsertFrame, PutEchoSkb, SetReady, CheckFull, LockInv
  <2>2. CASE IsrPath
    BY <2>2, ZenonT(40) DEF IsrPath, Interrupt, IsrLock, ReapTail, RotatePrio, SetEmpty, LoopEnd,
                       ClearTxbhci, WakeQueue, LockInv
  <2>3. CASE Controller \/ ErrInterrupt
    BY <2>3, ZenonT(40) DEF Controller, HwLock, HwRetry, HwFinish, HwBusOff, HwIntegrated, HwFail,
                       ErrInterrupt, vars, LockInv
  <2>4. CASE Restart
    BY <2>4, ZenonT(40) DEF Restart, RestartFlush, RestartReset, RestartHead, RestartTail,
                       RestartEnable, RestartWake, vars, LockInv
  <2>5. CASE Manage
    BY <2>5, ZenonT(40) DEF Manage, Close, ChipStop, FreeIrq, Open, Suspend, Resume, vars, LockInv
  <2> QED
    BY <2>1, <2>2, <2>3, <2>4, <2>5, Zenon DEF LNext
<1>3. EndsInv'
  <2> USE DEF lvars, mvars, cvars, rvars, hwvars, drvvars, xvars, ivars
  <2>1. LateRestart' => late'
    BY Remembered, Zenon DEF Open, EndsInv, LateRestart
  <2>2. CASE TxPath
    <3>1. /\ UNCHANGED <<netdev, int_ena, mode_ena, restart_due, restart_pc, isr_pc>>
          /\ netdev = "up"
      BY <2>2, ZenonT(40) DEF TxPath, StartXmit, InsertFrame, PutEchoSkb, SetReady, CheckFull, EndsInv
    <3> QED
      BY <2>1, <3>1, Zenon DEF EndsInv
  <2>3. CASE IsrPath
    <3>1. /\ UNCHANGED <<netdev, int_ena, mode_ena, restart_due, restart_pc, xmit_pc>>
          /\ netdev # "down"
      BY <2>3, ZenonT(40) DEF IsrPath, Interrupt, IsrLock, ReapTail, RotatePrio, SetEmpty, LoopEnd,
                         ClearTxbhci, WakeQueue, EndsInv
    <3>2. ~late' => ~late
      BY <2>3, <3>1, Remembered, Zenon DEF Open
    <3> QED
      BY <2>1, <3>1, <3>2, Zenon DEF EndsInv
  <2>4. CASE Controller \/ ErrInterrupt
    <3>0. UNCHANGED <<netdev, int_ena, mode_ena, restart_pc, xmit_pc, isr_pc, echo_skb>>
      BY <2>4, ZenonT(40) DEF Controller, HwLock, HwRetry, HwFinish, HwBusOff, HwIntegrated, HwFail,
                         ErrInterrupt, vars
    <3>1. /\ UNCHANGED <<netdev, int_ena, mode_ena, restart_pc, xmit_pc, isr_pc, echo_skb>>
          /\ netdev = "down" /\ ~restart_due => ~restart_due'
      <4>1. CASE Controller
        <5>1. restart_due' = restart_due
          BY <4>1, Zenon DEF Controller
        <5> QED
          BY <3>0, <5>1, Zenon
      <4>2. CASE ErrInterrupt
        BY <3>0, <4>2, Zenon DEF ErrInterrupt
      <4> QED
        BY <2>4, <4>1, <4>2, Zenon
    <3>2. ~late' => ~late
      BY <3>1, Remembered, Zenon DEF Open
    <3>3. EchoFlushed => EchoFlushed'
      BY <3>1, Zenon DEF EchoFlushed
    <3> QED
      BY <2>1, <3>1, <3>2, <3>3, Zenon DEF EndsInv
  <2>5. CASE Restart
    <3>1. /\ UNCHANGED <<netdev, xmit_pc, isr_pc>>
          /\ restart_pc # "idle" \/ restart_due
          /\ restart_pc \in {"reset", "head", "tail", "wake"} \/ RestartEnable \/ RestartFlush
      BY <2>5, ZenonT(40) DEF Restart, RestartFlush, RestartReset, RestartHead, RestartTail, RestartEnable,
                         RestartWake, vars
    <3>2. netdev # "down"
      BY <3>1, Zenon DEF EndsInv
    <3>3. ~late' => ~late /\ ~LateRestart'
      BY <3>1, Remembered, Zenon DEF Open
    <3>4. netdev = "stopped" /\ ~late' => ~int_ena' /\ ~mode_ena'
      <4>1. CASE RestartEnable
        BY <3>1, <3>3, <4>1, Zenon DEF RestartEnable, LateRestart
      <4>2. CASE RestartReset
        BY <4>2, Zenon DEF RestartReset, ResetHw
      <4>3. CASE RestartFlush \/ RestartHead \/ RestartTail \/ RestartWake
        BY <3>3, <4>3, Zenon DEF RestartFlush, RestartHead, RestartTail, RestartWake, EndsInv
      <4> QED
        BY <2>5, <4>1, <4>2, <4>3, Zenon DEF Restart
    <3> QED
      BY <2>1, <3>1, <3>2, <3>4, Zenon DEF EndsInv
  <2>6. CASE Manage /\ ~Open
    <3>1. ~late' => ~late
      BY <2>6, Remembered, Zenon
    <3>2. CASE Close
      BY <2>1, <3>2, Zenon DEF Close, EndsInv
    <3>3. CASE ChipStop
      BY <2>1, <3>3, Zenon DEF ChipStop, vars, EndsInv
    <3>4. CASE FreeIrq
      BY <2>1, <3>1, <3>4, Zenon DEF FreeIrq, EndsInv, EchoFlushed
    <3>5. CASE Suspend \/ Resume
      <4>1. /\ UNCHANGED <<netdev, int_ena, mode_ena, restart_due, restart_pc, xmit_pc, isr_pc>>
            /\ EchoFlushed => EchoFlushed'
        BY <3>5, Zenon DEF Suspend, Resume, EchoFlushed
      <4> QED
        BY <2>1, <3>1, <4>1, Zenon DEF EndsInv
    <3> QED
      BY <2>6, <3>2, <3>3, <3>4, <3>5, Zenon DEF Manage
  <2>7. CASE Open
    BY <2>1, <2>7, Zenon DEF Open, EndsInv
  <2> QED
    BY <2>2, <2>3, <2>4, <2>5, <2>6, <2>7, Zenon DEF LNext, Manage
<1> QED
  BY <1>1, <1>2, <1>3, Zenon

\* Every step keeps the invariant.
LEMMA LifeStep ==
  ASSUME WholeInv, [LNext]_<<vars, lvars, hvars>>
  PROVE  WholeInv'
<1>1. CASE UNCHANGED <<vars, lvars, hvars>>
  <2> USE <1>1 DEF vars, lvars, hvars, hwvars, drvvars, xvars, ivars, mvars, cvars, rvars
  <2>1. TypeOK' /\ LTypeOK'
    <3>1. TypeOK'
      BY TypeStep, Zenon DEF WholeInv, BaseInv, LTypeOK
    <3> QED
      BY <3>1, ZenonT(60) DEF WholeInv, BaseInv, LTypeOK
  <2>2. BaseInv'
    BY <2>1, ZenonT(60) DEF WholeInv, BaseInv, LockInv, EndsInv, LateRestart, EchoFlushed
  <2>3. ASSUME LifeInv
        PROVE  LifeInv'
    <3>1. LockInv' /\ PathInv' /\ Diff' = Diff
      BY <2>3, RingStutter, Zenon DEF LifeInv, LockInv, PathInv
    <3>2. CoreInv => CoreInv'
      BY <2>1, CoreFrame, Zenon DEF corevars
    <3> QED
      BY <2>1, <2>3, <3>1, <3>2, ZenonT(40) DEF LifeInv, RestartInv, EchoFlushed, Blank, CoreSometimes
  <2> QED
    BY <2>2, <2>3, Zenon DEF WholeInv
<1>2. CASE LNext
  <2>1. BaseInv'
    BY <1>2, BaseStep, Zenon DEF WholeInv
  <2>2. ASSUME ~disturbed'
        PROVE  LifeInv'
    <3>1. CASE Open
      BY <2>1, <3>1, OpenStep, Zenon DEF WholeInv, BaseInv
    <3>2. CASE ~Open
      <4>1. LifeInv /\ ~Overlap'
        BY <1>2, <2>2, <3>2, Remembered, Zenon DEF WholeInv
      <4> QED
        BY <1>2, <2>1, <3>2, <4>1, TxPathStep, IsrPathStep, ControllerStep, ErrInterruptStep,
           RestartStep, ManageStep, Zenon DEF LNext, BaseInv
    <3> QED
      BY <3>1, <3>2, Zenon
  <2> QED
    BY <2>1, <2>2, Zenon DEF WholeInv
<1> QED
  BY <1>1, <1>2, Zenon

-----------------------------------------------------------------------------
\* On a device on which no restart has overlapped another path since it was opened,
\* counters, buffers, echo slots and priorities agree (ConsistentAlone), for every number
\* of TXT buffers and every counter width, whatever overlapped before that open.
THEOREM LifecycleConsistentAlone == LSpec => []ConsistentAlone
<1>1. WholeInv => ConsistentAlone
  <2> SUFFICES ASSUME LifeInv PROVE RingConsistent
    BY Zenon DEF WholeInv, ConsistentAlone
  <2>1. LTypeOK /\ (restart_pc # "tail" => Diff <= N)
    BY Zenon DEF LifeInv, RestartInv
  <2>2. SlotFree
    <3> SUFFICES ASSUME xmit_pc \in {"insert", "echo", "ready"}
                 PROVE  /\ txb_state[HeadBuf] = "ETY"
                        /\ xmit_pc # "ready" => echo_skb[HeadBuf] = NoSkb
      BY Zenon DEF SlotFree
    <3>1. CoreInv
      BY PathsMeanCore, Zenon
    <3>2. txb_state[HeadBuf] = "ETY" /\ HeadBuf \in Bufs
      BY <3>1, RingTypes, Zenon DEF CoreInv, SlotInv
    <3> QED
      BY <3>1, <3>2, Zenon DEF CoreInv, SlotInv, RingInv
  <2>3. FifoOrder
    BY BlankOrder, Zenon DEF LifeInv, CoreSometimes, RestartInv, CoreInv
  <2> QED
    BY <2>1, <2>2, <2>3, Zenon DEF RingConsistent
<1>2. WholeInv /\ [LNext]_<<vars, lvars, hvars>> => WholeInv'
  BY LifeStep, Zenon
<1> QED
  BY <1>1, <1>2, LifeInit, PTL DEF LSpec

\* A closed device is quiet: neither the interrupt handler nor a restart is under way, and
\* unless a restart ran during ctucan_close its interrupts are disabled and the controller
\* is off the bus, however the paths of the driver overlapped before.
THEOREM LifecycleClosedIsQuiet == LSpec => []ClosedIsQuiet
<1>1. WholeInv => ClosedIsQuiet
  BY Zenon DEF WholeInv, BaseInv, EndsInv, ClosedIsQuiet
<1>2. WholeInv /\ [LNext]_<<vars, lvars, hvars>> => WholeInv'
  BY LifeStep, Zenon
<1> QED
  BY <1>1, <1>2, LifeInit, PTL DEF LSpec

\* Only ctucan_resume and a restart that overlapped another path can leave the queue awake
\* with all buffers taken.
THEOREM LifecycleOverfilledOnlyBy == LSpec => OverfilledOnlyBy
<1>1. ASSUME WholeInv, LNext, QueueHasRoom, ~Resume, ~disturbed'
      PROVE  QueueHasRoom'
  <2> SUFFICES ASSUME netdev' = "up", xmit_pc' = "idle", restart_pc' = "idle", ~queue_stopped'
               PROVE  TXTNF'
    BY Zenon DEF QueueHasRoom
  <2> USE DEF hwvars, drvvars, xvars, ivars, mvars, cvars, rvars, lvars
  <2>1. TypeOK /\ 0 \in Bufs
    BY <1>1, Consts DEF WholeInv, BaseInv, LTypeOK, Bufs
  <2>2. (\A b \in Bufs : txb_state'[b] = "ETY") => TXTNF'
    BY <2>1, Zenon DEF TXTNF
  <2>3. ASSUME UNCHANGED <<netdev, xmit_pc, restart_pc>>,
               queue_stopped' = queue_stopped,
               \A b \in Bufs : txb_state[b] = "ETY" => txb_state'[b] = "ETY"
        PROVE  TXTNF'
    BY <1>1, <2>3, Zenon DEF QueueHasRoom, TXTNF
  <2>0. LifeInv \/ Open
    BY <1>1, Remembered, Zenon DEF WholeInv
  <2>4. CASE TxPath
    <3>1. CASE StartXmit
      BY <3>1, Zenon DEF StartXmit
    <3>2. CASE InsertFrame
      <4>1. CoreInv
        <5>1. ~Open
          BY <2>4, <3>2, Zenon DEF Open, TxPath
        <5> QED
          BY <2>0, <3>2, <5>1, PathsMeanCore, Zenon DEF InsertFrame
      <4> QED
        BY <3>2, <4>1, Zenon DEF InsertFrame, CoreInv, SlotInv, Writable
    <3>3. CASE PutEchoSkb \/ SetReady
      BY <3>3, Zenon DEF PutEchoSkb, SetReady
    <3>4. CASE CheckFull
      BY <3>4, Zenon DEF CheckFull, TXTNF
    <3> QED
      BY <2>4, <3>1, <3>2, <3>3, <3>4, Zenon DEF TxPath
  <2>5. CASE IsrPath
    <3>1. CASE SetEmpty
      <4>1. \A b \in Bufs : txb_state[b] = "ETY" => txb_state'[b] = "ETY"
        BY <2>1, <3>1, Zenon DEF SetEmpty, TypeOK, Finished
      <4> QED
        BY <2>3, <2>5, <3>1, <4>1, Zenon DEF SetEmpty, IsrPath
    <3>2. CASE WakeQueue
      <4>1. ~(queue_stopped /\ ~TXTNF) /\ UNCHANGED <<txb_state, xmit_pc>>
        BY <3>2, ZenonT(40) DEF WakeQueue
      <4>2. UNCHANGED <<netdev, restart_pc>>
        BY <2>5, Zenon DEF IsrPath
      <4> QED
        BY <1>1, <4>1, <4>2, Zenon DEF QueueHasRoom, TXTNF
    <3>3. CASE Interrupt \/ IsrLock \/ ReapTail \/ RotatePrio \/ LoopEnd \/ ClearTxbhci
      BY <2>3, <2>5, <3>3, Zenon
        DEF Interrupt, IsrLock, ReapTail, RotatePrio, LoopEnd, ClearTxbhci, IsrPath
    <3> QED
      BY <2>5, <3>1, <3>2, <3>3, Zenon DEF IsrPath
  <2>6. CASE Controller
    <3>1. /\ UNCHANGED <<netdev, xmit_pc, restart_pc, queue_stopped>>
          /\ \A b \in Bufs : txb_state[b] = "ETY" => txb_state'[b] = "ETY"
      BY <2>1, <2>6, Zenon DEF Controller, HwLock, HwRetry, HwFinish, HwBusOff, HwIntegrated, HwFail,
                        Selected, TypeOK
    <3> QED
      BY <2>3, <3>1, Zenon
  <2>7. CASE ErrInterrupt
    BY <2>3, <2>7, Zenon DEF ErrInterrupt, vars
  <2>8. CASE Restart
    <3>1. restart_pc = "wake" /\ UNCHANGED txb_state
      BY <2>8, ZenonT(40) DEF Restart, RestartFlush, RestartReset, RestartHead, RestartTail, RestartEnable,
                  RestartWake
    <3> QED
      BY <2>0, <2>2, <2>8, <3>1, Zenon DEF LifeInv, RestartInv, Blank, Open
  <2>9. CASE Manage
    BY <1>1, <2>2, <2>9, Zenon DEF Manage, Close, ChipStop, FreeIrq, Open, Suspend
  <2> QED
    BY <1>1, <2>4, <2>5, <2>6, <2>7, <2>8, <2>9, Zenon DEF LNext
<1>2. WholeInv /\ [LNext]_<<vars, lvars, hvars>>
        => [QueueHasRoom => QueueHasRoom' \/ Resume \/ disturbed']_<<vars, lvars, hvars>>
  BY <1>1, Zenon
<1>3. WholeInv /\ [LNext]_<<vars, lvars, hvars>> => WholeInv'
  BY LifeStep, Zenon
<1> QED
  BY <1>2, <1>3, LifeInit, PTL DEF LSpec, OverfilledOnlyBy
=============================================================================
