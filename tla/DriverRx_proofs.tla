-------------------------- MODULE DriverRx_proofs --------------------------
(***************************************************************************)
(* The receive path of the driver delivers every frame once and in order,  *)
(* for every capacity of the RX buffer, every NAPI weight and any number   *)
(* of failed allocations.  ctucan_hw_read_timestamp, which shares no state *)
(* with it, returns a time within the call, for every width of the low     *)
(* word.                                                                   *)
(***************************************************************************)
EXTENDS DriverRx, TimestampRead, TLAPS

\* The inductive invariant.  Beside the two properties it says that a word of the oldest
\* frame has been read exactly while its frame format word is in hand, in ctucan_rx or
\* kept for the next poll, and never in both places.
IInv ==
  /\ RTypeOK
  /\ FfwOfHead
  /\ DeliveredInOrder
  /\ poll_pc # "frame" /\ ~ffw_buffered => rx_pos = 0
  /\ poll_pc = "frame" => ~ffw_buffered

\* The number that follows a frame number is one, and neither stands for a missing frame.
LEMMA SuccType ==
  ASSUME NEW f \in RxIds
  PROVE  Succ(f) \in RxIds /\ f # NoFrame
  BY RxAssumption DEF RxIds, Succ, NoFrame

\* Every initial state satisfies the invariant.
LEMMA InitIInv == RxInit => IInv
<1> SUFFICES ASSUME RxInit PROVE IInv
  OBVIOUS
<1>1. rx_fifo = <<>> /\ Len(rx_fifo) = 0
  BY DEF RxInit
<1>2. RTypeOK
  <2>1. rx_fifo \in Seq(RxIds)
    BY <1>1
  <2>2. 0 \in RxIds /\ 0 <= Cap
    BY RxAssumption DEF RxIds
  <2>3. ffw_buffered \in BOOLEAN
    BY ZenonT(10) DEF RxInit
  <2> QED
    BY <1>1, <2>1, <2>2, <2>3 DEF RxInit, RTypeOK
<1>3. DeliveredInOrder
  BY <1>1 DEF RxInit, DeliveredInOrder
<1> QED
  BY <1>2, <1>3 DEF RxInit, IInv, FfwOfHead

\* A received frame goes behind the ones in the buffer.
LEMMA ReceiveStep ==
  ASSUME IInv, HwReceive
  PROVE  IInv'
<1>1. /\ rx_fifo' = Append(rx_fifo, last_rx') /\ last_rx' = Succ(last_rx) /\ last_rx' \in RxIds
      /\ Len(rx_fifo) < Cap
      /\ UNCHANGED <<rx_pos, poll_pc, ffw_buffered, ffw, last_up>>
  BY SuccType DEF HwReceive, IInv, RTypeOK, pollvars
<1>2. /\ rx_fifo \in Seq(RxIds) /\ Len(rx_fifo) \in Nat
      /\ rx_fifo' \in Seq(RxIds) /\ Len(rx_fifo') = Len(rx_fifo) + 1
      /\ \A i \in 1..Len(rx_fifo) : rx_fifo'[i] = rx_fifo[i]
      /\ rx_fifo'[Len(rx_fifo) + 1] = last_rx'
  BY <1>1 DEF IInv, RTypeOK
<1>3. rx_fifo' # <<>> /\ (rx_fifo # <<>> => Len(rx_fifo) > 0 /\ Head(rx_fifo') = Head(rx_fifo))
  BY <1>2
<1>4. RTypeOK'
  BY <1>1, <1>2, RxAssumption DEF IInv, RTypeOK
<1>5. FfwOfHead'
  BY <1>1, <1>3 DEF IInv, FfwOfHead
<1>6. DeliveredInOrder'
  <2>1. ASSUME NEW i \in 1..Len(rx_fifo')
        PROVE  rx_fifo'[i] = Succ(IF i = 1 THEN last_up ELSE rx_fifo'[i - 1])
    <3>1. CASE i \in 1..Len(rx_fifo)
      <4>1. i # 1 => i - 1 \in 1..Len(rx_fifo)
        BY <1>2, <3>1
      <4> QED
        BY <1>2, <3>1, <4>1 DEF IInv, DeliveredInOrder
    <3>2. CASE i = Len(rx_fifo) + 1
      <4>1. CASE rx_fifo = <<>>
        BY <1>1, <1>2, <3>2, <4>1 DEF IInv, DeliveredInOrder
      <4>2. CASE rx_fifo # <<>>
        <5>1. Len(rx_fifo) \in 1..Len(rx_fifo) /\ i # 1 /\ i - 1 = Len(rx_fifo)
          BY <1>2, <1>3, <3>2, <4>2
        <5> QED
          BY <1>1, <1>2, <3>2, <4>2, <5>1 DEF IInv, DeliveredInOrder
      <4> QED
        BY <4>1, <4>2
    <3> QED
      BY <1>2, <2>1, <3>1, <3>2
  <2> QED
    BY <1>1, <1>2, <1>3, <2>1 DEF DeliveredInOrder
<1> QED
  BY <1>1, <1>4, <1>5, <1>6 DEF IInv

\* The first word of a frame is read, or taken over from the last poll.
LEMMA FirstWordStep ==
  ASSUME IInv, poll_pc = "first", FirstWord, UNCHANGED rx_fifo
  PROVE  /\ ffw' \in RxIds \cup {NoFrame, Other} /\ rx_pos' \in 0..2
         /\ ffw' # NoFrame => rx_pos' = 1 /\ rx_fifo # <<>> /\ ffw' = Head(rx_fifo)
         /\ ffw' = NoFrame => rx_pos' = 0
<1>1. rx_fifo # <<>> => Head(rx_fifo) \in RxIds
  BY DEF IInv, RTypeOK
<1>2. CASE ffw_buffered
  BY <1>1, <1>2, SuccType DEF IInv, RTypeOK, FfwOfHead, FirstWord
<1>3. CASE ~ffw_buffered
  BY <1>1, <1>3, SuccType DEF IInv, RTypeOK, FirstWord
<1> QED
  BY <1>2, <1>3

\* The rest of the oldest frame is read and the frame handed to the stack.
LEMMA FrameStep ==
  ASSUME IInv, RxFrame
  PROVE  IInv'
<1>1. /\ rx_fifo \in Seq(RxIds) /\ rx_fifo # <<>> /\ ffw = Head(rx_fifo)
      /\ rx_fifo' = Tail(rx_fifo) /\ rx_pos' = 0 /\ last_up' = ffw /\ poll_pc' = "count"
      /\ ~ffw_buffered /\ UNCHANGED <<ffw, ffw_buffered, last_rx>>
  BY DEF RxFrame, IInv, RTypeOK, FfwOfHead
<1>2. /\ Len(rx_fifo) \in Nat \ {0} /\ Head(rx_fifo) = rx_fifo[1] /\ rx_fifo[1] \in RxIds
      /\ rx_fifo' \in Seq(RxIds) /\ Len(rx_fifo') = Len(rx_fifo) - 1
      /\ \A i \in 1..Len(rx_fifo') : rx_fifo'[i] = rx_fifo[i + 1]
  BY <1>1
<1>3. RTypeOK'
  BY <1>1, <1>2, RxAssumption DEF IInv, RTypeOK
<1>4. DeliveredInOrder'
  <2>1. ASSUME NEW i \in 1..Len(rx_fifo')
        PROVE  rx_fifo'[i] = Succ(IF i = 1 THEN last_up' ELSE rx_fifo'[i - 1])
    <3>1. i + 1 \in 1..Len(rx_fifo) /\ i + 1 # 1 /\ (i + 1) - 1 = i /\ rx_fifo'[i] = rx_fifo[i + 1]
      BY <1>2, <2>1
    <3>2. rx_fifo'[i] = Succ(rx_fifo[i])
      BY <3>1 DEF IInv, DeliveredInOrder
    <3>3. i # 1 => rx_fifo'[i - 1] = rx_fifo[i]
      <4>1. i # 1 => i - 1 \in 1..Len(rx_fifo') /\ (i - 1) + 1 = i
        BY <1>2, <2>1
      <4> QED
        BY <1>2, <4>1
    <3> QED
      BY <1>1, <1>2, <3>2, <3>3
  <2>2. last_rx' = IF rx_fifo' = <<>> THEN last_up' ELSE rx_fifo'[Len(rx_fifo')]
    <3>1. last_rx = rx_fifo[Len(rx_fifo)]
      BY <1>1 DEF IInv, DeliveredInOrder
    <3>2. CASE rx_fifo' = <<>>
      BY <1>1, <1>2, <3>1, <3>2
    <3>3. CASE rx_fifo' # <<>>
      <4>1. Len(rx_fifo') \in 1..Len(rx_fifo') /\ Len(rx_fifo') + 1 = Len(rx_fifo)
        BY <1>2, <3>3
      <4> QED
        BY <1>1, <1>2, <3>1, <3>3, <4>1
    <3> QED
      BY <3>2, <3>3
  <2> QED
    BY <2>1, <2>2 DEF DeliveredInOrder
<1> QED
  BY <1>1, <1>3, <1>4 DEF IInv, FfwOfHead

\* What a step leaves alone, with the poll outside the reading of a frame, stays in order.
LEMMA QuietStep ==
  ASSUME IInv, UNCHANGED <<rx_fifo, rx_pos, ffw, ffw_buffered, last_rx, last_up>>,
         poll_pc' \in {"idle", "first", "frame", "count", "status", "cdo",
                       "complete", "clear", "unmask", "return"},
         poll_pc' = "frame" <=> poll_pc = "frame"
  PROVE  IInv'
  BY DEF IInv, RTypeOK, FfwOfHead, DeliveredInOrder

\* Every step preserves the invariant.
LEMMA NextIInv == IInv /\ [RxNext]_rxvars => IInv'
<1> SUFFICES ASSUME IInv, [RxNext]_rxvars PROVE IInv'
  OBVIOUS
<1>1. poll_pc \in {"idle", "first", "frame", "count", "status", "cdo",
                   "complete", "clear", "unmask", "return"}
  BY DEF IInv, RTypeOK
<1>2. CASE HwReceive
  BY <1>2, ReceiveStep
<1>3. CASE HwOverrun \/ RxIsr \/ UNCHANGED rxvars
  <2>1. UNCHANGED <<rx_fifo, rx_pos, ffw, ffw_buffered, last_rx, last_up, poll_pc>>
    BY <1>3, Zenon DEF HwOverrun, RxIsr, RxInterrupt, IsrMask, IsrClear, IsrSchedule, rxvars, rxhwvars, pollvars
  <2> QED
    BY <1>1, <2>1, QuietStep
<1>4. CASE RxFirst
  <2>1. /\ poll_pc = "first" /\ FirstWord /\ ~ffw_buffered'
        /\ UNCHANGED <<rx_fifo, last_rx, last_up>>
        /\ IF ffw' = NoFrame THEN poll_pc' = "count" ELSE poll_pc' = "frame"
    BY <1>4 DEF RxFirst
  <2>2. RTypeOK'
    <3>1. ffw_buffered' \in BOOLEAN
      BY <1>4, Zenon DEF RxFirst
    <3>2. poll_pc' \in {"count", "frame"}
      BY <2>1
    <3> QED
      BY <2>1, <3>1, <3>2, FirstWordStep DEF IInv, RTypeOK
  <2>3. DeliveredInOrder'
    BY <2>1 DEF IInv, DeliveredInOrder
  <2>4. FfwOfHead' /\ (poll_pc' # "frame" => rx_pos' = 0)
    BY <2>1, FirstWordStep DEF FfwOfHead
  <2> QED
    BY <2>1, <2>2, <2>3, <2>4 DEF IInv
<1>5. CASE RxNoSkb
  <2>1. /\ poll_pc = "first" /\ FirstWord /\ ffw_buffered' = TRUE /\ poll_pc' = "count"
        /\ ffw' # NoFrame /\ UNCHANGED <<rx_fifo, last_rx, last_up>>
    BY <1>5 DEF RxNoSkb
  <2> QED
    BY <2>1, FirstWordStep DEF IInv, RTypeOK, FfwOfHead, DeliveredInOrder
<1>6. CASE RxFrame
  BY <1>6, FrameStep
<1>7. CASE \/ PollStart \/ PollCount \/ PollStatus \/ PollCdo \/ PollComplete
           \/ PollClear \/ PollUnmask \/ PollReturn
  <2>1. UNCHANGED <<rx_fifo, rx_pos, ffw, ffw_buffered, last_rx, last_up>>
    BY <1>7, Zenon DEF PollStart, PollCount, PollStatus, PollCdo, PollComplete, PollClear, PollUnmask,
                PollReturn, rxhwvars
  <2>2. /\ poll_pc # "frame"
        /\ poll_pc' \in {"idle", "first", "status", "cdo", "complete", "clear", "unmask", "return"}
    BY <1>7, Zenon DEF PollStart, PollCount, PollStatus, PollCdo, PollComplete, PollClear, PollUnmask,
                PollReturn, LoopOrLeave, Epilogue
  <2> QED
    BY <2>1, <2>2, QuietStep
<1> QED
  BY <1>2, <1>3, <1>4, <1>5, <1>6, <1>7 DEF RxNext, Poll

\* The inductive invariant holds in every reachable state.
THEOREM RxInvariant == RxSpec => []IInv
  BY InitIInv, NextIInv, PTL DEF RxSpec

\* The registers and variables that the receive path works on have their types.
THEOREM RxTypes == RxSpec => []RTypeOK
<1>1. IInv => RTypeOK
  BY DEF IInv
<1> QED
  BY <1>1, RxInvariant, PTL

\* ctucan_rx_poll never returns more than its quota: the loop is entered with room for
\* one more, and every way through ctucan_rx counts once.
THEOREM RxWithinQuota == RxSpec => []WithinQuota
<1> DEFINE Room == WithinQuota /\ (poll_pc \in {"first", "frame"} => work_done < Quota)
<1>1. RxInit => Room
  BY RxAssumption DEF RxInit, WithinQuota
<1>2. Room /\ [RxNext]_rxvars => Room'
  <2> SUFFICES ASSUME Room, [RxNext]_rxvars PROVE Room'
    OBVIOUS
  <2>1. CASE HwReceive \/ HwOverrun \/ RxIsr \/ UNCHANGED rxvars
    BY <2>1, Zenon DEF HwReceive, HwOverrun, RxIsr, RxInterrupt, IsrMask, IsrClear, IsrSchedule, rxvars, rxhwvars, pollvars,
                WithinQuota
  <2>2. CASE RxFirst \/ RxNoSkb \/ RxFrame
    BY <2>2, RxAssumption DEF RxFirst, RxNoSkb, RxFrame, WithinQuota
  <2>3. CASE PollStart \/ PollCount
    BY <2>3, RxAssumption DEF PollStart, PollCount, LoopOrLeave, WithinQuota
  <2>4. CASE PollStatus \/ PollCdo \/ PollComplete \/ PollClear \/ PollUnmask \/ PollReturn
    <3>1. poll_pc' \in {"idle", "cdo", "complete", "clear", "unmask", "return"}
      BY <2>4, Zenon DEF PollStatus, PollCdo, PollComplete, PollClear, PollUnmask, PollReturn, Epilogue
    <3>2. work_done' \in {0, work_done}
      BY <2>4, Zenon DEF PollStatus, PollCdo, PollComplete, PollClear, PollUnmask, PollReturn
    <3> QED
      BY <3>1, <3>2, RxAssumption DEF WithinQuota
  <2> QED
    BY <2>1, <2>2, <2>3, <2>4 DEF RxNext, Poll
<1>3. Room => WithinQuota
  OBVIOUS
<1> QED
  BY <1>1, <1>2, <1>3, PTL DEF RxSpec

\* The frame format word in hand, in ctucan_rx or kept after a failed allocation, is the
\* first word of the oldest frame in the RX buffer and the only one read so far.
THEOREM RxFfwOfHead == RxSpec => []FfwOfHead
<1>1. IInv => FfwOfHead
  BY DEF IInv
<1> QED
  BY <1>1, RxInvariant, PTL

\* The polls of ctucan_rx_poll deliver every received frame once and in order.
THEOREM RxDeliveredInOrder == RxSpec => []DeliveredInOrder
<1>1. IInv => DeliveredInOrder
  BY DEF IInv
<1> QED
  BY <1>1, RxInvariant, PTL

-----------------------------------------------------------------------------
(* ctucan_hw_read_timestamp                                                 *)

InCall(t) == Before(read.start, t) /\ Before(t, now)

\* The inductive invariant.  While a call is in progress the time base has not passed
\* the start by a whole span of the low word; each word read so far belongs to a time
\* within the call, and once the high word is known not to have moved since the first
\* read, both words belong to the same time.
ReadInv ==
  /\ now \in Time
  /\ read \in [pc : ReadPcs, start : Time, high : Nat, low : 0..(LowSpan - 1), high_2 : Nat]
  /\ read.pc \in ReadPcs \ {"idle"} => Before(read.start, now)
  /\ read.pc \in ReadPcs \ {"idle", "done"} =>
       \/ now.high = read.start.high
       \/ now.high = read.start.high + 1 /\ now.low < read.start.low
  /\ read.pc \in {"low", "high_2", "low_2"} => read.start.high <= read.high /\ read.high <= now.high
  /\ read.pc = "high_2" =>
       \/ InCall([high |-> read.high, low |-> read.low])
       \/ now.high = read.start.high + 1 /\ read.high = read.start.high
  /\ read.pc = "low_2" => read.high_2 = now.high /\ now.high = read.start.high + 1
  /\ read.pc = "done" => InCall(Result)

\* Every initial state satisfies the invariant.
LEMMA ReadInitInv == ReadInit => ReadInv
  BY TimestampAssumption DEF ReadInit, ReadInv, Time, ReadPcs

\* The time base only moves forward, by one.
LEMMA NextTime ==
  ASSUME NEW t \in Time
  PROVE  Next_(t) \in Time /\ Before(t, Next_(t))
  BY TimestampAssumption DEF Next_, Time, Before

\* Every step preserves the invariant.
LEMMA ReadNextInv == ReadInv /\ [ReadNext]_<<now, read>> => ReadInv'
<1> SUFFICES ASSUME ReadInv, [ReadNext]_<<now, read>> PROVE ReadInv'
  OBVIOUS
<1> USE TimestampAssumption
<1>1. CASE Tick
  BY <1>1, NextTime DEF Tick, ReadInv, Time, ReadPcs, Before, Next_, InCall, Result
<1>2. CASE BeginRead
  <2>1. /\ now' = now
        /\ read' \in [pc : ReadPcs, start : Time, high : Nat, low : 0..(LowSpan - 1), high_2 : Nat]
        /\ read'.pc = "high" /\ read'.start = now
    BY <1>2, Zenon DEF BeginRead, ReadInv, ReadPcs, Time
  <2>2. read.pc = "idle"
    BY <1>2 DEF BeginRead
  <2> QED
    BY <2>1, <2>2 DEF ReadInv, ReadPcs, Time, Before, InCall, Result
<1>3. CASE ReadHigh
  <2>1. /\ now' = now
        /\ read' \in [pc : ReadPcs, start : Time, high : Nat, low : 0..(LowSpan - 1), high_2 : Nat]
        /\ read'.pc = "low" /\ read'.high = now.high /\ read'.start = read.start
    BY <1>3, Zenon DEF ReadHigh, ReadInv, ReadPcs, Time
  <2>2. read.pc = "high"
    BY <1>3 DEF ReadHigh
  <2> QED
    BY <2>1, <2>2 DEF ReadInv, ReadPcs, Time, Before, InCall, Result
<1>4. CASE ReadLow
  <2>1. /\ now' = now
        /\ read' \in [pc : ReadPcs, start : Time, high : Nat, low : 0..(LowSpan - 1), high_2 : Nat]
        /\ read'.pc = "high_2" /\ read'.low = now.low /\ read'.start = read.start /\ read'.high = read.high
    BY <1>4, Zenon DEF ReadLow, ReadInv, ReadPcs, Time
  <2>2. read.pc = "low"
    BY <1>4 DEF ReadLow
  <2> QED
    BY <2>1, <2>2 DEF ReadInv, ReadPcs, Time, Before, InCall, Result
<1>5. CASE ReadHigh2
  <2>1. /\ now' = now
        /\ read' \in [pc : ReadPcs, start : Time, high : Nat, low : 0..(LowSpan - 1), high_2 : Nat]
        /\ read'.pc = (IF read.high = now.high THEN "done" ELSE "low_2")
        /\ read'.high_2 = now.high /\ read'.start = read.start /\ read'.high = read.high /\ read'.low = read.low
    BY <1>5, Zenon DEF ReadHigh2, ReadInv, ReadPcs, Time
  <2>2. read.pc = "high_2"
    BY <1>5 DEF ReadHigh2
  <2> QED
    BY <2>1, <2>2 DEF ReadInv, ReadPcs, Time, Before, InCall, Result
<1>6. CASE ReadLow2
  <2>1. /\ now' = now
        /\ read' \in [pc : ReadPcs, start : Time, high : Nat, low : 0..(LowSpan - 1), high_2 : Nat]
        /\ read'.pc = "done" /\ read'.low = now.low /\ read'.start = read.start /\ read'.high_2 = read.high_2
    BY <1>6, Zenon DEF ReadLow2, ReadInv, ReadPcs, Time
  <2>2. read.pc = "low_2"
    BY <1>6 DEF ReadLow2
  <2> QED
    BY <2>1, <2>2 DEF ReadInv, ReadPcs, Time, Before, InCall, Result
<1>7. CASE UNCHANGED <<now, read>>
  BY <1>7 DEF ReadInv, Time, ReadPcs, Before, InCall, Result
<1> QED
  BY <1>1, <1>2, <1>3, <1>4, <1>5, <1>6, <1>7 DEF ReadNext

\* ctucan_hw_read_timestamp returns a time of the time base within the call, for every
\* span of the low word and every interleaving with the running time base.
THEOREM TimestampCorrect == ReadSpec => []TimestampInCall
<1>1. ReadInv => TimestampInCall
  BY DEF ReadInv, TimestampInCall, InCall
<1> QED
  BY ReadInitInv, ReadNextInv, <1>1, PTL DEF ReadSpec

=============================================================================
