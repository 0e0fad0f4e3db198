------------------------------ MODULE DriverRx ------------------------------
(***************************************************************************)
(* The receive path of the Linux driver (driver/ctucanfd_base.c).  The RX  *)
(* buffer raises RBNEI as long as it is not empty; ctucan_interrupt masks  *)
(* it and schedules the NAPI poll ctucan_rx_poll, which reads frames word  *)
(* by word and unmasks RBNEI when it finds the buffer empty.               *)
(*                                                                         *)
(* The interrupt handler, the poll and the controller interleave; one      *)
(* action is one register access, or a run of private statements, of one.  *)
(***************************************************************************)
EXTENDS Integers, Sequences

CONSTANTS
  Cap,         \* bound: whole frames the RX buffer RAM can hold
  Quota,       \* the NAPI weight: frames one poll may handle
  AllocFails   \* bound: how many SKB allocations fail

ASSUME RxAssumption ==
  /\ Cap \in Nat \ {0}
  /\ Quota \in Nat \ {0}
  /\ AllocFails \in Nat

VARIABLES
  rx_fifo,     \* the RX buffer: committed frames, by number, oldest first
  rx_pos,      \* words of the oldest frame read so far; 2 for more than one
  dor,         \* STATUS.DOR
  int_stat,    \* INT_STAT.RBNEI
  int_mask,    \* INT_MASK.RBNEI
  napi_sched,  \* NAPI_STATE_SCHED
  napi_missed, \* NAPI_STATE_MISSED
  on_list,     \* the NAPI instance is on a poll list
  rx_isr_pc,      \* next step of ctucan_interrupt
  poll_pc,     \* next step of ctucan_rx_poll
  framecnt,    \* local of ctucan_rx_poll
  work_done,   \* local of ctucan_rx_poll
  res,         \* local of ctucan_rx_poll: sign of what ctucan_rx returned
  ffw,         \* frame format word in hand: priv->rxfrm_first_word or local
  ffw_buffered,\* CTUCANFD_FLAG_RX_FFW_BUFFERED
  alloc_left,  \* allocations that may still fail
  last_rx,     \* history: number of the frame received last
  last_up      \* history: number of the frame passed to the stack last

rxhwvars   == <<rx_fifo, rx_pos, dor, int_stat, int_mask, last_rx>>
napivars == <<napi_sched, napi_missed, on_list>>
pollvars == <<poll_pc, framecnt, work_done, res, ffw, ffw_buffered, alloc_left,
              last_up>>
rxvars     == <<rxhwvars, napivars, rx_isr_pc, pollvars>>

\* Frame numbers repeat, but only after more frames than the buffer holds.
RxIds     == 0..(Cap + 1)
NoFrame == -1   \* the word an empty RX buffer yields: RWCNT is 0
Other   == -2   \* a word that is not the first of a frame
Succ(f) == (f + 1) % (Cap + 2)

\* Types of the receive path: the RX buffer of rx_buffer.vhd never exceeds its
\* capacity, and ctucan_rx_poll is at one of its register accesses.
RTypeOK ==
  /\ rx_fifo \in Seq(RxIds)
  /\ Len(rx_fifo) <= Cap
  /\ rx_pos \in 0..2
  /\ poll_pc \in {"idle", "first", "frame", "count", "status", "cdo",
                  "complete", "clear", "unmask", "return"}
  /\ ffw_buffered \in BOOLEAN
  /\ ffw \in RxIds \cup {NoFrame, Other}
  /\ last_rx \in RxIds
  /\ last_up \in RxIds

\* After ctucan_open: RX buffer empty, RBNEI unmasked by ctucan_chip_start.
RxInit ==
  /\ rx_fifo = <<>>
  /\ rx_pos = 0
  /\ dor = FALSE
  /\ int_stat = FALSE
  /\ int_mask = FALSE
  /\ napi_sched = FALSE
  /\ napi_missed = FALSE
  /\ on_list = FALSE
  /\ rx_isr_pc = "idle"
  /\ poll_pc = "idle"
  /\ framecnt = 0
  /\ work_done = 0
  /\ res = 1
  /\ ffw = NoFrame
  /\ ffw_buffered = FALSE
  /\ alloc_left = AllocFails
  /\ last_rx = 0
  /\ last_up = 0

\* INT_STAT.RBNEI in the cycles after an access: an unmasked source sets it,
\* with priority over a clear; the source is the level "RX buffer not empty".
Latch(clear) ==
  int_stat' = \/ rx_fifo' # <<>> /\ ~int_mask'
              \/ int_stat /\ ~clear

-----------------------------------------------------------------------------
(* The controller                                                           *)

\* A received frame is committed to the RX buffer.
HwReceive ==
  /\ Len(rx_fifo) < Cap
  /\ last_rx' = Succ(last_rx)
  /\ rx_fifo' = Append(rx_fifo, last_rx')
  /\ int_mask' = int_mask
  /\ Latch(FALSE)
  /\ UNCHANGED <<rx_pos, dor, napivars, rx_isr_pc, pollvars>>

\* A frame that does not fit beside the ones in the buffer is dropped.
HwOverrun ==
  /\ rx_fifo # <<>>
  /\ dor' = TRUE
  /\ UNCHANGED <<rx_fifo, rx_pos, int_stat, int_mask, last_rx, napivars,
                 rx_isr_pc, pollvars>>

-----------------------------------------------------------------------------
(* ctucan_interrupt, as far as RBNEI is concerned                           *)

RxInterrupt ==
  /\ rx_isr_pc = "idle"
  /\ int_stat
  /\ rx_isr_pc' = "mask"
  /\ UNCHANGED <<rxhwvars, napivars, pollvars>>

IsrMask ==
  /\ rx_isr_pc = "mask"
  /\ rx_isr_pc' = "clear"
  /\ int_mask' = TRUE
  /\ UNCHANGED <<rx_fifo, rx_pos, dor, int_stat, last_rx, napivars, pollvars>>

IsrClear ==
  /\ rx_isr_pc = "clear"
  /\ rx_isr_pc' = "sched"
  /\ UNCHANGED <<rx_fifo, rx_pos, dor, int_mask, last_rx, napivars, pollvars>>
  /\ Latch(TRUE)

\* napi_schedule: put the instance on the poll list of this CPU, or leave a
\* note for the owner of the SCHED bit.
IsrSchedule ==
  /\ rx_isr_pc = "sched"
  /\ rx_isr_pc' = "idle"
  /\ IF napi_sched
     THEN napi_missed' = TRUE /\ UNCHANGED <<napi_sched, on_list>>
     ELSE napi_sched' = TRUE /\ on_list' = TRUE /\ UNCHANGED napi_missed
  /\ UNCHANGED <<rxhwvars, pollvars>>

-----------------------------------------------------------------------------
(* ctucan_rx_poll and ctucan_rx                                             *)

\* The loop condition, on values just read or assigned.
LoopOrLeave(fc, wd, r) ==
  IF fc > 0 /\ wd < Quota /\ r > 0 THEN "first" ELSE "status"

PollStart ==
  /\ poll_pc = "idle"
  /\ on_list
  /\ on_list' = FALSE
  /\ work_done' = 0
  /\ res' = 1
  /\ framecnt' = Len(rx_fifo)
  /\ poll_pc' = LoopOrLeave(framecnt', work_done', res')
  /\ UNCHANGED <<rxhwvars, napi_sched, napi_missed, rx_isr_pc, ffw, ffw_buffered,
                 alloc_left, last_up>>

\* The frame format word, read now or kept from the last poll, and whether
\* it describes a frame.
FirstWord ==
  IF ffw_buffered
  THEN UNCHANGED <<ffw, rx_pos>>
  ELSE IF rx_fifo = <<>>
  THEN ffw' = NoFrame /\ UNCHANGED rx_pos
  ELSE /\ ffw' = IF rx_pos = 0 THEN Head(rx_fifo) ELSE Other
       /\ rx_pos' = IF rx_pos = 0 THEN 1 ELSE 2

\* Faulty variant: the flag of a kept word is not cleared.
RxFirstKeepsFlag ==
  /\ poll_pc = "first"
  /\ FirstWord
  /\ IF ffw' = NoFrame
     THEN poll_pc' = "count" /\ res' = -1 /\ work_done' = work_done + 1
     ELSE poll_pc' = "frame" /\ UNCHANGED <<res, work_done>>
  /\ UNCHANGED <<rx_fifo, dor, int_stat, int_mask, last_rx, napivars, rx_isr_pc,
                 framecnt, ffw_buffered, alloc_left, last_up>>

\* ctucan_rx up to the allocation, which succeeds; an empty RX buffer is
\* -EAGAIN.
RxFirst ==
  /\ poll_pc = "first"
  /\ FirstWord
  /\ ffw_buffered' = FALSE
  /\ IF ffw' = NoFrame
     THEN poll_pc' = "count" /\ res' = -1 /\ work_done' = work_done + 1
     ELSE poll_pc' = "frame" /\ UNCHANGED <<res, work_done>>
  /\ UNCHANGED <<rx_fifo, dor, int_stat, int_mask, last_rx, napivars, rx_isr_pc,
                 framecnt, alloc_left, last_up>>

\* Faulty variant: the word already read is forgotten.
RxNoSkbForgets ==
  /\ poll_pc = "first"
  /\ alloc_left > 0
  /\ FirstWord
  /\ ffw' # NoFrame
  /\ ffw_buffered' = FALSE
  /\ res' = 0
  /\ work_done' = work_done + 1
  /\ alloc_left' = alloc_left - 1
  /\ poll_pc' = "count"
  /\ UNCHANGED <<rx_fifo, dor, int_stat, int_mask, last_rx, napivars, rx_isr_pc,
                 framecnt, last_up>>

\* ctucan_rx when no SKB is to be had: the word is kept for the next poll.
RxNoSkb ==
  /\ poll_pc = "first"
  /\ alloc_left > 0
  /\ FirstWord
  /\ ffw' # NoFrame
  /\ ffw_buffered' = TRUE
  /\ res' = 0
  /\ work_done' = work_done + 1
  /\ alloc_left' = alloc_left - 1
  /\ poll_pc' = "count"
  /\ UNCHANGED <<rx_fifo, dor, int_stat, int_mask, last_rx, napivars, rx_isr_pc,
                 framecnt, last_up>>

\* ctucan_read_rx_frame and the delivery: the RWCNT remaining words.
RxFrame ==
  /\ poll_pc = "frame"
  /\ poll_pc' = "count"
  /\ rx_fifo' = Tail(rx_fifo)
  /\ rx_pos' = 0
  /\ last_up' = ffw
  /\ res' = 1
  /\ work_done' = work_done + 1
  /\ UNCHANGED <<dor, int_stat, int_mask, last_rx, napivars, rx_isr_pc, framecnt,
                 ffw, ffw_buffered, alloc_left>>

\* The frame count is read again at the end of the loop body.
PollCount ==
  /\ poll_pc = "count"
  /\ framecnt' = Len(rx_fifo)
  /\ poll_pc' = LoopOrLeave(framecnt', work_done, res)
  /\ UNCHANGED <<rxhwvars, napivars, rx_isr_pc, work_done, res, ffw, ffw_buffered,
                 alloc_left, last_up>>

\* Where ctucan_rx_poll goes once the overrun has been dealt with.
Epilogue == IF framecnt = 0 /\ res # 0 THEN "complete" ELSE "return"

PollStatus ==
  /\ poll_pc = "status"
  /\ poll_pc' = IF dor THEN "cdo" ELSE Epilogue
  /\ UNCHANGED <<rxhwvars, napivars, rx_isr_pc, framecnt, work_done, res, ffw,
                 ffw_buffered, alloc_left, last_up>>

PollCdo ==
  /\ poll_pc = "cdo"
  /\ poll_pc' = Epilogue
  /\ dor' = FALSE
  /\ UNCHANGED <<rx_fifo, rx_pos, int_stat, int_mask, last_rx, napivars,
                 rx_isr_pc, framecnt, work_done, res, ffw, ffw_buffered,
                 alloc_left, last_up>>

\* napi_complete_done: gives the SCHED bit back, unless someone asked for
\* another poll meanwhile.
PollComplete ==
  /\ poll_pc = "complete"
  /\ napi_missed' = FALSE
  /\ napi_sched' = napi_missed
  /\ on_list' = (on_list \/ napi_missed)
  /\ poll_pc' = IF napi_missed THEN "return" ELSE "clear"
  /\ UNCHANGED <<rxhwvars, rx_isr_pc, framecnt, work_done, res, ffw, ffw_buffered,
                 alloc_left, last_up>>

PollClear ==
  /\ poll_pc = "clear"
  /\ poll_pc' = "unmask"
  /\ UNCHANGED <<rx_fifo, rx_pos, dor, int_mask, last_rx, napivars, rx_isr_pc,
                 framecnt, work_done, res, ffw, ffw_buffered, alloc_left,
                 last_up>>
  /\ Latch(TRUE)

\* Faulty variant: RBNEI stays masked.
PollUnmaskForgotten ==
  /\ poll_pc = "unmask"
  /\ poll_pc' = "return"
  /\ UNCHANGED <<rxhwvars, napivars, rx_isr_pc, framecnt, work_done, res, ffw,
                 ffw_buffered, alloc_left, last_up>>

PollUnmask ==
  /\ poll_pc = "unmask"
  /\ poll_pc' = "return"
  /\ int_mask' = FALSE
  /\ UNCHANGED <<rx_fifo, rx_pos, dor, last_rx, napivars, rx_isr_pc, framecnt,
                 work_done, res, ffw, ffw_buffered, alloc_left, last_up>>
  /\ Latch(FALSE)

\* Back in the NAPI core: a poll that used up its quota goes on the list
\* again, whatever it did to the SCHED bit; any other is left alone.
PollReturn ==
  /\ poll_pc = "return"
  /\ poll_pc' = "idle"
  /\ on_list' = (on_list \/ work_done = Quota)
  /\ work_done' = 0
  /\ UNCHANGED <<rxhwvars, napi_sched, napi_missed, rx_isr_pc, framecnt, res, ffw,
                 ffw_buffered, alloc_left, last_up>>

-----------------------------------------------------------------------------
RxIsr  == RxInterrupt \/ IsrMask \/ IsrClear \/ IsrSchedule
Poll == \/ PollStart \/ RxFirst \/ RxNoSkb \/ RxFrame \/ PollCount
        \/ PollStatus \/ PollCdo \/ PollComplete \/ PollClear \/ PollUnmask
        \/ PollReturn
RxNext == HwReceive \/ HwOverrun \/ RxIsr \/ Poll
RxSpec == RxInit /\ [][RxNext]_rxvars

\* A pending interrupt is taken and a listed NAPI instance is polled.  The
\* bus owes the driver nothing.
RxFairness == WF_rxvars(RxIsr) /\ WF_rxvars(Poll)
LiveSpec == RxSpec /\ RxFairness

-----------------------------------------------------------------------------
(* Properties                                                               *)

\* Whenever ctucan_rx goes on to read the rest of a frame, and whenever a
\* frame format word waits for the next poll, that word is the first of the
\* oldest frame in the RX buffer and the only word of it read so far: frames
\* are never mixed up, however the allocation fails.
FfwOfHead ==
  poll_pc = "frame" \/ ffw_buffered =>
    rx_pos = 1 /\ rx_fifo # <<>> /\ ffw = Head(rx_fifo)

\* The frames in the RX buffer are the ones that follow the one delivered
\* last, in the order of their arrival: polls of any interleaving deliver
\* every frame once and in order.
DeliveredInOrder ==
  /\ \A i \in 1..Len(rx_fifo) :
       rx_fifo[i] = Succ(IF i = 1 THEN last_up ELSE rx_fifo[i - 1])
  /\ last_rx = IF rx_fifo = <<>> THEN last_up ELSE rx_fifo[Len(rx_fifo)]

\* A poll never handles more frames than NAPI grants it, failed attempts included
\* (the loop of ctucan_rx_poll).
WithinQuota == work_done \in 0..Quota

\* An allocation has failed.
Starved == alloc_left < AllocFails

\* As long as no allocation fails nothing is left behind.  Every frame that
\* reaches the RX buffer is eventually handed to the stack, by the hand-shake of
\* mask, poll, napi_complete_done and unmask; and an overrun is eventually noticed
\* and cleared by a poll, although the driver takes no interrupt for it.
FramesDelivered ==
  /\ \A f \in RxIds : (rx_fifo # <<>> /\ Head(rx_fifo) = f)
                       ~> (rx_fifo = <<>> \/ Head(rx_fifo) # f \/ Starved)
  /\ dor ~> (~dor \/ Starved)

\* A failed allocation delays a frame, and does not stop it.
FramesDeliveredLater ==
  \A f \in RxIds : (rx_fifo # <<>> /\ Head(rx_fifo) = f)
                    ~> (rx_fifo = <<>> \/ Head(rx_fifo) # f)
=============================================================================
