------------------------------ MODULE RxBuffer ------------------------------
(***************************************************************************)
(* The RX buffer of the controller (rx_buffer.vhd, rx_buffer_fsm.vhd,      *)
(* rx_buffer_pointers.vhd, rx_buffer_ram.vhd).  A frame is stored word by  *)
(* word behind the committed ones while it is still being received, and    *)
(* becomes visible to the software only when it is committed.              *)
(*                                                                         *)
(* One step is one rising edge of clk_sys.  In every cycle the CAN core    *)
(* may give one command and the software may read a word (RX_DATA or       *)
(* COMMAND.RXRPMV), release the buffer (RRB) and clear the overrun (CDO).  *)
(***************************************************************************)
EXTENDS Integers, Sequences, FiniteSets

CONSTANTS
  Size,      \* G_RX_BUFF_SIZE
  Counts,    \* values of RWCNT the received frames have
  FrameMod,  \* bound: frames are numbered modulo this
  ERFM       \* MODE.ERFM: whether error frames are logged

\* RWCNT counts identifier, two timestamp words and the data words; the
\* longest frame fits the memory.  Its size is a power of two, of which only
\* matters that it is a multiple of the shortest frame's four words.
ASSUME RxBufferAssumption ==
  /\ Size \in Nat \ {0} /\ Size % 4 = 0
  /\ Counts \subseteq 3..(Size - 1)
  /\ FrameMod \in Nat \ {0}
  /\ ERFM \in BOOLEAN

VARIABLES
  curr_state,         \* rx_buffer_fsm
  read_pointer, write_pointer, write_pointer_raw, write_pointer_ts,
  rx_mem_free_i, rx_mem_free_raw,
  frame_count, read_counter_q,
  commit_rx_frame, commit_overrun_abort,
  data_overrun_flg,   \* overrun as the software sees it
  data_overrun_i,     \* overrun of the frame being stored
  rx_buf_res,         \* the registered reset is active in this cycle
  ram, data_out,      \* memory and output register of its port B
  frame,              \* number of the frame being stored, or stored last
  rwcnt,              \* its RWCNT
  to_store            \* data words the CAN core has still to store

regs == <<read_pointer, write_pointer, write_pointer_raw, write_pointer_ts,
          rx_mem_free_i, rx_mem_free_raw, frame_count, read_counter_q,
          commit_rx_frame, commit_overrun_abort, data_overrun_flg>>
vars == <<regs, curr_state, data_overrun_i, rx_buf_res, ram, data_out, frame,
          rwcnt, to_store>>

Frames == 0..(FrameMod - 1)
Addrs  == 0..(Size - 1)
Words  == Frames \X (0..Size) \X (Counts \cup {0, 3})
Zero   == <<0, 1, 0>>    \* contents of a word never written

ErrStates == {"err_frame_format", "err_identifier", "err_ts_low",
              "err_ts_high"}
States    == ErrStates \cup
  {"idle", "frame_format", "identifier", "skip_ts_low", "skip_ts_high",
   "data", "end_ts_low", "end_ts_high"}

Commands == {"none", "store_metadata", "store_data", "rec_valid", "rec_abort"}
Accesses == SUBSET {"read", "rrb", "cdo"}

\* Pointers, counters and words of the RX buffer have their types.
BTypeOK ==
  /\ curr_state \in States
  /\ {read_pointer, write_pointer, write_pointer_raw, write_pointer_ts}
       \subseteq Addrs
  /\ {rx_mem_free_i, rx_mem_free_raw} \subseteq 0..Size
  /\ frame_count \in 0..(Size \div 4)
  /\ read_counter_q \in 0..(Size - 1)
  /\ {commit_rx_frame, commit_overrun_abort, data_overrun_flg, data_overrun_i,
      rx_buf_res} \subseteq BOOLEAN
  /\ ram \in [Addrs -> Words]
  /\ data_out \in Words
  /\ frame \in Frames
  /\ rwcnt \in Counts \cup {3}
  /\ to_store \in 0..Size

Init ==
  /\ curr_state = "idle"
  /\ read_pointer = 0
  /\ write_pointer = 0
  /\ write_pointer_raw = 0
  /\ write_pointer_ts = 0
  /\ rx_mem_free_i = Size
  /\ rx_mem_free_raw = Size
  /\ frame_count = 0
  /\ read_counter_q = 0
  /\ commit_rx_frame = FALSE
  /\ commit_overrun_abort = FALSE
  /\ data_overrun_flg = FALSE
  /\ data_overrun_i = FALSE
  /\ rx_buf_res = FALSE
  /\ ram = [a \in Addrs |-> Zero]
  /\ data_out = Zero
  /\ frame = 0
  /\ rwcnt = 3
  /\ to_store = 0

-----------------------------------------------------------------------------
(* The CAN core.  Its commands come at sample points, so that two of them   *)
(* are at least one bit time, and with it the five cycles the FSM may be    *)
(* busy, apart.                                                             *)

Legal(cmd) ==
  CASE cmd = "none"           -> TRUE
    [] cmd = "store_metadata" -> curr_state = "idle"
    [] cmd = "store_data"     -> curr_state = "data" /\ to_store > 0
    [] cmd = "rec_valid"      -> curr_state = "data" /\ to_store = 0
    [] cmd = "rec_abort"      ->
         \/ curr_state \in {"frame_format", "data"}
         \/ /\ curr_state = "idle"
            /\ ~commit_rx_frame /\ ~commit_overrun_abort

-----------------------------------------------------------------------------
(* rx_buffer_fsm                                                            *)

NextState(cmd) ==
  LET aborted == IF ERFM THEN "err_frame_format" ELSE "idle" IN
  CASE curr_state = "idle" ->
         IF cmd = "store_metadata" THEN "frame_format"
         ELSE IF cmd = "rec_abort" THEN aborted ELSE "idle"
    [] curr_state = "frame_format" ->
         IF cmd = "rec_abort" THEN aborted ELSE "identifier"
    [] curr_state = "identifier"       -> "skip_ts_low"
    [] curr_state = "skip_ts_low"      -> "skip_ts_high"
    [] curr_state = "skip_ts_high"     -> "data"
    [] curr_state = "data" ->
         IF cmd = "rec_abort" THEN aborted
         ELSE IF cmd = "rec_valid" THEN "end_ts_low" ELSE "data"
    [] curr_state = "end_ts_low"       -> "end_ts_high"
    [] curr_state = "end_ts_high"      -> "idle"
    [] curr_state = "err_frame_format" -> "err_identifier"
    [] curr_state = "err_identifier"   -> "err_ts_low"
    [] curr_state = "err_ts_low"       -> "err_ts_high"
    [] curr_state = "err_ts_high"      -> "idle"

WriteRawIntent(cmd) ==
  \/ curr_state \in ErrStates \cup {"identifier", "skip_ts_low", "skip_ts_high"}
  \/ curr_state = "frame_format" /\ cmd # "rec_abort"
  \/ curr_state = "data" /\ cmd = "store_data"

SelectTsWptr     == curr_state \in {"end_ts_low", "end_ts_high"}
CommitIntent     == curr_state \in {"end_ts_high", "err_ts_high"}
ResetOverrunFlag == curr_state = "idle"

-----------------------------------------------------------------------------
(* rx_buffer                                                                *)

ReadIncrement(sw) == "read" \in sw /\ frame_count > 0

IsFreeWord == ~(read_pointer = write_pointer_raw /\ frame_count > 0)

OverrunCondition(cmd) == WriteRawIntent(cmd) /\ ~IsFreeWord

WriteRawOK(cmd) ==
  WriteRawIntent(cmd) /\ ~OverrunCondition(cmd) /\ ~data_overrun_i

\* The word data_selector picks: its position in the frame, and RWCNT in the
\* frame format word.  The timestamp is left zero until the frame ends.
DataIn ==
  CASE curr_state \in {"frame_format", "err_frame_format"} -> <<frame, 0, rwcnt>>
    [] curr_state \in {"identifier", "err_identifier"}     -> <<frame, 1, 0>>
    [] curr_state \in {"end_ts_low", "err_ts_low"}         -> <<frame, 2, 0>>
    [] curr_state \in {"end_ts_high", "err_ts_high"}       -> <<frame, 3, 0>>
    [] curr_state = "data" -> <<frame, (rwcnt - to_store) + 1, 0>>
    [] OTHER               -> Zero

PortAAddress == IF SelectTsWptr THEN write_pointer_ts ELSE write_pointer_raw

PortAWrite(cmd) ==
  \/ WriteRawOK(cmd)
  \/ SelectTsWptr /\ ~data_overrun_i /\ ~OverrunCondition(cmd)

\* read_pointer_proc, and the address of port B, which runs ahead with it.
ReadPointer(sw) ==
  IF ReadIncrement(sw) THEN (read_pointer + 1) % Size ELSE read_pointer

RamClkEn(cmd, sw) == PortAWrite(cmd) \/ "read" \in sw

Ram(cmd, sw) ==
  /\ ram' = IF PortAWrite(cmd) THEN [ram EXCEPT ![PortAAddress] = DataIn]
            ELSE ram
  /\ data_out' = IF RamClkEn(cmd, sw) THEN ram[ReadPointer(sw)] ELSE data_out

\* read_frame_proc: RWCNT is loaded with the frame format word.
ReadCounter(sw) ==
  IF ~ReadIncrement(sw) THEN read_counter_q
  ELSE IF read_counter_q > 0 THEN read_counter_q - 1 ELSE data_out[3]

\* Faulty variant: a commit in the cycle of the last read is not counted.
FrameCountLoses(sw) ==
  IF ReadIncrement(sw) /\ read_counter_q = 1 THEN frame_count - 1
  ELSE IF commit_rx_frame THEN frame_count + 1
  ELSE frame_count

\* frame_count_ctr_proc
FrameCount(sw) ==
  IF ReadIncrement(sw) /\ read_counter_q = 1
  THEN IF commit_rx_frame THEN frame_count ELSE frame_count - 1
  ELSE IF commit_rx_frame THEN frame_count + 1
  ELSE frame_count

\* Faulty variant: RRB leaves the frame being stored alone.
InternalOverrunNoRrb(cmd, sw) ==
  \/ OverrunCondition(cmd)
  \/ data_overrun_i /\ ~ResetOverrunFlag

\* internal_dor_proc: marks the frame being stored as not to be committed.
InternalOverrun(cmd, sw) ==
  \/ OverrunCondition(cmd)
  \/ "rrb" \in sw
  \/ data_overrun_i /\ ~ResetOverrunFlag

-----------------------------------------------------------------------------
(* rx_buffer_pointers                                                       *)

AbortApplied(cmd) == cmd = "rec_abort" \/ commit_overrun_abort

WritePointerRaw(cmd) ==
  IF WriteRawOK(cmd) THEN (write_pointer_raw + 1) % Size
  ELSE IF AbortApplied(cmd) THEN write_pointer
  ELSE write_pointer_raw

WritePointerTs ==
  IF curr_state = "skip_ts_low" THEN write_pointer_raw
  ELSE IF curr_state = "end_ts_low" THEN (write_pointer_ts + 1) % Size
  ELSE write_pointer_ts

One(b) == IF b THEN 1 ELSE 0

MemFreeRaw(cmd, sw) ==
  IF AbortApplied(cmd) THEN rx_mem_free_i + One(ReadIncrement(sw))
  ELSE (rx_mem_free_raw + One(ReadIncrement(sw))) - One(WriteRawOK(cmd))

MemFree(sw) ==
  (IF commit_rx_frame THEN rx_mem_free_raw ELSE rx_mem_free_i)
    + One(ReadIncrement(sw))

-----------------------------------------------------------------------------
(* One clock cycle                                                          *)

\* What a register that RRB resets holds after the clock edge.
Reg(clocked, reset) == IF rx_buf_res \/ rx_buf_res' THEN reset ELSE clocked

Regs(cmd, sw) ==
  /\ read_pointer' = Reg(ReadPointer(sw), 0)
  /\ write_pointer' =
       Reg(IF commit_rx_frame THEN write_pointer_raw ELSE write_pointer, 0)
  /\ write_pointer_raw' = Reg(WritePointerRaw(cmd), 0)
  /\ write_pointer_ts' = Reg(WritePointerTs, 0)
  /\ rx_mem_free_i' = Reg(MemFree(sw), Size)
  /\ rx_mem_free_raw' = Reg(MemFreeRaw(cmd, sw), Size)
  /\ frame_count' = Reg(FrameCount(sw), 0)
  /\ read_counter_q' = Reg(ReadCounter(sw), 0)
  /\ commit_rx_frame' =
       Reg(CommitIntent /\ (commit_rx_frame \/ ~data_overrun_i), FALSE)
  /\ commit_overrun_abort' =
       Reg(CommitIntent /\ (commit_overrun_abort \/ data_overrun_i), FALSE)
  /\ data_overrun_flg' =
       Reg("cdo" \notin sw /\ (data_overrun_flg \/ OverrunCondition(cmd)), FALSE)

\* The frame on the bus: a new one starts with its metadata, and an error
\* frame takes the place of the one it destroys.
Core(cmd) ==
  \/ /\ cmd = "store_metadata"
     /\ frame' = (frame + 1) % FrameMod
     /\ rwcnt' \in Counts
     /\ to_store' = rwcnt' - 3
  \/ /\ cmd = "rec_abort"
     /\ frame' = (frame + 1) % FrameMod
     /\ rwcnt' = 3
     /\ to_store' = 0
  \/ /\ cmd = "store_data"
     /\ to_store' = to_store - 1
     /\ UNCHANGED <<frame, rwcnt>>
  \/ /\ cmd \in {"none", "rec_valid"}
     /\ UNCHANGED <<frame, rwcnt, to_store>>

Tick(cmd, sw) ==
  /\ Legal(cmd)
  /\ curr_state' = NextState(cmd)
  /\ rx_buf_res' = ("rrb" \in sw)
  /\ Regs(cmd, sw)
  /\ data_overrun_i' = InternalOverrun(cmd, sw)
  /\ Ram(cmd, sw)
  /\ Core(cmd)

Next == \E cmd \in Commands, sw \in Accesses : Tick(cmd, sw)
Spec == Init /\ [][Next]_vars

-----------------------------------------------------------------------------
(* Properties                                                               *)

Used == Size - rx_mem_free_i

\* The words the software has still to read.
Visible == [i \in 1..Used |-> ram[((read_pointer + i) - 1) % Size]]

Fifo == INSTANCE RxFrameFifo WITH Counts <- Counts \cup {3}, words <- Visible

\* The buffer implements a FIFO of whole frames: whatever is stored, aborted,
\* overrun or released meanwhile, the software sees the words of committed
\* frames, complete and unmixed, and nothing else.
ImplementsFrameFifo == Fifo!Spec

\* RX_STATUS.RXFRC counts the frames of which a word is still to be read.
FrameCountExact ==
  LET starts == Cardinality({i \in 1..Used : Visible[i][2] = 0}) IN
  frame_count = IF Used > 0 /\ Visible[1][2] # 0 THEN starts + 1 ELSE starts

\* The free-memory counters agree with the pointers they are computed beside,
\* for the committed words and for the ones of the frame being stored.
MemFreeExact ==
  /\ rx_mem_free_raw <= rx_mem_free_i
  /\ (read_pointer + Used) % Size = write_pointer
  /\ (read_pointer + (Size - rx_mem_free_raw)) % Size = write_pointer_raw

\* Although the memory is clocked only on writes and reads, its output is the
\* word at the read pointer whenever there is something to read.
DataOutFresh == frame_count > 0 => data_out = ram[read_pointer]

\* What the software reads of the buffer is exact in every cycle, whatever is written,
\* committed, aborted, released and read in the same one: the frame count, the free
\* memory and the word on RX_DATA (rx_buffer.vhd, rx_buffer_pointers.vhd).
OutputsExact == BTypeOK /\ FrameCountExact /\ MemFreeExact /\ DataOutFresh

\* A frame is committed only with all the words its RWCNT announces.
CommittedWhole ==
  commit_rx_frame =>
    (write_pointer_raw - write_pointer) % Size = ram[write_pointer][3] + 1
=============================================================================
