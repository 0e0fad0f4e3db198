------------------------ MODULE TxArbitration_proofs -------------------------
(***************************************************************************)
(* Proofs about the transmit path of the core, for every number of TXT     *)
(* buffers, all frames and priorities and all configurations.  The first   *)
(* part is about the tree of comparators of priority_decoder.vhd.          *)
(***************************************************************************)
EXTENDS TxArbitration, TLAPS

\* n is the winner of the leaves lo .. hi: valid exactly when one of them is,
\* and then the best one.
WinnerOf(n, valid, level, lo, hi) ==
    /\ n.index \in lo .. hi
    /\ n.valid = valid[n.index]
    /\ n.prio = level[n.index]
    /\ \A j \in lo .. hi : valid[j] =>
          /\ n.valid
          /\ level[j] < n.prio \/ (level[j] = n.prio /\ n.index <= j)

\* A comparator of level 1 or 2 joins the winners of two adjacent ranges.
LEMMA JoinWins ==
  ASSUME NEW valid \in [D!Leaves -> BOOLEAN], NEW level \in [D!Leaves -> Nat],
         NEW lo \in D!Leaves, NEW mid \in D!Leaves, NEW hi \in D!Leaves,
         lo <= mid, mid < hi,
         NEW a, NEW b,
         WinnerOf(a, valid, level, lo, mid), WinnerOf(b, valid, level, mid + 1, hi)
  PROVE  WinnerOf(D!Join(a, b), valid, level, lo, hi)
<1>1. lo .. mid \subseteq D!Leaves /\ (mid + 1) .. hi \subseteq D!Leaves
  BY DEF D!Leaves
<1>2. /\ a.index \in D!Leaves /\ a.valid \in BOOLEAN /\ a.prio \in Nat
      /\ b.index \in D!Leaves /\ b.valid \in BOOLEAN /\ b.prio \in Nat
  BY <1>1, Zenon DEF WinnerOf
<1>3. ASSUME NEW j \in lo .. hi
      PROVE  j \in lo .. mid \/ j \in (mid + 1) .. hi
  BY DEF D!Leaves
<1>4. CASE a.valid /\ (b.valid => b.prio <= a.prio)
  <2>1. D!Join(a, b) = a
    BY <1>4, Zenon DEF D!Join
  <2>2. ASSUME NEW j \in lo .. hi, valid[j]
        PROVE  level[j] < a.prio \/ (level[j] = a.prio /\ a.index <= j)
    <3>1. CASE j \in lo .. mid
      BY <2>2, <3>1, Zenon DEF WinnerOf
    <3>2. CASE j \in (mid + 1) .. hi
      <4>1. b.valid /\ level[j] <= b.prio /\ level[j] \in Nat
        BY <1>1, <1>2, <2>2, <3>2 DEF WinnerOf
      <4>2. a.index <= mid
        BY DEF WinnerOf, D!Leaves
      <4> QED
        BY <1>2, <1>4, <3>2, <4>1, <4>2 DEF D!Leaves
    <3> QED
      BY <1>3, <3>1, <3>2, Zenon
  <2>3. a.index \in lo .. hi
    BY DEF WinnerOf, D!Leaves
  <2> QED
    BY <1>4, <2>1, <2>2, <2>3, Zenon DEF WinnerOf
<1>5. CASE ~(a.valid /\ (b.valid => b.prio <= a.prio))
  <2>1. D!Join(a, b) = b
    BY <1>5, Zenon DEF D!Join
  <2>2. ASSUME NEW j \in lo .. hi, valid[j]
        PROVE  /\ b.valid
               /\ level[j] < b.prio \/ (level[j] = b.prio /\ b.index <= j)
    <3>1. CASE j \in lo .. mid
      <4>1. a.valid /\ level[j] <= a.prio /\ level[j] \in Nat
        BY <1>1, <1>2, <2>2, <3>1 DEF WinnerOf
      <4>2. b.valid /\ ~(b.prio <= a.prio)
        BY <1>5, <4>1, Zenon
      <4> QED
        BY <1>2, <4>1, <4>2
    <3>2. CASE j \in (mid + 1) .. hi
      BY <2>2, <3>2, Zenon DEF WinnerOf
    <3> QED
      BY <1>3, <3>1, <3>2, Zenon
  <2>3. b.index \in lo .. hi
    BY DEF WinnerOf, D!Leaves
  <2> QED
    BY <2>1, <2>2, <2>3, Zenon DEF WinnerOf
<1> QED
  BY <1>4, <1>5, Zenon

\* So does the comparator of level 3, which points down when nothing is valid.
LEMMA RootWins ==
  ASSUME NEW valid \in [D!Leaves -> BOOLEAN], NEW level \in [D!Leaves -> Nat],
         NEW a, NEW b,
         WinnerOf(a, valid, level, 0, 3), WinnerOf(b, valid, level, 4, 7)
  PROVE  WinnerOf(D!Root(a, b), valid, level, 0, 7)
<1>1. 0 .. 3 \subseteq D!Leaves /\ 4 .. 7 \subseteq D!Leaves
  BY DEF D!Leaves
<1>2. /\ a.index \in D!Leaves /\ a.valid \in BOOLEAN /\ a.prio \in Nat
      /\ b.index \in D!Leaves /\ b.valid \in BOOLEAN /\ b.prio \in Nat
  BY <1>1, Zenon DEF WinnerOf
<1>3. ASSUME NEW j \in 0 .. 7
      PROVE  j \in 0 .. 3 \/ j \in 4 .. 7
  OBVIOUS
<1>4. CASE b.valid /\ (a.valid => a.prio < b.prio)
  <2>1. D!Root(a, b) = b
    BY <1>4, Zenon DEF D!Root
  <2>2. ASSUME NEW j \in 0 .. 7, valid[j]
        PROVE  level[j] < b.prio \/ (level[j] = b.prio /\ b.index <= j)
    <3>1. CASE j \in 0 .. 3
      <4>1. a.valid /\ level[j] <= a.prio /\ level[j] \in Nat
        BY <1>1, <1>2, <2>2, <3>1 DEF WinnerOf
      <4> QED
        BY <1>2, <1>4, <4>1
    <3>2. CASE j \in 4 .. 7
      BY <2>2, <3>2, Zenon DEF WinnerOf
    <3> QED
      BY <1>3, <3>1, <3>2, Zenon
  <2>3. b.index \in 0 .. 7
    BY DEF WinnerOf
  <2> QED
    BY <1>4, <2>1, <2>2, <2>3, Zenon DEF WinnerOf
<1>5. CASE ~(b.valid /\ (a.valid => a.prio < b.prio))
  <2>1. D!Root(a, b) = a
    BY <1>5, Zenon DEF D!Root
  <2>2. ASSUME NEW j \in 0 .. 7, valid[j]
        PROVE  /\ a.valid
               /\ level[j] < a.prio \/ (level[j] = a.prio /\ a.index <= j)
    <3>1. CASE j \in 0 .. 3
      BY <2>2, <3>1, Zenon DEF WinnerOf
    <3>2. CASE j \in 4 .. 7
      <4>1. b.valid /\ level[j] <= b.prio /\ level[j] \in Nat
        BY <1>1, <1>2, <2>2, <3>2 DEF WinnerOf
      <4>2. a.valid /\ ~(a.prio < b.prio)
        BY <1>5, <4>1, Zenon
      <4>3. a.index <= 3
        BY DEF WinnerOf
      <4> QED
        BY <1>2, <3>2, <4>1, <4>2, <4>3 DEF D!Leaves
    <3> QED
      BY <1>3, <3>1, <3>2, Zenon
  <2>3. a.index \in 0 .. 7
    BY DEF WinnerOf
  <2> QED
    BY <2>1, <2>2, <2>3, Zenon DEF WinnerOf
<1> QED
  BY <1>4, <1>5, Zenon

\* The decoder outputs a valid index exactly when a buffer is available, and
\* then the available buffer with the highest priority, the lowest index among
\* equals.
THEOREM DecoderPicksBest ==
  ASSUME NEW valid \in [D!Leaves -> BOOLEAN], NEW level \in [D!Leaves -> Nat]
  PROVE  LET w == D!Winner(valid, level)
         IN  /\ w.index \in D!Leaves /\ w.valid \in BOOLEAN
             /\ w.valid <=> \E j \in D!Leaves : valid[j]
             /\ w.valid => D!IsBest(valid, level, w.index)
<1> DEFINE LeafOf(i) == D!Leaf(valid, level, i)
<1>1. ASSUME NEW i \in D!Leaves
      PROVE  WinnerOf(LeafOf(i), valid, level, i, i)
  <2>1. level[i] \in Nat /\ valid[i] \in BOOLEAN
    BY Zenon
  <2>2. \A j \in i .. i : j = i
    BY DEF D!Leaves
  <2> QED
    BY <2>1, <2>2 DEF WinnerOf, D!Leaf, D!Leaves
<1>2. ASSUME NEW i \in 0 .. 3
      PROVE  WinnerOf(D!Pair(valid, level, i), valid, level, 2 * i, 2 * i + 1)
  <2>1. 2 * i \in D!Leaves /\ 2 * i + 1 \in D!Leaves
    BY DEF D!Leaves
  <2>2. /\ WinnerOf(LeafOf(2 * i), valid, level, 2 * i, 2 * i)
        /\ WinnerOf(LeafOf(2 * i + 1), valid, level, 2 * i + 1, 2 * i + 1)
    BY <1>1, <2>1, Zenon
  <2>3. 2 * i <= 2 * i /\ 2 * i < 2 * i + 1
    OBVIOUS
  <2> HIDE DEF LeafOf
  <2>4. WinnerOf(D!Join(LeafOf(2 * i), LeafOf(2 * i + 1)), valid, level, 2 * i, 2 * i + 1)
    BY <2>1, <2>2, <2>3, JoinWins, Zenon
  <2> QED
    BY <2>4, Zenon DEF D!Pair, LeafOf
<1>3. /\ WinnerOf(D!Pair(valid, level, 0), valid, level, 0, 1)
      /\ WinnerOf(D!Pair(valid, level, 1), valid, level, 2, 3)
      /\ WinnerOf(D!Pair(valid, level, 2), valid, level, 4, 5)
      /\ WinnerOf(D!Pair(valid, level, 3), valid, level, 6, 7)
  BY <1>2
<1>4. WinnerOf(D!Half(valid, level, 0), valid, level, 0, 3)
  <2>1. WinnerOf(D!Join(D!Pair(valid, level, 0), D!Pair(valid, level, 1)), valid, level, 0, 3)
    BY <1>3, JoinWins DEF D!Leaves
  <2> QED
    BY <2>1 DEF D!Half
<1>5. WinnerOf(D!Half(valid, level, 1), valid, level, 4, 7)
  <2>1. WinnerOf(D!Join(D!Pair(valid, level, 2), D!Pair(valid, level, 3)), valid, level, 4, 7)
    BY <1>3, JoinWins DEF D!Leaves
  <2> QED
    BY <2>1 DEF D!Half
<1>6. WinnerOf(D!Winner(valid, level), valid, level, 0, 7)
  BY <1>4, <1>5, RootWins, Zenon DEF D!Winner
<1> QED
  BY <1>6, Zenon DEF WinnerOf, D!IsBest, D!Leaves

-----------------------------------------------------------------------------
(* The inductive invariant                                                  *)

\* Protocol control, arbitrator and buffers are at matching points of a
\* transmission: a command is on its way, has been taken, or there is none.
PhaseInv ==
    /\ txtb_hw_cmd_q = "lock" =>
          /\ pc = "tx" /\ arb_state \in Selecting \cup {"validated"}
          /\ txtb_state[curr_txtb_index] = "ready"
    /\ txtb_hw_cmd_q \in Unlocks => pc \in {"idle", "err"} /\ arb_state = "locked"
    /\ arb_state = "locked" => pc \in {"tx", "parity"} \/ txtb_hw_cmd_q \in Unlocks
    /\ pc = "tx" => \/ txtb_hw_cmd_q = "lock"
                    \/ /\ txtb_hw_cmd_q = "none" /\ arb_state = "locked"
                       /\ txtb_state[curr_txtb_index] \in InProgress
    /\ pc = "parity" => txtb_hw_cmd_q = "none" /\ arb_state = "locked"
    /\ bus_off => pc = "idle" /\ txtb_hw_cmd_q = "none"
    /\ \A b \in Bufs : txtb_state[b] \in InProgress =>
          b = curr_txtb_index /\ arb_state = "locked"

\* The format word read last is that of the frame the selected buffer holds, as
\* long as the software has not got that buffer back.
SelectInv ==
    /\ arb_state = "sel_idw" /\ txtb_state[select_buf_index_reg] = "ready" =>
          dbl_buf = ram[select_buf_index_reg]
    /\ ValidatedIsSelected

\* How many undisturbed cycles can at most have passed at each point of the
\* validation.
LastCycle == [sel_low_ts |-> 2, sel_upp_ts |-> 4, sel_ftw |-> 6, sel_ffw |-> 8,
              sel_idw |-> 10]

Cycle ==
    IF arb_state \in Selecting
    THEN IF fsm_wait_state_q THEN LastCycle[arb_state] - 1 ELSE LastCycle[arb_state]
    ELSE IF arb_state = "validated" THEN ValidationTime ELSE 0

TimeInv == stable <= Cycle

-----------------------------------------------------------------------------
(* What the parts of a cycle do                                             *)

\* The mode bits are Boolean.
LEMMA ModeTypes ==
  ASSUME ATypeOK
  PROVE  mode.tttm \in BOOLEAN /\ mode.txbbm \in BOOLEAN /\ mode.tbfbo \in BOOLEAN
  BY TxArbitrationAssumption, Zenon DEF ATypeOK

\* Every buffer is a leaf of the decoder.
LEMMA BufferNumbers == NB \in 2 .. 8 /\ Bufs \subseteq D!Leaves /\ 0 \in Bufs
  BY TxtBuffersAssumption DEF Bufs, D!Leaves

\* The index register has as many values as there are buffers.
LEMMA IndexCut ==
  ASSUME NEW i \in D!Leaves
  PROVE  i % NB \in Bufs /\ (i \in Bufs => i % NB = i)
  BY BufferNumbers DEF Bufs, D!Leaves

\* The arbitrator selects an available buffer whenever there is one.
LEMMA SelectionBest ==
  ASSUME ATypeOK, NEW sw \in SwInputs
  PROVE  /\ Selection(sw).index \in Bufs
         /\ Selection(sw).avail \in BOOLEAN
         /\ Selection(sw).avail => Available(sw, mode.txbbm, Selection(sw).index)
         /\ \A b \in Bufs : Available(sw, mode.txbbm, b) => Selection(sw).avail
<1> DEFINE valid == [i \in D!Leaves |-> i \in Bufs /\ Available(sw, mode.txbbm, i)]
           level == [i \in D!Leaves |-> IF i \in Bufs THEN Priority(i) ELSE 0]
           w     == D!Winner(valid, level)
<1>1. valid \in [D!Leaves -> BOOLEAN]
  BY Zenon DEF Available
<1>2. level \in [D!Leaves -> Nat]
  <2>1. ASSUME NEW i \in Bufs
        PROVE  Priority(i) \in Nat
    <3>1. i % 2 = 1 => i - 1 \in Bufs
      BY BufferNumbers DEF Bufs
    <3> QED
      BY <3>1, TxtBuffersAssumption, Zenon DEF Priority, ATypeOK
  <2> QED
    BY <2>1, Zenon
<1>3. /\ w.index \in D!Leaves /\ w.valid \in BOOLEAN
      /\ w.valid <=> \E j \in D!Leaves : valid[j]
      /\ w.valid => D!IsBest(valid, level, w.index)
  <2> HIDE DEF valid, level
  <2> QED
    BY <1>1, <1>2, DecoderPicksBest, Zenon
<1>4. Selection(sw).avail = w.valid /\ Selection(sw).index = w.index % NB
  BY Zenon DEF Selection
<1>5. w.valid => w.index \in Bufs /\ Available(sw, mode.txbbm, w.index)
  BY <1>3, Zenon DEF D!IsBest
<1>6. w.index % NB \in Bufs /\ (w.index \in Bufs => w.index % NB = w.index)
  BY <1>3, IndexCut, Zenon
<1>7. \A b \in Bufs : Available(sw, mode.txbbm, b) => w.valid
  BY <1>3, BufferNumbers, Zenon
<1> HIDE DEF w
<1> QED
  BY <1>3, <1>4, <1>5, <1>6, <1>7, Zenon

\* One cycle of a TXT buffer, as far as the invariants need it.
LEMMA BufferStep ==
  ASSUME ATypeOK, NEW sw \in SwInputs, NEW perr, NEW b \in Bufs,
         BuffersTick(sw, txtb_hw_cmd_q, curr_txtb_index, perr,
                     mode.txbbm, mode.tbfbo, bus_off)
  PROVE  /\ txtb_state'[b] \in TxtStates
         /\ txtb_state[b] = "ready" => ram'[b] = ram[b]
         /\ /\ Available(sw, mode.txbbm, b) /\ txtb_hw_cmd_q = "none"
            /\ b \notin perr /\ ~bus_off
            => txtb_state'[b] = "ready"
         /\ txtb_state'[b] \in InProgress =>
               \/ txtb_state[b] \in InProgress
               \/ b = curr_txtb_index /\ txtb_hw_cmd_q = "lock"
         /\ /\ b = curr_txtb_index /\ txtb_state[b] = "ready" /\ txtb_hw_cmd_q = "lock"
            /\ b \notin perr /\ ~bus_off
            => txtb_state'[b] \in InProgress
         /\ /\ txtb_state[b] \in InProgress /\ txtb_hw_cmd_q = "none"
            /\ b \notin perr /\ ~bus_off
            => txtb_state'[b] \in InProgress
         /\ b = curr_txtb_index /\ txtb_hw_cmd_q \in Unlocks => txtb_state'[b] \notin InProgress
         /\ /\ b = curr_txtb_index /\ txtb_hw_cmd_q \in {"err", "arbl"}
            /\ txtb_state[b] = "tx_prog" /\ ~bus_off
            => txtb_state'[b] \notin {"ok", "failed"}
<1> DEFINE hw   == HwCmd(b, txtb_hw_cmd_q, curr_txtb_index)
           cr   == Commanded(sw, "cr", mode.txbbm, b)
           ce   == Commanded(sw, "ce", mode.txbbm, b)
           ca   == Commanded(sw, "ca", mode.txbbm, b)
           skip == /\ txtb_hw_cmd_q \in {"failed", "valid"}
                   /\ mode.txbbm /\ b % 2 = 1 /\ curr_txtb_index = b - 1 /\ TransientState(b - 1)
           gtf  == bus_off /\ mode.tbfbo
<1>1. txtb_state'[b] = NextState(b, hw, cr, ce, ca, skip, b \in perr, gtf)
  BY Zenon DEF BuffersTick
<1>2. txtb_state[b] \in TxtStates /\ hw \in HwCmds
  BY Zenon DEF ATypeOK, HwCmd, HwCmds
<1>3. ASSUME txtb_state[b] = "ready"
      PROVE  ram'[b] = ram[b]
  BY <1>3, Zenon DEF BuffersTick, UserAccessible, ATypeOK
<1>4. txtb_hw_cmd_q \in HwCmds
  BY Zenon DEF ATypeOK
<1>5. hw = IF b = curr_txtb_index THEN txtb_hw_cmd_q ELSE "none"
  BY Zenon DEF HwCmd
<1>6. txtb_hw_cmd_q = "none" => ~skip
  BY Zenon
<1>7. bus_off \/ ~gtf
  BY Zenon
<1>8. Available(sw, mode.txbbm, b) <=> txtb_state[b] = "ready" /\ ~ca
  BY Zenon DEF Available
<1> HIDE DEF hw, cr, ce, ca, skip, gtf
<1> QED
  BY <1>1, <1>2, <1>3, <1>4, <1>5, <1>6, <1>7, <1>8, Zenon
     DEF NextState, TxtStates, InProgress, HwCmds, Unlocks

\* One clock cycle with given inputs.
Edge(sw, bad, elapsed) ==
    /\ bad => BadWord
    /\ BuffersTick(sw, txtb_hw_cmd_q, curr_txtb_index, ParityErrors(Selection(sw), bad),
                   mode.txbbm, mode.tbfbo, bus_off)
    /\ ArbiterTick(Selection(sw), bad, elapsed)
    /\ ProtocolTick(sw, bad)
    /\ mode' = mode
    /\ stable' = IF Undisturbed(Selection(sw), elapsed) /\ arb_state' /= "idle"
                 THEN IF stable < ValidationTime THEN stable + 1 ELSE stable
                 ELSE 0

\* A tick is one clock edge with some inputs.
LEMMA TickIsEdge ==
  ASSUME Tick
  PROVE  \E sw \in SwInputs, bad \in BOOLEAN, elapsed \in BOOLEAN : Edge(sw, bad, elapsed)
  BY Zenon DEF Tick, Edge, Keep

\* Types are preserved.
LEMMA TypeStep ==
  ASSUME ATypeOK, NEW sw \in SwInputs, NEW bad \in BOOLEAN, NEW elapsed \in BOOLEAN,
         Edge(sw, bad, elapsed)
  PROVE  ATypeOK'
<1> DEFINE sel == Selection(sw)
<1>1. sel.index \in Bufs
  BY SelectionBest, Zenon
<1>2. txtb_state' \in [Bufs -> TxtStates]
  <2>1. \A b \in Bufs : txtb_state'[b] \in TxtStates
    BY BufferStep, Zenon DEF Edge
  <2>2. txtb_state' = [b \in Bufs |-> txtb_state'[b]]
    BY Zenon DEF Edge, BuffersTick
  <2> QED
    BY <2>1, <2>2, Zenon
<1>3. ram' \in [Bufs -> Frames] /\ prio' \in [Bufs -> Prios]
  <2>1. sw.kind = "frame" => sw.buf \in Bufs /\ sw.value \in Frames
    BY Zenon DEF SwInputs
  <2>2. sw.kind = "prio" => sw.buf \in Bufs /\ sw.value \in Prios
    BY Zenon DEF SwInputs
  <2> QED
    BY <2>1, <2>2, Zenon DEF Edge, BuffersTick, ATypeOK
<1>4. /\ arb_state' \in ArbStates /\ fsm_wait_state_q' \in BOOLEAN
      /\ tran_frame_valid_com' \in BOOLEAN
      /\ curr_txtb_index' \in Bufs /\ select_buf_index_reg' \in Bufs
      /\ dbl_buf' \in Metadata /\ com' \in [ffw : Metadata, idw : Metadata]
  <2>1. ArbiterTick(sel, bad, elapsed)
    BY Zenon DEF Edge
  <2> HIDE DEF sel
  <2>2. select_buf_index_reg' \in Bufs
    BY <1>1, <2>1, Zenon DEF ArbiterTick
  <2>3. CASE ArbRead(sel, bad, elapsed)
    <3>1. ram[sel.index] \in Frames
      BY <1>1, Zenon DEF ATypeOK
    <3>2. dbl_buf' \in Metadata /\ com' \in [ffw : Metadata, idw : Metadata] /\ curr_txtb_index' \in Bufs
      BY <1>1, <2>3, <3>1 DEF ArbRead, ATypeOK, Keep, KeepCommitted, Metadata
    <3>3. tran_frame_valid_com' \in BOOLEAN
      BY <2>3, Zenon DEF ArbRead, ATypeOK, Keep
    <3>4. arb_state' \in ArbStates /\ fsm_wait_state_q' \in BOOLEAN
      <4>1. NextWord[arb_state] \in ArbStates /\ arb_state \in ArbStates
        BY <2>3 DEF ArbRead, NextWord, Selecting, ArbStates
      <4>2. arb_state' \in {"idle", "sel_upp_ts", NextWord[arb_state]}
        BY <2>3, Zenon DEF ArbRead, Goto
      <4>3. fsm_wait_state_q' \in BOOLEAN
        BY <2>3, Zenon DEF ArbRead, Goto
      <4> QED
        BY <4>1, <4>2, <4>3, Zenon DEF ArbStates, Selecting
    <3> QED
      BY <2>2, <3>2, <3>3, <3>4, Zenon
  <2>4. CASE ~ArbRead(sel, bad, elapsed)
    <3>1. dbl_buf' = dbl_buf /\ com' = com /\ curr_txtb_index' = curr_txtb_index
      BY <2>1, <2>4, Zenon DEF ArbiterTick, ArbIdle, ArbLock, ArbNoBuffer, ArbReselect, ArbHold, ArbLocked,
                        Keep, KeepMetadata, KeepCommitted
    <3>2. tran_frame_valid_com' \in {tran_frame_valid_com, FALSE}
      BY <2>1, <2>4, Zenon DEF ArbiterTick, ArbIdle, ArbLock, ArbNoBuffer, ArbReselect, ArbHold, ArbLocked, Keep
    <3>3. fsm_wait_state_q' \in {TRUE, FALSE} /\ arb_state' \in ArbStates
      BY <2>1, <2>4, Zenon DEF ArbiterTick, ArbIdle, ArbLock, ArbNoBuffer, ArbReselect, ArbHold, ArbLocked, Goto,
                        ArbStates, Selecting, ATypeOK
    <3> QED
      BY <2>2, <3>1, <3>2, <3>3, Zenon DEF ATypeOK
  <2> QED
    BY <2>3, <2>4, Zenon
<1>5. txtb_hw_cmd_q' \in HwCmds /\ pc' \in PcPhases /\ bus_off' \in BOOLEAN
  <2>1. ProtocolTick(sw, bad)
    BY Zenon DEF Edge
  <2>2. bus_off' = bus_off \/ bus_off' \in BOOLEAN
    BY <2>1, Zenon DEF ProtocolTick, PcNothing, PcLock, PcFinish, PcError, PcParity, PcErrorEnd, PcReintegrate, Keep
  <2>3. txtb_hw_cmd_q' \in HwCmds /\ pc' \in PcPhases
    BY <2>1, Zenon
       DEF ProtocolTick, PcNothing, PcLock, PcFinish, PcError, PcParity, PcErrorEnd, PcReintegrate, Issue,
                HwCmds, PcPhases, ATypeOK
  <2> QED
    BY <2>2, <2>3, Zenon DEF ATypeOK
<1>6. stable' \in 0 .. ValidationTime /\ mode' \in Modes
  BY DEF Edge, ATypeOK, ValidationTime
<1> QED
  BY <1>2, <1>3, <1>4, <1>5, <1>6, Zenon DEF ATypeOK

\* A buffer that is selected again is ready, and its frame stays in it.
LEMMA SelectedAgain ==
  ASSUME ATypeOK, NEW sw \in SwInputs, NEW bad \in BOOLEAN, NEW elapsed \in BOOLEAN,
         Edge(sw, bad, elapsed), Selection(sw).avail
  PROVE  /\ txtb_state[Selection(sw).index] = "ready"
         /\ ram'[Selection(sw).index] = ram[Selection(sw).index]
<1>1. Selection(sw).index \in Bufs /\ Available(sw, mode.txbbm, Selection(sw).index)
  BY SelectionBest, Zenon
<1>2. txtb_state[Selection(sw).index] = "ready"
  BY <1>1, Zenon DEF Available
<1> QED
  BY <1>1, <1>2, BufferStep, Zenon DEF Edge

\* What the double buffers hold is of the selected frame.
LEMMA SelectStep ==
  ASSUME ATypeOK, SelectInv, NEW sw \in SwInputs, NEW bad \in BOOLEAN, NEW elapsed \in BOOLEAN,
         Edge(sw, bad, elapsed)
  PROVE  SelectInv'
<1> DEFINE sel == Selection(sw)
<1>1. ATypeOK'
  BY TypeStep, Zenon
<1>2. sel.avail => /\ txtb_state[sel.index] = "ready"
                   /\ ram'[sel.index] = ram[sel.index]
  BY SelectedAgain, Zenon
<1>3. ArbiterTick(sel, bad, elapsed) /\ select_buf_index_reg' = sel.index
  BY Zenon DEF Edge, ArbiterTick
<1> HIDE DEF sel
<1>4. SUFFICES
        /\ arb_state' = "sel_idw" /\ txtb_state'[select_buf_index_reg'] = "ready" =>
              dbl_buf' = ram'[select_buf_index_reg']
        /\ tran_frame_valid_com' => com'.ffw = com'.idw
        /\ arb_state' = "validated" =>
            /\ tran_frame_valid_com'
            /\ curr_txtb_index' = select_buf_index_reg'
            /\ txtb_state'[curr_txtb_index'] = "ready" => com'.idw = ram'[curr_txtb_index']
  BY <1>1, Zenon DEF SelectInv, ValidatedIsSelected
<1>5. CASE ArbRead(sel, bad, elapsed)
  <2>1. sel.avail /\ sel.index = select_buf_index_reg
    BY <1>5, Zenon DEF ArbRead, SelectIndexChanged
  <2>2. arb_state' = "sel_idw" => arb_state = "sel_ffw" /\ dbl_buf' = ram[sel.index]
    BY <1>5 DEF ArbRead, Goto, NextWord, Selecting
  <2>3. CASE arb_state = "sel_idw" /\ ~ParityErrorVld(bad)
    <3>1. dbl_buf = ram[sel.index]
      BY <1>2, <2>1, <2>3, Zenon DEF SelectInv
    <3>2. /\ com' = [ffw |-> dbl_buf, idw |-> ram[sel.index]]
          /\ curr_txtb_index' = sel.index
          /\ tran_frame_valid_com' = TRUE
      BY <1>5, <2>3, Zenon DEF ArbRead
    <3> QED
      BY <1>2, <1>3, <2>1, <2>2, <2>3, <3>1, <3>2, Zenon
  <2>4. CASE ~(arb_state = "sel_idw" /\ ~ParityErrorVld(bad))
    <3>1. com' = com /\ tran_frame_valid_com' = tran_frame_valid_com
      BY <1>5, <2>4, Zenon DEF ArbRead, KeepCommitted, Keep
    <3>2. arb_state' /= "validated"
      BY <1>5, <2>4 DEF ArbRead, Goto, NextWord, Selecting
    <3> QED
      BY <1>2, <1>3, <2>1, <2>2, <3>1, <3>2, Zenon DEF SelectInv, ValidatedIsSelected
  <2> QED
    BY <2>3, <2>4, Zenon
<1>6. CASE ArbHold(sel)
  <2>1. sel.avail /\ sel.index = select_buf_index_reg /\ arb_state' = arb_state
    BY <1>6, Zenon DEF ArbHold, SelectIndexChanged, Goto
  <2>2. /\ dbl_buf' = dbl_buf /\ com' = com /\ curr_txtb_index' = curr_txtb_index
        /\ tran_frame_valid_com' = tran_frame_valid_com
    BY <1>6, Zenon DEF ArbHold, Keep, KeepMetadata, KeepCommitted
  <2> QED
    BY <1>2, <1>3, <2>1, <2>2, Zenon DEF SelectInv, ValidatedIsSelected
<1>7. CASE ~ArbRead(sel, bad, elapsed) /\ ~ArbHold(sel)
  <2>1. arb_state' \in {"idle", "sel_low_ts", "locked"}
    BY <1>3, <1>7, Zenon DEF ArbiterTick, ArbIdle, ArbLock, ArbNoBuffer, ArbReselect, ArbLocked, Goto
  <2>2. com' = com
    BY <1>3, <1>7, Zenon DEF ArbiterTick, ArbIdle, ArbLock, ArbNoBuffer, ArbReselect, ArbLocked,
                      Keep, KeepMetadata, KeepCommitted
  <2>3. tran_frame_valid_com' => tran_frame_valid_com
    BY <1>3, <1>7, Zenon DEF ArbiterTick, ArbIdle, ArbLock, ArbNoBuffer, ArbReselect, ArbLocked, Keep
  <2> QED
    BY <2>1, <2>2, <2>3, Zenon DEF SelectInv, ValidatedIsSelected
<1> QED
  BY <1>5, <1>6, <1>7, Zenon

\* An undisturbed cycle brings the validation one cycle further.
LEMMA TimeStep ==
  ASSUME ATypeOK, SelectInv, TimeInv, NEW sw \in SwInputs, NEW bad \in BOOLEAN,
         NEW elapsed \in BOOLEAN, Edge(sw, bad, elapsed)
  PROVE  TimeInv'
<1> DEFINE sel == Selection(sw)
<1>1. /\ ArbiterTick(sel, bad, elapsed)
      /\ stable' = IF Undisturbed(sel, elapsed) /\ arb_state' /= "idle"
                   THEN IF stable < ValidationTime THEN stable + 1 ELSE stable
                   ELSE 0
  BY Zenon DEF Edge
<1>2. stable \in 0 .. 11 /\ arb_state \in ArbStates /\ fsm_wait_state_q \in BOOLEAN
  BY Zenon DEF ATypeOK, ValidationTime
<1>3. arb_state' \in ArbStates /\ fsm_wait_state_q' \in BOOLEAN
  BY TypeStep, Zenon DEF ATypeOK
<1> HIDE DEF sel
<1>4. Cycle' >= 0
  BY <1>3 DEF Cycle, LastCycle, Selecting, ValidationTime
<1>5. CASE Undisturbed(sel, elapsed) /\ arb_state' /= "idle"
  <2>1. /\ arb_state /= "locked" /\ txtb_hw_cmd_q /= "lock"
        /\ sel.avail /\ ~SelectIndexChanged(sel) /\ elapsed
    BY <1>5, Zenon DEF Undisturbed
  <2>2. ArbIdle(sel) \/ ArbHold(sel) \/ ArbRead(sel, bad, elapsed)
    BY <1>1, <2>1, Zenon DEF ArbiterTick, ArbLock, ArbNoBuffer, ArbReselect, ArbLocked
  <2>3. CASE ArbIdle(sel)
    <3>1. arb_state = "idle" /\ arb_state' = "sel_low_ts" /\ fsm_wait_state_q' = TRUE
      BY <2>1, <2>3, Zenon DEF ArbIdle, Goto
    <3>2. stable = 0
      BY <1>2, <3>1 DEF TimeInv, Cycle, Selecting
    <3>3. Cycle' = 1
      BY <3>1 DEF Cycle, LastCycle, Selecting
    <3> QED
      BY <1>1, <1>5, <3>2, <3>3 DEF TimeInv, ValidationTime
  <2>4. CASE ArbHold(sel)
    <3>1. arb_state' = arb_state /\ fsm_wait_state_q' = FALSE
      BY <2>4, Zenon DEF ArbHold, Goto
    <3>2. arb_state = "validated" \/ (arb_state \in Selecting /\ fsm_wait_state_q)
      BY <2>4, Zenon DEF ArbHold
    <3>3. CASE arb_state = "validated"
      <4>1. Cycle' = 11
        BY <3>1, <3>3, Zenon DEF Cycle, Selecting, ValidationTime
      <4> QED
        BY <1>1, <1>2, <1>5, <4>1 DEF TimeInv, ValidationTime
    <3>4. CASE arb_state \in Selecting /\ fsm_wait_state_q
      <4>1. Cycle = LastCycle[arb_state] - 1 /\ Cycle' = LastCycle[arb_state]
        BY <3>1, <3>4, Zenon DEF Cycle
      <4>2. LastCycle[arb_state] \in Nat
        BY <3>4 DEF LastCycle, Selecting
      <4> QED
        BY <1>1, <1>2, <1>5, <4>1, <4>2 DEF TimeInv, ValidationTime
    <3> QED
      BY <3>2, <3>3, <3>4, Zenon
  <2>5. CASE ArbRead(sel, bad, elapsed)
    <3>1. arb_state \in Selecting /\ ~fsm_wait_state_q
      BY <2>5, Zenon DEF ArbRead
    <3>2. arb_state' = NextWord[arb_state] /\ fsm_wait_state_q' = (arb_state /= "sel_idw")
      BY <1>5, <2>1, <2>5, Zenon DEF ArbRead, Goto
    <3>3. Cycle = LastCycle[arb_state]
      BY <3>1, Zenon DEF Cycle
    <3>4. CASE arb_state = "sel_idw"
      <4>1. Cycle' = 11
        BY <3>2, <3>4, Zenon DEF Cycle, NextWord, Selecting, ValidationTime
      <4> QED
        BY <1>1, <1>2, <1>5, <4>1 DEF TimeInv, ValidationTime
    <3>5. CASE arb_state /= "sel_idw"
      <4>1. fsm_wait_state_q' /\ arb_state' \in Selecting
        <5>1. fsm_wait_state_q'
          BY <3>2, <3>5, Zenon
        <5>2. arb_state' \in Selecting
          <6>1. arb_state' = NextWord[arb_state]
            BY <3>2, Zenon
          <6> QED
            BY <3>1, <3>5, <6>1 DEF NextWord, Selecting
        <5> QED
          BY <5>1, <5>2, Zenon
      <4>2. LastCycle[arb_state'] = LastCycle[arb_state] + 2 /\ LastCycle[arb_state] \in Nat
        BY <3>1, <3>2, <3>5 DEF NextWord, Selecting, LastCycle
      <4>3. Cycle' = LastCycle[arb_state'] - 1
        BY <4>1, Zenon DEF Cycle, LastCycle
      <4> QED
        BY <1>1, <1>2, <1>5, <3>3, <4>2, <4>3 DEF TimeInv, ValidationTime
    <3> QED
      BY <3>4, <3>5, Zenon
  <2> QED
    BY <2>2, <2>3, <2>4, <2>5, Zenon
<1>6. CASE ~(Undisturbed(sel, elapsed) /\ arb_state' /= "idle")
  BY <1>1, <1>4, <1>6, Zenon DEF TimeInv
<1> QED
  BY <1>5, <1>6, Zenon

\* Without parity errors in metadata words an error only hits the buffer that is being sent.
LEMMA NoParityError ==
  ASSUME ~MetaParity, NEW sel, NEW bad \in BOOLEAN, bad => BadWord,
         arb_state /= "locked" \/ ~bad
  PROVE  ~bad /\ ~ParityErrorVld(bad) /\ ParityErrors(sel, bad) = {}
<1>1. ~bad
  BY Zenon DEF BadWord
<1> QED
  BY <1>1, Zenon DEF ParityErrorVld, ParityErrors

\* A lock command arrives.
LEMMA PhaseLockArrives ==
  ASSUME ~MetaParity, ATypeOK, PhaseInv, NEW sw \in SwInputs, NEW bad \in BOOLEAN,
         NEW elapsed \in BOOLEAN, Edge(sw, bad, elapsed), txtb_hw_cmd_q = "lock"
  PROVE  PhaseInv'
<1>1. /\ pc = "tx" /\ arb_state \in Selecting \cup {"validated"}
      /\ txtb_state[curr_txtb_index] = "ready" /\ ~bus_off
  BY Zenon DEF PhaseInv
<1>2. ParityErrors(Selection(sw), bad) = {}
  BY <1>1, NoParityError, Zenon DEF Edge, Selecting
<1>3. arb_state' = "locked" /\ curr_txtb_index' = curr_txtb_index
  BY <1>1, Zenon
     DEF Edge, ArbiterTick, ArbIdle, ArbLock, ArbNoBuffer, ArbReselect, ArbHold, ArbRead, ArbLocked,
              Goto, Keep, KeepMetadata, KeepCommitted, Selecting
<1>4. txtb_hw_cmd_q' = "none" /\ pc' = "tx" /\ ~bus_off'
  BY <1>1, SMTT(30) DEF Edge, ProtocolTick, PcNothing, PcLock, PcFinish, PcError, PcParity, PcErrorEnd, PcReintegrate,
              Issue, Keep, Selecting
<1>5. txtb_state'[curr_txtb_index] \in InProgress
  BY <1>1, <1>2, BufferStep DEF Edge, ATypeOK
<1>6. \A b \in Bufs : txtb_state'[b] \in InProgress => b = curr_txtb_index
  BY <1>1, BufferStep, Zenon DEF Edge, PhaseInv
<1> QED
  BY <1>3, <1>4, <1>5, <1>6, Zenon DEF PhaseInv, Unlocks

\* A command that ends the transmission arrives.
LEMMA PhaseUnlockArrives ==
  ASSUME ATypeOK, PhaseInv, NEW sw \in SwInputs, NEW bad \in BOOLEAN,
         NEW elapsed \in BOOLEAN, Edge(sw, bad, elapsed), txtb_hw_cmd_q \in Unlocks
  PROVE  PhaseInv'
<1>1. pc \in {"idle", "err"} /\ arb_state = "locked" /\ ~bus_off /\ txtb_hw_cmd_q \notin {"none", "lock"}
  BY Zenon DEF PhaseInv, Unlocks
<1>2. arb_state' = "idle"
  BY <1>1, Zenon
     DEF Edge, ArbiterTick, ArbIdle, ArbLock, ArbNoBuffer, ArbReselect, ArbHold, ArbRead, ArbLocked,
              Goto, Selecting
<1>3. txtb_hw_cmd_q' = "none" /\ pc' = pc /\ ~bus_off'
  BY <1>1 DEF Edge, ProtocolTick, PcNothing, PcLock, PcFinish, PcError, PcParity, PcErrorEnd, PcReintegrate,
              Issue, Keep
<1>4. \A b \in Bufs : txtb_state'[b] \notin InProgress
  BY <1>1, BufferStep, Zenon DEF Edge, PhaseInv
<1> QED
  BY <1>1, <1>2, <1>3, <1>4, Zenon DEF PhaseInv, Unlocks

\* A transmission goes on, and may end.
LEMMA PhaseTransmitting ==
  ASSUME ~MetaParity, ATypeOK, PhaseInv, NEW sw \in SwInputs, NEW bad \in BOOLEAN,
         NEW elapsed \in BOOLEAN, Edge(sw, bad, elapsed),
         txtb_hw_cmd_q = "none", arb_state = "locked"
  PROVE  PhaseInv'
<1>1. pc \in {"tx", "parity"} /\ ~bus_off
  BY Zenon DEF PhaseInv, Unlocks
<1>2. arb_state' = "locked" /\ curr_txtb_index' = curr_txtb_index
  BY SMTT(30) DEF Edge, ArbiterTick, ArbIdle, ArbLock, ArbNoBuffer, ArbReselect, ArbHold, ArbRead, ArbLocked,
         Goto, Keep, KeepMetadata, KeepCommitted, Selecting, Unlocks
<1>3. \A b \in Bufs : txtb_state'[b] \in InProgress => b = curr_txtb_index
  BY BufferStep, Zenon DEF Edge, PhaseInv
<1>4. ~bus_off' /\ \/ txtb_hw_cmd_q' \in Unlocks /\ pc' \in {"idle", "err"}
                   \/ txtb_hw_cmd_q' = "none" /\ pc' = "parity"
                   \/ txtb_hw_cmd_q' = "none" /\ pc' = "tx" /\ pc = "tx" /\ ~bad
  BY <1>1, SMTT(30) DEF Edge, ProtocolTick, PcNothing, PcLock, PcFinish, PcError, PcParity, PcErrorEnd, PcReintegrate,
              Issue, Keep, Unlocks, HwCmds
<1>5. pc' = "tx" => txtb_state'[curr_txtb_index] \in InProgress
  <2> SUFFICES ASSUME pc' = "tx"
               PROVE  txtb_state'[curr_txtb_index] \in InProgress
    BY Zenon
  <2>1. pc = "tx" /\ ~bad
    BY <1>4, Zenon
  <2>2. ParityErrors(Selection(sw), bad) = {}
    BY <2>1, NoParityError, Zenon DEF Edge
  <2>3. txtb_state[curr_txtb_index] \in InProgress
    BY <2>1, Zenon DEF PhaseInv
  <2> QED
    BY <1>1, <2>2, <2>3, BufferStep, Zenon DEF Edge, ATypeOK
<1> QED
  BY <1>2, <1>3, <1>4, <1>5, Zenon DEF PhaseInv, Unlocks

\* Nothing is being transmitted; a lock may be decided.
LEMMA PhaseNotTransmitting ==
  ASSUME ~MetaParity, ATypeOK, PhaseInv, NEW sw \in SwInputs, NEW bad \in BOOLEAN,
         NEW elapsed \in BOOLEAN, Edge(sw, bad, elapsed),
         txtb_hw_cmd_q = "none", arb_state /= "locked"
  PROVE  PhaseInv'
<1> DEFINE sel == Selection(sw)
<1>1. pc \in {"idle", "err"}
  BY Zenon DEF PhaseInv, ATypeOK, PcPhases
<1>2. ~ParityErrorVld(bad) /\ ParityErrors(sel, bad) = {}
  BY NoParityError, Zenon DEF Edge
<1>3. ArbiterTick(sel, bad, elapsed)
  BY Zenon DEF Edge
<1>4. arb_state' /= "locked"
  BY <1>3, SMTT(30) DEF ArbiterTick, ArbIdle, ArbLock, ArbNoBuffer, ArbReselect, ArbHold, ArbRead, ArbLocked,
         Goto, NextWord, Selecting
<1>5. \A b \in Bufs : txtb_state'[b] \notin InProgress
  BY BufferStep, Zenon DEF Edge, PhaseInv
<1>6. CASE PcLock(sw)
  <2>1. /\ ~bus_off /\ ~bus_off' /\ txtb_hw_cmd_q' = "lock" /\ pc' = "tx"
        /\ Available(sw, mode.txbbm, curr_txtb_index) /\ curr_txtb_index \in Bufs
    BY <1>6, Zenon DEF PcLock, TranFrameValid, Issue, Keep, ATypeOK
  <2>2. sel.avail /\ sel.index \in Bufs /\ Available(sw, mode.txbbm, sel.index)
    BY <2>1, SelectionBest, SMTT(30)
  <2>3. \A b \in Bufs : Available(sw, mode.txbbm, b) => txtb_state'[b] = "ready"
    BY <1>2, <2>1, BufferStep, Zenon DEF Edge
  <2> HIDE DEF sel
  <2>4. curr_txtb_index' \in {curr_txtb_index, sel.index}
    BY <1>3, Zenon DEF ArbiterTick, ArbIdle, ArbLock, ArbNoBuffer, ArbReselect, ArbHold, ArbRead, ArbLocked,
                Keep, KeepMetadata, KeepCommitted
  <2>5. arb_state' \in Selecting \cup {"validated"}
    BY <1>2, <1>3, <2>2 DEF ArbiterTick, ArbIdle, ArbLock, ArbNoBuffer, ArbReselect, ArbHold, ArbRead, ArbLocked,
                            Goto, NextWord, Selecting
  <2> QED
    BY <1>4, <1>5, <2>1, <2>2, <2>3, <2>4, <2>5, Zenon DEF PhaseInv, Unlocks
<1>7. CASE ~PcLock(sw)
  <2>1. txtb_hw_cmd_q' = "none" /\ pc' \in {"idle", "err"} /\ (bus_off' => pc' = "idle")
    BY <1>1, <1>7 DEF Edge, ProtocolTick, PcNothing, PcFinish, PcError, PcParity, PcErrorEnd, PcReintegrate,
                      Issue, Keep, PhaseInv
  <2> QED
    BY <1>4, <1>5, <2>1, Zenon DEF PhaseInv, Unlocks
<1> QED
  BY <1>6, <1>7, Zenon

\* Every cycle keeps protocol control, arbitrator and buffers in step.
LEMMA PhaseStep ==
  ASSUME ~MetaParity, ATypeOK, PhaseInv, NEW sw \in SwInputs, NEW bad \in BOOLEAN,
         NEW elapsed \in BOOLEAN, Edge(sw, bad, elapsed)
  PROVE  PhaseInv'
<1>1. txtb_hw_cmd_q = "none" \/ txtb_hw_cmd_q = "lock" \/ txtb_hw_cmd_q \in Unlocks
  BY Zenon DEF ATypeOK, Unlocks, HwCmds
<1> QED
  BY <1>1, PhaseLockArrives, PhaseUnlockArrives, PhaseTransmitting, PhaseNotTransmitting, Zenon

-----------------------------------------------------------------------------
(* Theorems                                                                 *)

\* The invariants hold after reset.
LEMMA SelectInit ==
  ASSUME Init
  PROVE  ATypeOK /\ SelectInv /\ TimeInv /\ PhaseInv
<1>1. ATypeOK
  <2>1. txtb_state \in [Bufs -> TxtStates] /\ prio \in [Bufs -> Prios]
    BY TxtBuffersAssumption, Zenon DEF Init, BuffersInit, TxtStates
  <2>2. dbl_buf \in Metadata /\ com \in [ffw : Metadata, idw : Metadata]
    BY Zenon DEF Init, Metadata
  <2>3. fsm_wait_state_q \in BOOLEAN /\ tran_frame_valid_com \in BOOLEAN /\ bus_off \in BOOLEAN
    BY Zenon DEF Init
  <2> QED
    BY <2>1, <2>2, <2>3, BufferNumbers
       DEF Init, BuffersInit, ATypeOK, ArbStates, HwCmds, PcPhases, ValidationTime
<1>2. SelectInv
  BY <1>1, Zenon DEF Init, SelectInv, ValidatedIsSelected
<1>3. TimeInv
  BY DEF Init, TimeInv, Cycle, Selecting
<1>4. PhaseInv
  BY Zenon DEF Init, BuffersInit, PhaseInv, Unlocks, InProgress
<1> QED
  BY <1>1, <1>2, <1>3, <1>4, Zenon

\* They do not depend on anything but the variables.
LEMMA Unchanged ==
  ASSUME UNCHANGED vars
  PROVE  /\ ATypeOK => ATypeOK'
         /\ SelectInv => SelectInv'
         /\ TimeInv => TimeInv'
         /\ PhaseInv => PhaseInv'
<1>1. ATypeOK => ATypeOK'
  BY Zenon DEF vars, bufVars, arbVars, ATypeOK
<1>2. SelectInv => SelectInv'
  BY <1>1, Zenon DEF vars, bufVars, arbVars, SelectInv, ValidatedIsSelected
<1>3. TimeInv => TimeInv'
  BY Zenon DEF vars, bufVars, arbVars, TimeInv, Cycle
<1>4. PhaseInv => PhaseInv'
  BY Zenon DEF vars, bufVars, arbVars, PhaseInv
<1> QED
  BY <1>1, <1>2, <1>3, <1>4, Zenon

\* The metadata offered to the protocol control are of one frame, and a settled
\* arbitrator offers the selected buffer and the frame in it (tx_arbitrator.vhd,
\* tx_arbitrator_fsm.vhd): for every number of buffers, and even with parity errors in
\* metadata words.
THEOREM ArbitrationValidatedIsSelected == Spec => []ValidatedIsSelected
<1>1. Init => ATypeOK /\ SelectInv
  BY SelectInit, Zenon
<1>2. ATypeOK /\ SelectInv /\ [Tick]_vars => (ATypeOK /\ SelectInv)'
  BY TickIsEdge, TypeStep, SelectStep, Unchanged, Zenon
<1>3. SelectInv => ValidatedIsSelected
  BY Zenon DEF SelectInv
<1> QED
  BY <1>1, <1>2, <1>3, PTL DEF Spec

\* A selection that stays the same for eleven undisturbed cycles is validated
\* (tx_arbitrator_fsm.vhd), for every number of buffers.
THEOREM ArbitrationValidatedInTime == Spec => []ValidatedInTime
<1>1. Init => ATypeOK /\ SelectInv /\ TimeInv
  BY SelectInit, Zenon
<1>2. ATypeOK /\ SelectInv /\ TimeInv /\ [Tick]_vars => (ATypeOK /\ SelectInv /\ TimeInv)'
  BY TickIsEdge, TypeStep, SelectStep, TimeStep, Unchanged, Zenon
<1>3. ATypeOK /\ SelectInv /\ TimeInv => ValidatedInTime
  <2> SUFFICES ASSUME ATypeOK, SelectInv, TimeInv, stable = 11
               PROVE  arb_state = "validated" /\ curr_txtb_index = select_buf_index_reg
    BY Zenon DEF ValidatedInTime, ValidationTime
  <2>1. arb_state \in Selecting => LastCycle[arb_state] <= 10 /\ LastCycle[arb_state] \in Nat
    BY DEF Selecting, LastCycle
  <2>2. arb_state = "validated"
    BY <2>1 DEF TimeInv, Cycle
  <2> QED
    BY <2>2, Zenon DEF SelectInv, ValidatedIsSelected
<1> QED
  BY <1>1, <1>2, <1>3, PTL DEF Spec

\* The invariant behind the two theorems below, and the step they share.
LEMMA PhaseAlways ==
  ASSUME ~MetaParity
  PROVE  Spec => [](ATypeOK /\ PhaseInv)
<1>1. Init => ATypeOK /\ PhaseInv
  BY SelectInit, Zenon
<1>2. ATypeOK /\ PhaseInv /\ [Tick]_vars => (ATypeOK /\ PhaseInv)'
  BY TickIsEdge, TypeStep, PhaseStep, Unchanged, Zenon
<1> QED
  BY <1>1, <1>2, PTL DEF Spec

\* Whatever software and arbitrator do between the decision and the arrival of a lock
\* command, it finds its buffer ready and the arbitrator neither idle nor locked
\* (the assertions of txt_buffer_fsm.vhd and tx_arbitrator_fsm.vhd), as long as parity
\* errors hit data words only.
THEOREM ArbitrationLockIsTaken ==
  ASSUME ~MetaParity
  PROVE  Spec => []LockIsTaken
<1>1. PhaseInv => LockIsTaken
  BY Zenon DEF PhaseInv, LockIsTaken
<1> QED
  BY <1>1, PhaseAlways, PTL

\* Protocol control, arbitrator and TXT buffers agree on what is being transmitted, and
\* nothing is in progress twice, as long as parity errors hit data words only.
THEOREM ArbitrationOneTransmission ==
  ASSUME ~MetaParity
  PROVE  Spec => []OneTransmission
<1>1. PhaseInv => OneTransmission
  BY Zenon DEF PhaseInv, OneTransmission, Unlocks, Selecting
<1> QED
  BY <1>1, PhaseAlways, PTL

\* Every end of a transmission raises TXBHCI, but for an abort in the cycle of an error or
\* of a lost arbitration (txtb_hw_cmd_int of txt_buffer_fsm.vhd).
THEOREM ArbitrationFinishInterrupts ==
  ASSUME ~MetaParity
  PROVE  Spec => FinishInterrupts
<1> DEFINE Raises(b) ==
          /\ txtb_hw_cmd_q \in Unlocks
          /\ txtb_state[b] \in InProgress
          /\ txtb_state'[b] \in {"ok", "failed", "aborted"}
          => \/ HwCmdInt(b, HwCmd(b, txtb_hw_cmd_q, curr_txtb_index),
                         txtb_state'[b], bus_off)
             \/ /\ txtb_state[b] = "tx_prog" /\ txtb_state'[b] = "aborted"
                /\ txtb_hw_cmd_q \in {"err", "arbl"} /\ b = curr_txtb_index
<1>1. ASSUME ATypeOK, PhaseInv, NEW sw \in SwInputs, NEW bad \in BOOLEAN,
             NEW elapsed \in BOOLEAN, Edge(sw, bad, elapsed), NEW b \in Bufs
      PROVE  Raises(b)
  <2> SUFFICES ASSUME txtb_hw_cmd_q \in Unlocks, txtb_state[b] \in InProgress,
                      txtb_state'[b] \in {"ok", "failed", "aborted"}
               PROVE  \/ HwCmdInt(b, HwCmd(b, txtb_hw_cmd_q, curr_txtb_index),
                                  txtb_state'[b], bus_off)
                      \/ /\ txtb_state[b] = "tx_prog" /\ txtb_state'[b] = "aborted"
                         /\ txtb_hw_cmd_q \in {"err", "arbl"} /\ b = curr_txtb_index
    BY Zenon
  <2>1. b = curr_txtb_index /\ ~bus_off
    BY <1>1, Zenon DEF PhaseInv, Unlocks
  <2>2. txtb_hw_cmd_q \in {"failed", "valid"} \/ txtb_hw_cmd_q \in {"err", "arbl"}
    BY Zenon DEF Unlocks, HwCmds
  <2>3. HwCmd(b, txtb_hw_cmd_q, curr_txtb_index) = txtb_hw_cmd_q
    BY <2>1, SMTT(30) DEF HwCmd
  <2>4. txtb_hw_cmd_q \in {"err", "arbl"} /\ txtb_state[b] = "tx_prog" => txtb_state'[b] = "aborted"
    BY <1>1, <2>1, BufferStep, Zenon DEF Edge
  <2> QED
    BY <2>1, <2>2, <2>3, <2>4, Zenon DEF HwCmdInt, InProgress
<1>2. ATypeOK /\ PhaseInv /\ [Tick]_vars => [\A b \in Bufs : Raises(b)]_vars
  BY <1>1, TickIsEdge, Zenon
<1> QED
  BY <1>2, PhaseAlways, PTL DEF Spec, FinishInterrupts
=============================================================================
