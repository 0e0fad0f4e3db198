---------------------------- MODULE RxFrameFifo -----------------------------
(***************************************************************************)
(* What the RX buffer promises the software: a FIFO of words into which    *)
(* frames go whole or not at all, and out of which one word is read at a   *)
(* time.  A frame f with RWCNT n is the words <<f, 0, n>> (the frame       *)
(* format word, which carries n) and <<f, k, 0>> for k in 1..n.            *)
(***************************************************************************)
EXTENDS Integers, Sequences

CONSTANTS
  Size,     \* words the buffer holds
  Frames,   \* names of frames
  Counts    \* possible values of RWCNT

VARIABLE words

Whole(f, n) ==
  [i \in 1..(n + 1) |-> IF i = 1 THEN <<f, 0, n>> ELSE <<f, i - 1, 0>>]

Init == words = <<>>

AfterRead(read) == IF read THEN Tail(words) ELSE words

\* One clock: a word is read, a frame is committed, both, or neither.
Move(read) ==
  /\ read => words # <<>>
  /\ \/ words' = AfterRead(read)
     \/ \E f \in Frames, n \in Counts :
          words' = AfterRead(read) \o Whole(f, n)
  /\ Len(words') <= Size

\* COMMAND.RRB
Release == words' = <<>>

Next == Release \/ \E read \in BOOLEAN : Move(read)
Spec == Init /\ [][Next]_words
=============================================================================
