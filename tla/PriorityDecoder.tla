--------------------------- MODULE PriorityDecoder ---------------------------
(***************************************************************************)
(* priority_decoder.vhd: the tree of comparators that picks, among eight   *)
(* TXT buffers, the available one with the highest priority.  A node of    *)
(* the tree carries the winner of its subtree.                             *)
(***************************************************************************)
EXTENDS Naturals

Leaves == 0 .. 7

\* Level 0: the inputs of one buffer.
Leaf(valid, prio, i) == [valid |-> valid[i], prio |-> prio[i], index |-> i]

\* A comparator of level 1 or 2; when neither side is valid it points up.
Join(lower, upper) ==
    IF lower.valid /\ (upper.valid => upper.prio <= lower.prio)
    THEN lower ELSE upper

\* The comparator of level 3; when neither side is valid it points down.
Root(lower, upper) ==
    IF upper.valid /\ (lower.valid => lower.prio < upper.prio)
    THEN upper ELSE lower

Pair(valid, prio, i) == Join(Leaf(valid, prio, 2 * i), Leaf(valid, prio, 2 * i + 1))

Half(valid, prio, i) == Join(Pair(valid, prio, 2 * i), Pair(valid, prio, 2 * i + 1))

\* output_valid and output_index.
Winner(valid, prio) == Root(Half(valid, prio, 0), Half(valid, prio, 1))

\* What the decoder is for: i is available, no available buffer has a higher
\* priority, and among equals i is the one with the lowest index.
IsBest(valid, prio, i) ==
    /\ valid[i]
    /\ \A j \in Leaves : valid[j] =>
          \/ prio[j] < prio[i]
          \/ prio[j] = prio[i] /\ i <= j
=============================================================================
