------------------------------- MODULE TxFifo -------------------------------
(***************************************************************************)
(* What the transmit path promises to the network stack: a bounded FIFO.   *)
(* Frames enter in the order they are handed over, the controller finishes *)
(* them in that order, and each completion is reported (echo, or drop) in  *)
(* that order for the very frame that finished.                            *)
(***************************************************************************)
EXTENDS Integers, Sequences

CONSTANTS N,   \* capacity
          M    \* frames are numbered modulo M

VARIABLES fifo,     \* the frames accepted and not yet reported, oldest first
          next_id   \* number of the next frame

vars == <<fifo, next_id>>

Init == fifo = <<>> /\ next_id = 0

Accept ==
  /\ Len(fifo) < N
  /\ fifo' = Append(fifo, [id |-> next_id, st |-> "wait"])
  /\ next_id' = (next_id + 1) % M

\* The oldest waiting frame finishes.
Finish ==
  /\ \E k \in 1..Len(fifo), st \in {"ok", "failed"} :
       /\ fifo[k].st = "wait"
       /\ \A j \in 1..(k - 1) : fifo[j].st # "wait"
       /\ fifo' = [fifo EXCEPT ![k].st = st]
  /\ UNCHANGED next_id

\* Bus-off: every waiting frame fails.
FailAll ==
  /\ fifo' = [k \in 1..Len(fifo) |-> IF fifo[k].st = "wait"
                                     THEN [fifo[k] EXCEPT !.st = "failed"] ELSE fifo[k]]
  /\ UNCHANGED next_id

Report ==
  /\ fifo # <<>>
  /\ Head(fifo).st # "wait"
  /\ fifo' = Tail(fifo)
  /\ UNCHANGED next_id

Next == Accept \/ Finish \/ FailAll \/ Report

Spec == Init /\ [][Next]_vars
=============================================================================
