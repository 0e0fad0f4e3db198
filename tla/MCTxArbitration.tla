-------------------------- MODULE MCTxArbitration --------------------------
(* Instances of TxArbitration for TLC.                                       *)
EXTENDS TxArbitration, TLC

\* Transmission at a given time; and backup buffers without it.
CheckedModes == {[tttm |-> TRUE, txbbm |-> FALSE, tbfbo |-> TRUE],
                 [tttm |-> FALSE, txbbm |-> TRUE, tbfbo |-> FALSE]}

\* No frame is special.
FrameSymmetry == Permutations(Frames)

TimedMode == {[tttm |-> TRUE, txbbm |-> FALSE, tbfbo |-> TRUE]}
=============================================================================
