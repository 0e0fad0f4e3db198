----------------------------- MODULE MCRxBuffer -----------------------------
(* Instances of RxBuffer; the constants are given in the configurations.   *)
EXTENDS RxBuffer
=============================================================================
