---------------------------- MODULE MCDriverPaths ----------------------------
(***************************************************************************)
(* The transmit path and the receive path of an open interface.  They      *)
(* share no state of the driver: either one is run while the other rests   *)
(* in its initial state, in which no step of it is due.                    *)
(***************************************************************************)
EXTENDS DriverTx, DriverRx

VARIABLE path

MCInit == Init /\ RxInit /\ path \in {"tx", "rx"}

MCNext ==
  \/ path = "tx" /\ Next /\ UNCHANGED <<rxvars, path>>
  \/ path = "rx" /\ RxNext /\ UNCHANGED <<vars, path>>

MCSpec == MCInit /\ [][MCNext]_<<vars, rxvars, path>> /\ Fairness /\ RxFairness
=============================================================================
