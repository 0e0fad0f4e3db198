----------------------------- MODULE MCCanCore -----------------------------
(***************************************************************************)
(* CanCore with short fields and small counters.                           *)
(***************************************************************************)
EXTENDS CanCore

\* A node with a retransmission limit, a classical one without, and one in
\* restricted operation.
MCModes == {[rom |-> FALSE, rtrle |-> TRUE,  edge |-> TRUE],
            [rom |-> FALSE, rtrle |-> FALSE, edge |-> FALSE],
            [rom |-> TRUE,  rtrle |-> FALSE, edge |-> TRUE]}
=============================================================================
