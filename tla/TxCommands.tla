----------------------------- MODULE TxCommands -----------------------------
(***************************************************************************)
(* What protocol control promises to TX arbitrator and TXT buffers: locks  *)
(* and unlocks alternate, each is a pulse of one cycle, and no two pulses  *)
(* are adjacent.  TxArbitration is built on these commands.                *)
(***************************************************************************)
EXTENDS Integers

VARIABLES sending, cmd

Unlocking == {"valid", "arbl", "err", "failed"}

Init == sending = FALSE /\ cmd = "none"

LockBuffer == ~sending /\ cmd = "none" /\ sending' = TRUE /\ cmd' = "lock"

UnlockBuffer == sending /\ cmd = "none" /\ sending' = FALSE /\ cmd' \in Unlocking

NoCommand == cmd' = "none" /\ sending' = sending

Next == LockBuffer \/ UnlockBuffer \/ NoCommand

Spec == Init /\ [][Next]_<<sending, cmd>>
=============================================================================
