----------------------------- MODULE TxtBuffers -----------------------------
(***************************************************************************)
(* The TXT buffers of the core (txt_buffer.vhd, txt_buffer_fsm.vhd): a RAM *)
(* that holds one frame and a state machine per buffer, driven by software *)
(* commands (TX_COMMAND) and by the hardware commands of the protocol      *)
(* control.  All definitions are about one clock cycle; inputs of the      *)
(* cycle are parameters.                                                   *)
(*                                                                         *)
(* A software input is a record: a TX_COMMAND write (kind "ce", "cr" or    *)
(* "ca" with the set of buffers it addresses), a write of a frame into a   *)
(* RAM, a write of TX_PRIORITY, or nothing.                                *)
(***************************************************************************)
EXTENDS Naturals

CONSTANTS
    NB,         \* G_TXT_BUFFER_COUNT
    Frames,     \* the frames software writes
    Prios       \* the values software writes into TX_PRIORITY

ASSUME TxtBuffersAssumption == NB \in 2 .. 8 /\ Prios \subseteq Nat /\ {0, 1} \subseteq Prios

VARIABLES
    txtb_state, \* curr_state of each buffer's FSM
    ram,        \* the frame held in each buffer's RAM
    prio        \* TX_PRIORITY

bufVars == <<txtb_state, ram, prio>>

Bufs == 0 .. NB - 1

TxtStates == {"empty", "ready", "tx_prog", "ab_prog", "ok", "failed",
              "aborted", "parity_err"}

InProgress == {"tx_prog", "ab_prog"}

HwCmds == {"none", "lock", "valid", "err", "arbl", "failed"}

Unlocks == HwCmds \ {"none", "lock"}

SwInputs ==
    [kind : {"none"}]
      \cup [kind : {"ce", "cr", "ca"}, txbi : (SUBSET Bufs) \ {{}}]
      \cup [kind : {"frame"}, buf : Bufs, value : Frames]
      \cup [kind : {"prio"}, buf : Bufs, value : Prios]

\* tx_command_txce_valid, tx_command_txcr_valid, abort_applied: in backup mode
\* a command for an even buffer also addresses the odd one after it.
Commanded(sw, kind, txbbm, b) ==
    /\ sw.kind = kind
    /\ b \in sw.txbi \/ (txbbm /\ b % 2 = 1 /\ b - 1 \in sw.txbi)

\* Faulty variant: an abort counts only once the FSM has taken it.
AvailableIgnoringAbort(sw, txbbm, b) == txtb_state[b] = "ready"

\* txtb_available: an abort of this very cycle already counts.
Available(sw, txbbm, b) ==
    txtb_state[b] = "ready" /\ ~Commanded(sw, "ca", txbbm, b)

UserAccessible(b) == txtb_state[b] \notin InProgress \cup {"ready"}

TransientState(b) == txtb_state[b] \in InProgress \cup {"ready"}

\* Next state of buffer b.  hw is the hardware command if the buffer is
\* selected by txtb_hw_cmd_cs, skip is buffer_skipped, perr is
\* txtb_parity_error_valid, gtf is go_to_failed.
NextState(b, hw, cr, ce, ca, skip, perr, gtf) ==
    LET s == txtb_state[b] IN
    IF s \in InProgress \cup {"ready"} THEN
        CASE gtf                                   -> "failed"
          [] ~gtf /\ perr                          -> "parity_err"
          [] ~gtf /\ ~perr /\ s = "ready"          ->
                IF hw = "lock" THEN IF ca THEN "ab_prog" ELSE "tx_prog"
                ELSE IF ca \/ skip THEN "aborted" ELSE s
          [] ~gtf /\ ~perr /\ s \in InProgress     ->
                CASE hw = "failed"         -> "failed"
                  [] hw = "valid"          -> "ok"
                  [] hw \in {"err", "arbl"} ->
                        IF s = "ab_prog" \/ ca THEN "aborted" ELSE "ready"
                  [] hw \in {"none", "lock"} -> IF ca THEN "ab_prog" ELSE s
    ELSE IF cr THEN "ready"
    ELSE IF ce THEN "empty"
    ELSE s

\* txtb_hw_cmd_i: the hardware command filtered by txtb_hw_cmd_cs.
HwCmd(b, cmd, curr) == IF b = curr THEN cmd ELSE "none"

\* Faulty variant: a frame aborted by the loss of arbitration is not reported.
HwCmdIntMissesArbl(b, hw, next, bus_off) ==
    \/ hw \in {"failed", "valid"}
    \/ hw = "err" /\ txtb_state[b] = "ab_prog"
    \/ bus_off /\ next = "failed" /\ TransientState(b)

\* txtb_hw_cmd_int.
HwCmdInt(b, hw, next, bus_off) ==
    \/ hw \in {"failed", "valid"}
    \/ hw \in {"arbl", "err"} /\ txtb_state[b] = "ab_prog"
    \/ bus_off /\ next = "failed" /\ TransientState(b)

\* One clock cycle of all buffers.  cmd is the hardware command and curr the
\* buffer it is for; perr is the set of buffers with a parity error.
BuffersTick(sw, cmd, curr, perr, txbbm, tbfbo, bus_off) ==
    LET isbb(b) == txbbm /\ b % 2 = 1 /\ curr = b - 1 /\ TransientState(b - 1)
        next(b) == NextState(b, HwCmd(b, cmd, curr), Commanded(sw, "cr", txbbm, b),
                             Commanded(sw, "ce", txbbm, b),
                             Commanded(sw, "ca", txbbm, b),
                             cmd \in {"failed", "valid"} /\ isbb(b),
                             b \in perr, bus_off /\ tbfbo)
    IN  /\ txtb_state' = [b \in Bufs |-> next(b)]
        /\ ram' = IF sw.kind = "frame" /\ UserAccessible(sw.buf)
                  THEN [ram EXCEPT ![sw.buf] = sw.value] ELSE ram
        /\ prio' = IF sw.kind = "prio"
                   THEN [prio EXCEPT ![sw.buf] = sw.value] ELSE prio

BuffersInit ==
    /\ txtb_state = [b \in Bufs |-> "empty"]
    /\ ram \in [Bufs -> Frames]
    /\ prio = [b \in Bufs |-> IF b = 0 THEN 1 ELSE 0]
=============================================================================
