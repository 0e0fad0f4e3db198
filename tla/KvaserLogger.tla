---------------------------- MODULE KvaserLogger ----------------------------
(***************************************************************************)
(* The Kvaser / Signal TAP logger (tools/Kvaser_logger): it sends random   *)
(* CAN frames by a Kvaser device, has each one recorded by a logic         *)
(* analyzer that it runs as a child process, and writes frame and recorded *)
(* bits to an output file.  The analyzer takes its commands from a pipe    *)
(* and answers nothing: the logger sleeps for a fixed time after each      *)
(* command and goes on, whether it has been carried out or not, and looks  *)
(* at no result but those of kvaser_init and stp_init.                     *)
(***************************************************************************)
EXTENDS Integers, Sequences

CONSTANTS
  NumFrames,   \* frame_count
  PipeCap,     \* commands that fit into the pipe
  Rands        \* values rand() returns: [id_type, fr_type, flag, length, id]

ASSUME LoggerAssumption ==
  /\ NumFrames \in Nat
  /\ PipeCap \in Nat \ {0}
  /\ Rands \subseteq [id_type : Nat, fr_type : Nat, flag : Nat, length : Nat, id : Nat]

VARIABLES
  log,       \* kvaalt_start_log: pc, iteration, frame, canlib loaded (lib), records found (old)
  chan,      \* the channels of the Kvaser device
  txq,       \* frames handed to channel 0 and not yet on the bus
  rxq,       \* frames received by channel 1 and not yet read
  pipe,      \* commands the analyzer has not yet read
  stp,       \* the analyzer: pc, session, trigger armed for log, last recording
  file,      \* build/tmp_export.tbl: the frame whose bits it shows
  out,       \* the output file
  trouble    \* a call (but rm) has failed or a sleep has been too short

loggervars == <<log, chan, txq, rxq, pipe, stp, file, out, trouble>>

Alive   == {"idle", "armed", "filling", "exporting"}

\* Contents of the table besides the frames 1..NumFrames: none, a table of an earlier run,
\* and one just opened, which is empty.
NoFile    == -1
OldFile   == 0
EmptyFile == -2

\* A record: the frame written, the frame whose bits are beside it, and whether nothing had
\* failed before.
Record(n, of, clean) == [n |-> n, of |-> of, clean |-> clean]

OldRecord == Record(NumFrames, OldFile, FALSE)

NoFrame == [id_type |-> 0, fr_type |-> 0, brs |-> 0, rtr |-> 0, data_length |-> 0, id |-> 0]

LoggerInit ==
  /\ \E writable \in BOOLEAN :
       log = [pc |-> "open", i |-> 0, frame |-> NoFrame, ret |-> 0, lib |-> FALSE,
              writable |-> writable, killed |-> "none", old |-> 0]
  /\ chan = [c \in 0..1 |-> "closed"]
  /\ txq = <<>> /\ rxq = <<>> /\ pipe = <<>>
  /\ stp = [pc |-> "none", session |-> FALSE, job |-> 0, of |-> 0]
  /\ file \in {NoFile, OldFile}
  /\ out \in {<<>>, <<OldRecord>>}
  /\ trouble = FALSE

LogGoto(pc) == log' = [log EXCEPT !.pc = pc]
Exit(pc, ret) == log' = [log EXCEPT !.pc = pc, !.ret = ret]
InitResult(pc, ret, lib) == log' = [log EXCEPT !.pc = pc, !.ret = ret, !.lib = lib]

-----------------------------------------------------------------------------
(* kvaser_init                                                              *)

OpenChannels ==
  /\ log.pc = "open"
  /\ \E opened \in SUBSET (0..1) :
       /\ chan' = [c \in 0..1 |-> IF c \in opened THEN "open" ELSE "closed"]
       /\ IF opened = 0..1 THEN InitResult("config", 0, TRUE) ELSE InitResult("exit", 1, TRUE)
  /\ UNCHANGED <<txq, rxq, pipe, stp, file, out, trouble>>

NextOf == [open |-> "nominal", nominal |-> "data", data |-> "on"]

\* Bit rates, then bus on, of channel 0 and then of channel 1.
ConfigChannel ==
  /\ log.pc = "config"
  /\ LET c == IF chan[0] = "on" THEN 1 ELSE 0 IN chan' = [chan EXCEPT ![c] = NextOf[@]]
  /\ LogGoto(IF chan'[1] = "on" THEN "stp_init" ELSE "config")
  /\ UNCHANGED <<txq, rxq, pipe, stp, file, out, trouble>>

\* A canlib call has failed: ErrorExit.
ErrorExit ==
  /\ log.pc = "config"
  /\ chan' = [c \in 0..1 |-> "closed"]
  /\ InitResult("exit", 1, FALSE)
  /\ UNCHANGED <<txq, rxq, pipe, stp, file, out, trouble>>

-----------------------------------------------------------------------------
(* stp_init, and the sessions                                               *)

\* pipe() fails; or fork() does, which stp_init reports as success; or there is a child.
StpInit ==
  /\ log.pc = "stp_init"
  /\ \/ Exit("exit", 1) /\ UNCHANGED <<stp, trouble>>
     \/ LogGoto("erase") /\ trouble' = TRUE /\ UNCHANGED stp
     \/ LogGoto("erase") /\ stp' = [stp EXCEPT !.pc = "forked"] /\ UNCHANGED trouble
  /\ UNCHANGED <<chan, txq, rxq, pipe, file, out>>

\* erase_file: the result of rm is not looked at, and process_stp_output appends to what it
\* leaves.
EraseFile ==
  /\ log.pc = "erase"
  /\ out' \in {<<>>, out}
  /\ log' = [log EXCEPT !.pc = "session", !.old = Len(out')]
  /\ UNCHANGED <<chan, txq, rxq, pipe, stp, file, trouble>>

\* write() to the pipe.  The logger keeps the reading end open as well, so that the write
\* never fails: it waits while the pipe is full.
Send(cmd, i) ==
  /\ Len(pipe) < PipeCap
  /\ pipe' = Append(pipe, [cmd |-> cmd, i |-> i])

\* stp_create_temp_session and stp_start_session; whether the session exists shows when
\* the analyzer opens it.
StartSession ==
  /\ log.pc = "session"
  /\ Send("open_session", 0)
  /\ LogGoto("session_sleep")
  /\ UNCHANGED <<chan, txq, rxq, stp, file, out, trouble>>

\* Where the logger goes on after a sleep.
AfterSleep ==
  [session_sleep |-> "loop", run_sleep |-> "send", wait_sleep |-> "export",
   export_sleep  |-> "process", close_sleep |-> "stp_exit"]

\* The analyzer has done all it can do before something else happens.
Settled == stp.pc = "armed" \/ (stp.pc = "idle" /\ pipe = <<>>)

\* usleep; it is too short when the analyzer is still busy, or there is none.
Sleep ==
  /\ log.pc \in DOMAIN AfterSleep
  /\ LogGoto(AfterSleep[log.pc])
  /\ trouble' = (trouble \/ ~Settled \/ (log.pc = "wait_sleep" /\ stp.pc = "armed"))
  /\ UNCHANGED <<chan, txq, rxq, pipe, stp, file, out>>

-----------------------------------------------------------------------------
(* One iteration                                                            *)

kvalt_dlc == <<0, 1, 2, 3, 4, 5, 6, 7, 8, 12, 16, 20, 24, 32, 48, 64>>

generate_can_frame(r) ==
  LET fd  == r.fr_type % 2 = 1
      set == r.flag % 2 = 1
  IN  [id_type |-> r.id_type % 2,
       fr_type |-> r.fr_type % 2,
       brs     |-> IF fd THEN r.flag % 2 ELSE 0,
       rtr     |-> IF fd THEN 0 ELSE r.flag % 2,
       data_length |-> IF ~fd /\ set THEN 0
                       ELSE kvalt_dlc[1 + (r.length % (IF ~fd THEN 8 ELSE IF set THEN 16 ELSE 11))],
       id      |-> r.id % (IF r.id_type % 2 = 1 THEN 536870912 ELSE 2048)]

\* The head of the loop.
Generate ==
  /\ log.pc = "loop"
  /\ log.i < NumFrames
  /\ \E r \in Rands : log' = [log EXCEPT !.pc = "run", !.i = @ + 1, !.frame = generate_can_frame(r)]
  /\ UNCHANGED <<chan, txq, rxq, pipe, stp, file, out, trouble>>

RunAquisition ==
  /\ log.pc = "run"
  /\ Send("run", log.i)
  /\ LogGoto("run_sleep")
  /\ UNCHANGED <<chan, txq, rxq, stp, file, out, trouble>>

\* kvaser_send_frame: canWrite queues the frame or fails, and canWriteSync waits until the
\* queue is empty or a second has passed.
CanWrite ==
  /\ log.pc = "send"
  /\ \/ txq' = Append(txq, log.i) /\ LogGoto("sync") /\ UNCHANGED trouble
     \/ LogGoto("read") /\ trouble' = TRUE /\ UNCHANGED txq
  /\ UNCHANGED <<chan, rxq, pipe, stp, file, out>>

\* Faulty variant: no timeout.
CanWriteSyncForever ==
  /\ log.pc = "sync"
  /\ txq = <<>>
  /\ LogGoto("read")
  /\ UNCHANGED <<chan, txq, rxq, pipe, stp, file, out, trouble>>

CanWriteSync ==
  /\ log.pc = "sync"
  /\ trouble' = (trouble \/ txq # <<>>)
  /\ LogGoto("read")
  /\ UNCHANGED <<chan, txq, rxq, pipe, stp, file, out>>

\* kvaser_read_frame: a frame of channel 1, or the timeout; then stp_wait_aquisition_end.
ReadFrame ==
  /\ log.pc = "read"
  /\ rxq' = IF rxq = <<>> THEN rxq ELSE Tail(rxq)
  /\ LogGoto("wait_sleep")
  /\ UNCHANGED <<chan, txq, pipe, stp, file, out, trouble>>

\* Faulty variant: the log of the iteration before is exported.
ExportLogBefore ==
  /\ log.pc = "export"
  /\ Send("export", log.i - 1)
  /\ LogGoto("export_sleep")
  /\ UNCHANGED <<chan, txq, rxq, stp, file, out, trouble>>

ExportLog ==
  /\ log.pc = "export"
  /\ Send("export", log.i)
  /\ LogGoto("export_sleep")
  /\ UNCHANGED <<chan, txq, rxq, stp, file, out, trouble>>

-----------------------------------------------------------------------------
(* process_stp_output                                                       *)

\* Without a table nothing is written; else the frame and the runs of equal samples are.
Process ==
  /\ log.pc = "process"
  /\ log.writable \/ file = NoFile
  /\ out' = IF file = NoFile THEN out
            ELSE Append(out, Record(log.i, file, ~trouble))
  /\ LogGoto("loop")
  /\ UNCHANGED <<chan, txq, rxq, pipe, stp, file, trouble>>

\* The result of the second fopen is not looked at: writing to a null FILE ends the program.
ProcessCrash ==
  /\ log.pc = "process"
  /\ ~log.writable
  /\ file # NoFile
  /\ Exit("crashed", 139)
  /\ UNCHANGED <<chan, txq, rxq, pipe, stp, file, out, trouble>>

-----------------------------------------------------------------------------
(* The end of kvaalt_start_log                                              *)

CloseSession ==
  /\ log.pc = "loop"
  /\ log.i = NumFrames
  /\ Send("close_session", 0)
  /\ LogGoto("close_sleep")
  /\ UNCHANGED <<chan, txq, rxq, stp, file, out, trouble>>

\* Faulty variant: the analyzer is told to end and not waited for.
StpExitNoWait ==
  /\ log.pc = "stp_exit"
  /\ log' = [log EXCEPT !.pc = "exit", !.killed = IF stp.pc = "none" THEN "all" ELSE "child"]
  /\ UNCHANGED <<chan, txq, rxq, pipe, stp, file, out, trouble>>

\* kill and waitpid; without a child, stp_pid is -1 and kill addresses every process.
StpExit ==
  /\ log.pc = "stp_exit"
  /\ log' = [log EXCEPT !.pc = "exit", !.killed = IF stp.pc = "none" THEN "all" ELSE "child"]
  /\ stp' = IF stp.pc = "none" THEN stp ELSE [stp EXCEPT !.pc = "reaped"]
  /\ UNCHANGED <<chan, txq, rxq, pipe, file, out, trouble>>

Logger ==
  \/ OpenChannels \/ ConfigChannel \/ ErrorExit \/ StpInit \/ EraseFile \/ StartSession \/ Sleep
  \/ Generate \/ RunAquisition \/ CanWrite \/ CanWriteSync \/ ReadFrame \/ ExportLog
  \/ Process \/ ProcessCrash \/ CloseSession \/ StpExit

-----------------------------------------------------------------------------
(* The child: stp_init up to execv, then the analyzer                       *)

\* The child joins its end of the pipe and executes the analyzer, or one of them fails
\* and it exits, with 1 out of main or with 127.
ChildExec ==
  /\ stp.pc = "forked"
  /\ \/ stp' = [stp EXCEPT !.pc = "idle"] /\ UNCHANGED trouble
     \/ stp' = [stp EXCEPT !.pc = "dead"] /\ trouble' = TRUE
  /\ UNCHANGED <<log, chan, txq, rxq, pipe, file, out>>

\* A command is read and begun; without a session only errors are printed.
StpCommand ==
  /\ stp.pc = "idle"
  /\ pipe # <<>>
  /\ pipe' = Tail(pipe)
  /\ LET c == Head(pipe) IN
       \/ /\ c.cmd = "open_session"
          /\ \E found \in BOOLEAN : /\ stp' = [stp EXCEPT !.session = found]
                                    /\ trouble' = (trouble \/ ~found)
       \/ /\ c.cmd = "run"
          /\ stp' = IF stp.session THEN [stp EXCEPT !.pc = "armed", !.job = c.i] ELSE stp
          /\ UNCHANGED trouble
       \/ /\ c.cmd = "export"
          /\ stp' = IF stp.session /\ stp.job = c.i THEN [stp EXCEPT !.pc = "exporting"] ELSE stp
          /\ UNCHANGED trouble
       \/ /\ c.cmd = "close_session"
          /\ stp' = [stp EXCEPT !.session = FALSE]
          /\ UNCHANGED trouble
  /\ file' = IF stp'.pc = "exporting" THEN EmptyFile ELSE file
  /\ UNCHANGED <<log, chan, txq, rxq, out>>

\* The recording is complete; the table is complete.
StpFinish ==
  /\ \/ stp.pc = "filling" /\ UNCHANGED file
     \/ stp.pc = "exporting" /\ file' = stp.of
  /\ stp' = [stp EXCEPT !.pc = "idle"]
  /\ UNCHANGED <<log, chan, txq, rxq, pipe, out, trouble>>

\* With the logger gone the analyzer finds the end of its input.
StpEof ==
  /\ log.pc = "crashed"
  /\ stp.pc = "idle"
  /\ pipe = <<>>
  /\ stp' = [stp EXCEPT !.pc = "dead"]
  /\ UNCHANGED <<log, chan, txq, rxq, pipe, file, out, trouble>>

\* A frame goes over the bus: channel 1 receives it, and it triggers an armed analyzer.
Transmit ==
  /\ txq # <<>>
  /\ log.pc \notin {"exit", "crashed"}
  /\ txq' = Tail(txq)
  /\ rxq' = Append(rxq, Head(txq))
  /\ stp' = IF stp.pc = "armed" THEN [stp EXCEPT !.pc = "filling", !.of = Head(txq)] ELSE stp
  /\ UNCHANGED <<log, chan, pipe, file, out, trouble>>

Analyzer == ChildExec \/ StpCommand \/ StpFinish \/ StpEof

LoggerNext == Logger \/ Analyzer \/ Transmit

\* The logger sleeps for bounded times; the analyzer, alive, carries out what it is told.
LoggerSpec == LoggerInit /\ [][LoggerNext]_loggervars /\ WF_loggervars(Logger) /\ WF_loggervars(Analyzer)

-----------------------------------------------------------------------------
(* Properties                                                               *)

\* Logger, analyzer, pipe and files have their types.
KTypeOK ==
  /\ log.i \in 0..NumFrames
  /\ log.ret \in {0, 1, 139}
  /\ chan \in [0..1 -> {"closed", "open", "nominal", "data", "on"}]
  /\ Len(pipe) <= PipeCap
  /\ stp.pc \in Alive \cup {"none", "forked", "dead", "reaped"}
  /\ file \in EmptyFile..NumFrames
  /\ Len(txq) <= NumFrames /\ Len(rxq) <= NumFrames

\* kvaser_init leaves both channels on the bus with both bit rates set, or none of them.
ChannelsReady ==
  /\ log.pc \notin {"open", "config", "exit"} \/ log.killed # "none" => \A c \in 0..1 : chan[c] = "on"
  /\ log.pc = "exit" => \/ \A c \in 0..1 : chan[c] = "on"
                        \/ \A c \in 0..1 : chan[c] # "on"

\* When the logger exits by itself the analyzer has ended and its process is reaped, and
\* stp_exit has signalled nothing else unless the fork of stp_init had failed unnoticed.
AnalyzerStopped ==
  /\ log.pc = "exit" => stp.pc \in {"none", "reaped"}
  /\ log.killed = "all" => stp.pc = "none"

\* As long as no call fails and no sleep is too short, each iteration adds one record to
\* the output file, and its bits are those of the very frame written beside them.
CleanLogComplete ==
  /\ \A k \in 1..Len(out) : out[k].clean => out[k].of = out[k].n /\ k = log.old + out[k].n
  /\ ~trouble /\ log.pc = "loop" => Len(out) = log.old + log.i

\* While the logger is at work, its records follow what a failed rm has left of an earlier
\* run, in the order of the iterations and at most one for each, whatever fails; and none
\* shows bits without a table they were read from, though it may be that of an older frame.
RecordsInOrder ==
  log.pc \notin {"open", "config", "stp_init", "erase"} /\ ~(log.pc = "exit" /\ log.ret = 1) =>
    /\ log.old <= Len(out) /\ Len(out) <= log.old + log.i
    /\ \A k \in 1..log.old : out[k] = OldRecord
    /\ \A j, k \in (log.old + 1)..Len(out) : j < k => out[j].n < out[k].n
    /\ \A k \in (log.old + 1)..Len(out) :
         out[k].n <= log.i /\ out[k].of # NoFile /\ out[k].of <= out[k].n

\* Every frame given to canWrite is a legal CAN or CAN FD frame: no remote FD frame, no bit
\* rate switch in a CAN frame, a length with a code for its type, an identifier in range.
FramesLegal ==
  log.pc = "send" =>
    LET f == log.frame IN
    /\ f.rtr = 1 => f.fr_type = 0 /\ f.data_length = 0
    /\ f.brs = 1 => f.fr_type = 1
    /\ f.data_length \in 0..8 \/ (f.fr_type = 1 /\ f.data_length \in {12, 16, 20, 24, 32, 48, 64})
    /\ f.brs = 0 => f.data_length <= 16
    /\ 0 <= f.id /\ f.id < (IF f.id_type = 1 THEN 536870912 ELSE 2048)

\* The log is faithful: each record the run adds shows a legal frame of this run, in order,
\* and without trouble every iteration has its record with the bits of its own frame.
LogFaithful == KTypeOK /\ CleanLogComplete /\ RecordsInOrder /\ FramesLegal

\* The logger leaves its surroundings in order: both channels set up or none, and no
\* analyzer left running (kvaser_init, stp_exit).
LeavesInOrder == ChannelsReady /\ AnalyzerStopped

\* The logger ends, or it waits for ever to write to a pipe that a missing, dead or still
\* armed analyzer does not read.
EndsUnlessBlocked ==
  \/ <>(log.pc \in {"exit", "crashed"})
  \/ <>[](Len(pipe) = PipeCap /\ stp.pc \in {"none", "dead", "armed"})
=============================================================================
