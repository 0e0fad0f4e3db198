------------------------ MODULE KvaserLogger_proofs ------------------------
(***************************************************************************)
(* Proofs about the logger: its channels and its child process are in      *)
(* order when it leaves, and its log is faithful, for every number of      *)
(* frames, size of the pipe and sequence of random values.                 *)
(***************************************************************************)
EXTENDS KvaserLogger, TLAPS

-----------------------------------------------------------------------------
(* The inductive invariant                                                  *)

\* The places of kvaalt_start_log before the output file is erased; in an iteration up to
\* its record; and all the others but the two ends.
SetupPcs  == {"open", "config", "stp_init", "erase"}
FramePcs  == {"run", "run_sleep", "send"}
RecordPcs == FramePcs \cup {"sync", "read", "wait_sleep", "export", "export_sleep", "process"}
OtherPcs  == {"session", "session_sleep", "loop", "close_sleep", "stp_exit"}
EndPcs    == {"exit", "crashed"}
Pcs       == SetupPcs \cup RecordPcs \cup OtherPcs \cup EndPcs

CanFrames ==
  [id_type : 0..1, fr_type : 0..1, brs : 0..1, rtr : 0..1, data_length : Nat, id : Nat]

Commands == [cmd : {"open_session", "run", "export", "close_session"}, i : 0..NumFrames]

Records == [n : 0..NumFrames, of : -2..NumFrames, clean : BOOLEAN]

LogTypes ==
  [pc : Pcs, i : 0..NumFrames, frame : CanFrames,
   ret : {0, 1, 139}, lib : BOOLEAN, writable : BOOLEAN, killed : {"none", "all", "child"},
   old : Nat]

StpTypes ==
  [pc : Alive \cup {"none", "forked", "dead", "reaped"}, session : BOOLEAN,
   job : 0..NumFrames, of : 0..NumFrames]

\* The full type invariant of which KTypeOK states what a run checks.
Types ==
  /\ log \in LogTypes
  /\ chan \in [0..1 -> {"closed", "open", "nominal", "data", "on"}]
  /\ txq \in Seq(0..NumFrames) /\ rxq \in Seq(0..NumFrames)
  /\ pipe \in Seq(Commands)
  /\ stp \in StpTypes
  /\ file \in -2..NumFrames
  /\ out \in Seq(Records)
  /\ trouble \in BOOLEAN

\* Which places go with which results, iterations and killed processes.
PcInv ==
  /\ log.pc \notin EndPcs => log.ret = 0
  /\ log.pc \in RecordPcs => log.i >= 1
  /\ log.pc \in SetupPcs \cup {"session", "session_sleep"} => log.i = 0
  /\ log.killed # "none" => log.pc = "exit" /\ log.ret = 0
  /\ log.pc = "exit" => log.ret \in {0, 1}

\* The channels, one after the other.
ChanInv ==
  /\ log.pc = "open" => chan[0] = "closed" /\ chan[1] = "closed"
  /\ log.pc = "config" =>
       \/ chan[0] \in {"open", "nominal", "data"} /\ chan[1] = "open"
       \/ chan[0] = "on" /\ chan[1] \in {"open", "nominal", "data"}
  /\ log.pc \notin {"open", "config", "exit"} \/ (log.pc = "exit" /\ log.ret = 0) =>
       chan[0] = "on" /\ chan[1] = "on"
  /\ log.pc = "exit" => (chan[0] = "on" <=> chan[1] = "on")

\* The child: none before stp_init, none left at the exit.
ChildInv ==
  /\ log.pc \in {"open", "config", "stp_init"} => stp.pc = "none"
  /\ log.pc = "exit" => stp.pc \in {"none", "reaped"}
  /\ stp.pc = "reaped" => log.pc = "exit"
  /\ log.killed = "all" => stp.pc = "none"

\* Each frame is queued once, and what shows a frame shows one that was generated.
Sent == IF log.pc \in FramePcs THEN log.i - 1 ELSE log.i

QueueInv ==
  /\ Len(pipe) <= PipeCap
  /\ log.pc \in SetupPcs => pipe = <<>>
  /\ Len(txq) + Len(rxq) <= Sent
  /\ \A k \in 1..Len(txq) : txq[k] <= log.i
  /\ stp.of <= log.i
  /\ file <= log.i

\* The records: what rm has left, then one for each iteration at most.
Recorded == IF log.pc \in RecordPcs THEN log.i - 1 ELSE log.i

OldInv ==
  /\ log.pc \in SetupPcs => log.old = 0
  /\ log.old <= Len(out)
  /\ \A k \in 1..log.old : out[k] = OldRecord
  /\ log.pc \in SetupPcs => \A k \in 1..Len(out) : out[k] = OldRecord

OutInv ==
  log.pc \notin SetupPcs /\ ~(log.pc = "exit" /\ log.ret = 1) =>
    /\ Len(out) <= log.old + Recorded
    /\ \A j, k \in (log.old + 1)..Len(out) : j < k => out[j].n < out[k].n
    /\ \A k \in (log.old + 1)..Len(out) :
         out[k].n <= Recorded /\ out[k].of # -1 /\ out[k].of <= out[k].n

CleanInv ==
  \A k \in 1..Len(out) : out[k].clean => out[k].of = out[k].n /\ k = log.old + out[k].n

LegalFrame(f) ==
  /\ f.rtr = 1 => f.fr_type = 0 /\ f.data_length = 0
  /\ f.brs = 1 => f.fr_type = 1
  /\ f.data_length \in 0..8 \/ (f.fr_type = 1 /\ f.data_length \in {12, 16, 20, 24, 32, 48, 64})
  /\ f.brs = 0 => f.data_length <= 16
  /\ 0 <= f.id /\ f.id < (IF f.id_type = 1 THEN 536870912 ELSE 2048)

FrameInv == log.pc \in FramePcs => LegalFrame(log.frame)

\* The analyzer is idle with nothing to read, and has a session or not.
Idle(session) == stp.pc = "idle" /\ pipe = <<>> /\ stp.session = session

\* It has one command before it, with a session or not.
Told(cmd, i, session) ==
  stp.pc = "idle" /\ pipe = <<[cmd |-> cmd, i |-> i]>> /\ stp.session = session

\* Where analyzer, pipe and bus can be at each place of the logger when nothing has failed
\* and no sleep has been too short: the logger's commands are carried out one by one, and
\* the recording, the table and the record are those of the frame of the iteration.
InStep ==
  /\ log.pc \in {"erase", "session", "session_sleep", "loop", "run", "run_sleep", "send",
                 "read", "wait_sleep", "export", "export_sleep", "process"} => txq = <<>>
  /\ log.pc \in {"erase", "session"} =>
       stp.pc \in {"forked", "idle"} /\ pipe = <<>>
  /\ log.pc = "session" => Len(out) = log.old
  /\ log.pc = "session_sleep" =>
       /\ Len(out) = log.old
       /\ \/ stp.pc \in {"forked", "idle"} /\ pipe = <<[cmd |-> "open_session", i |-> 0]>>
          \/ Idle(TRUE)
  /\ log.pc \in {"loop", "run"} => Idle(TRUE)
  /\ log.pc \in {"loop"} \cup RecordPcs => Len(out) = log.old + Recorded
  /\ log.pc = "run_sleep" =>
       \/ Told("run", log.i, TRUE)
       \/ stp.pc = "armed" /\ pipe = <<>> /\ stp.session /\ stp.job = log.i
  /\ log.pc = "send" =>
       stp.pc = "armed" /\ pipe = <<>> /\ stp.session /\ stp.job = log.i
  /\ log.pc = "sync" =>
       /\ pipe = <<>> /\ stp.session /\ stp.job = log.i
       /\ \/ txq = <<log.i>> /\ stp.pc = "armed"
          \/ txq = <<>> /\ stp.pc \in {"filling", "idle"} /\ stp.of = log.i
  /\ log.pc \in {"read", "wait_sleep"} =>
       /\ pipe = <<>> /\ stp.session /\ stp.job = log.i
       /\ stp.pc \in {"filling", "idle"} /\ stp.of = log.i
  /\ log.pc = "export" => Idle(TRUE) /\ stp.job = log.i /\ stp.of = log.i
  /\ log.pc = "export_sleep" =>
       \/ Told("export", log.i, TRUE) /\ stp.job = log.i /\ stp.of = log.i
       \/ stp.pc = "exporting" /\ pipe = <<>> /\ stp.session /\ stp.of = log.i
       \/ Idle(TRUE) /\ file = log.i
  /\ log.pc = "process" => Idle(TRUE) /\ file = log.i

StepInv == ~trouble => InStep

KInv ==
  /\ Types /\ PcInv /\ ChanInv /\ ChildInv /\ QueueInv /\ OldInv
  /\ OutInv /\ CleanInv /\ FrameInv /\ StepInv

-----------------------------------------------------------------------------
(* Types                                                                    *)

\* generate_can_frame makes a frame of a type.
LEMMA FrameTyped ==
  ASSUME NEW r \in Rands
  PROVE  generate_can_frame(r) \in CanFrames /\ LegalFrame(generate_can_frame(r))
<1> PICK a \in Nat, b \in Nat, c \in Nat, d \in Nat, e \in Nat :
      r = [id_type |-> a, fr_type |-> b, flag |-> c, length |-> d, id |-> e]
  BY LoggerAssumption, Zenon
<1>1. a % 2 \in 0..1 /\ b % 2 \in 0..1 /\ c % 2 \in 0..1
  OBVIOUS
<1>2. d % 8 \in 0..7 /\ d % 16 \in 0..15 /\ d % 11 \in 0..10
  OBVIOUS
<1>3. /\ e % 536870912 \in Nat /\ e % 536870912 < 536870912
      /\ e % 2048 \in Nat /\ e % 2048 < 2048
  BY SMT
<1> QED
  BY <1>1, <1>2, <1>3, SMT DEF generate_can_frame, CanFrames, LegalFrame, kvalt_dlc

\* The logger goes on at another place, with or without a result.
LEMMA GotoTyped ==
  ASSUME Types, NEW pc \in Pcs
  PROVE  /\ [log EXCEPT !.pc = pc] \in LogTypes
         /\ \A ret \in {0, 1, 139} : [log EXCEPT !.pc = pc, !.ret = ret] \in LogTypes
         /\ \A ret \in {0, 1, 139}, lib \in BOOLEAN :
              [log EXCEPT !.pc = pc, !.ret = ret, !.lib = lib] \in LogTypes
  BY ZenonT(60) DEF Types, LogTypes

\* A command that fits into the pipe.
LEMMA SendTyped ==
  ASSUME Types, NEW cmd \in {"open_session", "run", "export", "close_session"},
         NEW i \in 0..NumFrames, Send(cmd, i)
  PROVE  pipe' \in Seq(Commands) /\ Len(pipe') = Len(pipe) + 1
<1>1. [cmd |-> cmd, i |-> i] \in Commands
  BY Zenon DEF Commands
<1> QED
  BY <1>1 DEF Types, Send

\* The logger's iteration and the analyzer's state are of their types.
LEMMA FieldsTyped ==
  ASSUME Types
  PROVE  /\ log.pc \in Pcs /\ log.i \in 0..NumFrames /\ log.frame \in CanFrames
         /\ log.ret \in {0, 1, 139} /\ log.writable \in BOOLEAN /\ log.killed \in {"none", "all", "child"}
         /\ stp.pc \in Alive \cup {"none", "forked", "dead", "reaped"} /\ stp.session \in BOOLEAN
         /\ stp.job \in 0..NumFrames /\ stp.of \in 0..NumFrames
         /\ file \in -2..NumFrames /\ log.old \in Nat
  BY Zenon DEF Types, LogTypes, StpTypes

\* Every step keeps the types.
LEMMA TypesStep ==
  ASSUME Types, ChanInv, LoggerNext
  PROVE  Types'
<1>0. /\ SetupPcs \subseteq Pcs /\ RecordPcs \subseteq Pcs /\ FramePcs \subseteq Pcs
      /\ OtherPcs \subseteq Pcs /\ EndPcs \subseteq Pcs
  BY Zenon DEF Pcs, RecordPcs
<1>1. CASE OpenChannels
  <2>1. "config" \in Pcs /\ "exit" \in Pcs
    BY <1>0, Zenon DEF SetupPcs, EndPcs
  <2> QED
    BY <1>1, <2>1, GotoTyped, ZenonT(60) DEF Types, OpenChannels, InitResult
<1>2. CASE ConfigChannel
  <2>1. "config" \in Pcs /\ "stp_init" \in Pcs
    BY <1>0, Zenon DEF SetupPcs
  <2>2. log' \in LogTypes
    BY <1>2, <2>1, GotoTyped, Zenon DEF ConfigChannel, LogGoto
  <2>3. chan' \in [0..1 -> {"closed", "open", "nominal", "data", "on"}]
    BY <1>2 DEF Types, ChanInv, ConfigChannel, NextOf
  <2> QED
    BY <1>2, <2>2, <2>3, Zenon DEF Types, ConfigChannel
<1>3. CASE ErrorExit
  <2>1. "exit" \in Pcs
    BY <1>0, Zenon DEF EndPcs
  <2> QED
    BY <1>3, <2>1, GotoTyped, Zenon DEF Types, ErrorExit, InitResult
<1>4. CASE StpInit
  <2>1. "exit" \in Pcs /\ "erase" \in Pcs
    BY <1>0, Zenon DEF EndPcs, SetupPcs
  <2>2. log' \in LogTypes
    BY <1>4, <2>1, GotoTyped, ZenonT(60) DEF StpInit, LogGoto, Exit
  <2>3. stp' \in StpTypes /\ trouble' \in BOOLEAN
    BY <1>4, Zenon DEF Types, StpTypes, StpInit
  <2> QED
    BY <1>4, <2>2, <2>3, Zenon DEF Types, StpInit
<1>5. CASE EraseFile
  <2>1. "session" \in Pcs
    BY <1>0, Zenon DEF OtherPcs
  <2>2. out' \in Seq(Records) /\ Len(out') \in Nat
    <3>1. out \in Seq(Records) /\ (out' = <<>> \/ out' = out)
      BY <1>5, Zenon DEF Types, EraseFile
    <3>2. <<>> \in Seq(Records)
      OBVIOUS
    <3>3. out' \in Seq(Records)
      BY <3>1, <3>2, Zenon
    <3> QED
      BY <3>3
  <2>3. log' \in LogTypes
    BY <1>5, <2>1, <2>2, Zenon DEF Types, LogTypes, EraseFile
  <2> QED
    BY <1>5, <2>2, <2>3, Zenon DEF Types, EraseFile
<1>6. CASE StartSession
  <2>1. "session_sleep" \in Pcs
    BY <1>0, Zenon DEF OtherPcs
  <2>2. 0 \in 0..NumFrames
    BY LoggerAssumption
  <2> QED
    BY <1>6, <2>1, <2>2, GotoTyped, SendTyped, Zenon DEF Types, StartSession, LogGoto
<1>7. CASE Sleep
  <2>1. AfterSleep[log.pc] \in Pcs
    BY <1>0, <1>7 DEF Sleep, AfterSleep, OtherPcs, RecordPcs, FramePcs
  <2>2. trouble' \in BOOLEAN
    BY <1>7, Zenon DEF Sleep
  <2> QED
    BY <1>7, <2>1, <2>2, GotoTyped, Zenon DEF Types, Sleep, LogGoto
<1>8. CASE Generate
  <2>1. "run" \in Pcs
    BY <1>0, Zenon DEF FramePcs
  <2>2. PICK r \in Rands :
          log' = [log EXCEPT !.pc = "run", !.i = @ + 1, !.frame = generate_can_frame(r)]
    BY <1>8, Zenon DEF Generate
  <2>3. log.i + 1 \in 0..NumFrames
    BY <1>8, FieldsTyped, LoggerAssumption DEF Generate
  <2>4. log' \in LogTypes
    BY <2>1, <2>2, <2>3, FrameTyped, Zenon DEF Types, LogTypes
  <2> QED
    BY <1>8, <2>4, Zenon DEF Types, Generate
<1>9. CASE RunAquisition
  <2>1. "run_sleep" \in Pcs
    BY <1>0, Zenon DEF FramePcs
  <2> QED
    BY <1>9, <2>1, FieldsTyped, GotoTyped, SendTyped, Zenon DEF Types, RunAquisition, LogGoto
<1>10. CASE CanWrite
  <2>1. "sync" \in Pcs /\ "read" \in Pcs
    BY <1>0, Zenon DEF RecordPcs
  <2>2. log' \in LogTypes
    BY <1>10, <2>1, GotoTyped, ZenonT(60) DEF CanWrite, LogGoto
  <2>3. txq' \in Seq(0..NumFrames)
    <3> DEFINE S == 0..NumFrames
    <3>1. log.i \in S /\ txq \in Seq(S)
      BY FieldsTyped, Zenon DEF Types
    <3>2. txq' = txq \/ txq' = Append(txq, log.i)
      BY <1>10, Zenon DEF CanWrite
    <3> HIDE DEF S
    <3>3. txq' \in Seq(S)
      BY <3>1, <3>2
    <3> QED
      BY <3>3, Zenon DEF S
  <2>4. trouble' \in BOOLEAN
    BY <1>10, Zenon DEF Types, CanWrite
  <2> QED
    BY <1>10, <2>2, <2>3, <2>4, Zenon DEF Types, CanWrite
<1>11. CASE CanWriteSync
  <2>1. "read" \in Pcs
    BY <1>0, Zenon DEF RecordPcs
  <2>2. trouble' \in BOOLEAN
    BY <1>11, Zenon DEF CanWriteSync
  <2> QED
    BY <1>11, <2>1, <2>2, GotoTyped, Zenon DEF Types, CanWriteSync, LogGoto
<1>12. CASE ReadFrame
  <2>1. "wait_sleep" \in Pcs
    BY <1>0, Zenon DEF RecordPcs
  <2>2. rxq' \in Seq(0..NumFrames)
    <3> DEFINE S == 0..NumFrames
    <3>1. rxq \in Seq(S)
      BY Zenon DEF Types
    <3> HIDE DEF S
    <3>2. rxq' \in Seq(S)
      BY <1>12, <3>1 DEF ReadFrame
    <3> QED
      BY <3>2 DEF S
  <2> QED
    BY <1>12, <2>1, <2>2, GotoTyped, Zenon DEF Types, ReadFrame, LogGoto
<1>13. CASE ExportLog
  <2>1. "export_sleep" \in Pcs
    BY <1>0, Zenon DEF RecordPcs
  <2> QED
    BY <1>13, <2>1, FieldsTyped, GotoTyped, SendTyped, ZenonT(60) DEF Types, ExportLog, LogGoto
<1>14. CASE Process
  <2>1. "loop" \in Pcs
    BY <1>0, Zenon DEF OtherPcs
  <2>2. Record(log.i, file, ~trouble) \in Records
    <3>1. (~trouble) \in BOOLEAN
      BY Zenon
    <3> QED
      BY <3>1, FieldsTyped, ZenonT(60) DEF Record, Records, Types
  <2>3. out' \in Seq(Records)
    BY <1>14, <2>2 DEF Types, Process
  <2> QED
    BY <1>14, <2>1, <2>3, GotoTyped, Zenon DEF Types, Process, LogGoto
<1>15. CASE ProcessCrash
  <2>1. "crashed" \in Pcs
    BY <1>0, Zenon DEF EndPcs
  <2> QED
    BY <1>15, <2>1, GotoTyped, Zenon DEF Types, ProcessCrash, Exit
<1>16. CASE CloseSession
  <2>1. "close_sleep" \in Pcs
    BY <1>0, Zenon DEF OtherPcs
  <2>2. 0 \in 0..NumFrames
    BY LoggerAssumption
  <2> QED
    BY <1>16, <2>1, <2>2, GotoTyped, SendTyped, Zenon DEF Types, CloseSession, LogGoto
<1>17. CASE StpExit
  <2>1. "exit" \in Pcs
    BY <1>0 DEF EndPcs
  <2>2. log' \in LogTypes
    BY <1>17, <2>1, ZenonT(60) DEF Types, LogTypes, StpExit
  <2>3. stp' \in StpTypes
    BY <1>17, Zenon DEF Types, StpTypes, StpExit
  <2> QED
    BY <1>17, <2>2, <2>3, Zenon DEF Types, StpExit
<1>18. CASE ChildExec
  <2>1. stp' \in StpTypes /\ trouble' \in BOOLEAN
    BY <1>18, Zenon DEF Types, StpTypes, Alive, ChildExec
  <2> QED
    BY <1>18, <2>1, Zenon DEF Types, ChildExec
<1>19. CASE StpCommand
  <2>1. Head(pipe) \in Commands /\ pipe' \in Seq(Commands)
    BY <1>19 DEF Types, StpCommand
  <2>2. Head(pipe).i \in 0..NumFrames
    BY <2>1, Zenon DEF Commands
  <2>3. stp' \in StpTypes
    BY <1>19, <2>2, ZenonT(60) DEF Types, StpTypes, Alive, StpCommand
  <2>4. trouble' \in BOOLEAN
    BY <1>19, Zenon DEF Types, StpCommand
  <2>5. file' \in -2..NumFrames
    <3>1. EmptyFile \in -2..NumFrames
      BY LoggerAssumption DEF EmptyFile
    <3> QED
      BY <1>19, <3>1, Zenon DEF Types, StpCommand
  <2> QED
    BY <1>19, <2>1, <2>3, <2>4, <2>5, Zenon DEF Types, StpCommand
<1>20. CASE StpFinish
  <2>1. stp' \in StpTypes
    BY <1>20, Zenon DEF Types, StpTypes, Alive, StpFinish
  <2>2. file' \in -2..NumFrames
    BY <1>20, FieldsTyped, LoggerAssumption DEF Types, StpFinish
  <2> QED
    BY <1>20, <2>1, <2>2, Zenon DEF Types, StpFinish
<1>21. CASE StpEof
  <2>1. stp' \in StpTypes
    BY <1>21, Zenon DEF Types, StpTypes, StpEof
  <2> QED
    BY <1>21, <2>1, Zenon DEF Types, StpEof
<1>22. CASE Transmit
  <2>1. Head(txq) \in 0..NumFrames /\ txq' \in Seq(0..NumFrames) /\ rxq' \in Seq(0..NumFrames)
    <3> DEFINE S == 0..NumFrames
    <3>1. txq \in Seq(S) /\ rxq \in Seq(S)
      BY Zenon DEF Types
    <3> HIDE DEF S
    <3>2. Head(txq) \in S /\ txq' \in Seq(S) /\ rxq' \in Seq(S)
      <4>1. txq # <<>> /\ txq' = Tail(txq) /\ rxq' = Append(rxq, Head(txq))
        BY <1>22, Zenon DEF Transmit
      <4>2. Head(txq) \in S /\ Tail(txq) \in Seq(S)
        BY <3>1, <4>1
      <4> QED
        BY <3>1, <4>1, <4>2
    <3> QED
      BY <3>2, Zenon DEF S
  <2>2. stp' \in StpTypes
    BY <1>22, <2>1, ZenonT(60) DEF Types, StpTypes, Alive, Transmit
  <2> QED
    BY <1>22, <2>1, <2>2, Zenon DEF Types, Transmit
<1> QED
  BY <1>1, <1>2, <1>3, <1>4, <1>5, <1>6, <1>7, <1>8, <1>9, <1>10, <1>11, <1>12, <1>13, Zenon,
     <1>14, <1>15, <1>16, <1>17, <1>18, <1>19, <1>20, <1>21, <1>22
     DEF LoggerNext, Logger, Analyzer

-----------------------------------------------------------------------------
(* Channels and child process                                               *)

\* What a step to another place leaves of the logger's state.
LEMMA GotoFields ==
  ASSUME Types, NEW pc, LogGoto(pc)
  PROVE  /\ log'.pc = pc /\ log'.i = log.i /\ log'.frame = log.frame /\ log'.ret = log.ret
         /\ log'.writable = log.writable /\ log'.killed = log.killed /\ log'.old = log.old
  BY Zenon DEF Types, LogTypes, LogGoto

\* The same for a step that ends the program.
LEMMA ExitFields ==
  ASSUME Types, NEW pc, NEW ret, Exit(pc, ret)
  PROVE  /\ log'.pc = pc /\ log'.i = log.i /\ log'.ret = ret /\ log'.killed = log.killed
         /\ log'.old = log.old
  BY Zenon DEF Types, LogTypes, Exit

\* The same for a step that ends a call of kvaser_init.
LEMMA ResultFields ==
  ASSUME Types, NEW pc, NEW ret, \E lib \in BOOLEAN : InitResult(pc, ret, lib)
  PROVE  /\ log'.pc = pc /\ log'.i = log.i /\ log'.ret = ret /\ log'.killed = log.killed
         /\ log'.old = log.old
  BY DEF Types, LogTypes, InitResult

\* A step of the analyzer's process changes nothing else of it.
LEMMA StpPcFields ==
  ASSUME Types, NEW pc, stp' = [stp EXCEPT !.pc = pc]
  PROVE  /\ stp'.pc = pc /\ stp'.session = stp.session /\ stp'.job = stp.job /\ stp'.of = stp.of
  BY Zenon DEF Types, StpTypes

\* The next iteration, with a frame of generate_can_frame.
LEMMA GenerateFields ==
  ASSUME Types, Generate
  PROVE  /\ log'.pc = "run" /\ log'.i = log.i + 1 /\ log'.ret = log.ret /\ log'.killed = log.killed
         /\ log'.old = log.old
         /\ \E r \in Rands : log'.frame = generate_can_frame(r)
  BY DEF Types, LogTypes, Generate

\* What erase_file changes.
LEMMA EraseFields ==
  ASSUME Types, EraseFile
  PROVE  /\ log.pc = "erase" /\ log'.pc = "session" /\ log'.i = log.i /\ log'.frame = log.frame
         /\ log'.ret = log.ret /\ log'.killed = log.killed /\ log'.old = Len(out')
         /\ out' = <<>> \/ out' = out
         /\ UNCHANGED <<chan, txq, rxq, pipe, stp, file, trouble>>
  BY Zenon DEF Types, LogTypes, EraseFile

\* What stp_exit leaves of the logger and of the analyzer.
LEMMA StpExitFields ==
  ASSUME Types, StpExit
  PROVE  /\ log'.pc = "exit" /\ log'.i = log.i /\ log'.ret = log.ret /\ log'.old = log.old
         /\ log'.killed = IF stp.pc = "none" THEN "all" ELSE "child"
         /\ stp'.pc = IF stp.pc = "none" THEN "none" ELSE "reaped"
         /\ stp'.of = stp.of
  BY Zenon DEF Types, LogTypes, StpTypes, StpExit

\* What a command does to the analyzer.
LEMMA StpCommandFields ==
  ASSUME Types, StpCommand
  PROVE  /\ Head(pipe) \in Commands /\ stp'.pc \in {"idle", "armed", "exporting"} /\ stp'.of = stp.of
         /\ Head(pipe).cmd = "open_session" =>
              stp'.pc = "idle" /\ stp'.job = stp.job /\ (~trouble' => ~trouble /\ stp'.session)
         /\ Head(pipe).cmd = "run" /\ stp.session =>
              stp'.pc = "armed" /\ stp'.session /\ stp'.job = Head(pipe).i /\ trouble' = trouble
         /\ Head(pipe).cmd = "export" /\ stp.session /\ stp.job = Head(pipe).i =>
              stp'.pc = "exporting" /\ stp'.session /\ stp'.job = stp.job /\ trouble' = trouble
<1>1. Head(pipe) \in Commands
  BY DEF Types, StpCommand
<1>2. stp'.pc \in {"idle", "armed", "exporting"} /\ stp'.of = stp.of
  BY Zenon DEF Types, StpTypes, StpCommand
<1>3. ASSUME Head(pipe).cmd = "open_session"
      PROVE  stp'.pc = "idle" /\ stp'.job = stp.job /\ (~trouble' => ~trouble /\ stp'.session)
  <2>1. PICK found \in BOOLEAN : stp' = [stp EXCEPT !.session = found] /\ trouble' = (trouble \/ ~found)
    BY <1>3, Zenon DEF StpCommand
  <2>2. stp'.pc = stp.pc /\ stp'.job = stp.job /\ stp'.session = found
    BY <2>1, Zenon DEF Types, StpTypes
  <2>3. ~trouble' => ~trouble /\ found
    BY <2>1, Zenon
  <2> QED
    BY <2>2, <2>3, Zenon DEF StpCommand
<1>4. ASSUME Head(pipe).cmd = "run", stp.session
      PROVE  stp'.pc = "armed" /\ stp'.session /\ stp'.job = Head(pipe).i /\ trouble' = trouble
  <2>1. stp' = [stp EXCEPT !.pc = "armed", !.job = Head(pipe).i] /\ trouble' = trouble
    BY <1>4, Zenon DEF StpCommand
  <2> QED
    BY <1>4, <2>1, Zenon DEF Types, StpTypes
<1>5. ASSUME Head(pipe).cmd = "export", stp.session, stp.job = Head(pipe).i
      PROVE  stp'.pc = "exporting" /\ stp'.session /\ stp'.job = stp.job /\ trouble' = trouble
  <2>1. stp' = [stp EXCEPT !.pc = "exporting"] /\ trouble' = trouble
    BY <1>5, Zenon DEF StpCommand
  <2> QED
    BY <1>5, <2>1, Zenon DEF Types, StpTypes
<1> QED
  BY <1>1, <1>2, <1>3, <1>4, <1>5, Zenon

\* Every step keeps the order of kvaser_init, and that of stp_init and stp_exit.
LEMMA SetupStep ==
  ASSUME Types, PcInv, ChanInv, ChildInv, LoggerNext
  PROVE  PcInv' /\ ChanInv' /\ ChildInv'
<1> USE FieldsTyped DEF PcInv, ChanInv, ChildInv, SetupPcs, FramePcs, RecordPcs, EndPcs
<1>1. CASE OpenChannels
  <2>1. PICK opened \in SUBSET (0..1) :
          /\ chan' = [c \in 0..1 |-> IF c \in opened THEN "open" ELSE "closed"]
          /\ IF opened = 0..1 THEN InitResult("config", 0, TRUE) ELSE InitResult("exit", 1, TRUE)
    BY <1>1, Zenon DEF OpenChannels
  <2>2. chan'[0] \in {"open", "closed"} /\ chan'[1] \in {"open", "closed"}
    BY <2>1
  <2>3. CASE opened = 0..1
    <3>1. \E lib \in BOOLEAN : InitResult("config", 0, lib)
      BY <2>1, <2>3, Zenon
    <3> QED
      BY <1>1, <2>1, <2>3, <3>1, ResultFields DEF OpenChannels
  <2>4. CASE opened # 0..1
    <3>1. \E lib \in BOOLEAN : InitResult("exit", 1, lib)
      BY <2>1, <2>4, Zenon
    <3> QED
      BY <1>1, <2>2, <3>1, ResultFields DEF OpenChannels
  <2> QED
    BY <2>3, <2>4, Zenon
<1>2. CASE ConfigChannel
  <2>1. LogGoto(IF chan'[1] = "on" THEN "stp_init" ELSE "config")
    BY <1>2, Zenon DEF ConfigChannel
  <2>2. \/ chan'[0] \in {"open", "nominal", "data"} /\ chan'[1] = "open"
        \/ chan'[0] = "on" /\ chan'[1] \in {"open", "nominal", "data", "on"}
    BY <1>2 DEF Types, ConfigChannel, NextOf
  <2> QED
    BY <1>2, <2>1, <2>2, GotoFields DEF ConfigChannel
<1>3. CASE ErrorExit
  <2>1. \E lib \in BOOLEAN : InitResult("exit", 1, lib)
    BY <1>3, Zenon DEF ErrorExit
  <2> QED
    BY <1>3, <2>1, ResultFields DEF ErrorExit
<1>4. CASE StpInit
  <2>1. CASE Exit("exit", 1) /\ UNCHANGED stp
    BY <1>4, <2>1, ExitFields DEF StpInit
  <2>2. CASE LogGoto("erase")
    BY <1>4, <2>2, GotoFields, StpPcFields DEF StpInit
  <2> QED
    BY <1>4, <2>1, <2>2, Zenon DEF StpInit
<1>5. CASE EraseFile
  BY <1>5, EraseFields, Zenon
<1>6. CASE StartSession
  BY <1>6, GotoFields DEF StartSession
<1>7. CASE Sleep
  BY <1>7, GotoFields DEF Sleep, AfterSleep
<1>8. CASE Generate
  <2>1. log.pc = "loop" /\ UNCHANGED <<chan, stp>>
    BY <1>8, Zenon DEF Generate
  <2> QED
    BY <1>8, <2>1, GenerateFields
<1>9. CASE RunAquisition
  BY <1>9, GotoFields DEF RunAquisition
<1>10. CASE CanWrite
  BY <1>10, GotoFields DEF CanWrite
<1>11. CASE CanWriteSync
  BY <1>11, GotoFields DEF CanWriteSync
<1>12. CASE ReadFrame
  BY <1>12, GotoFields DEF ReadFrame
<1>13. CASE ExportLog
  BY <1>13, GotoFields DEF ExportLog
<1>14. CASE Process
  BY <1>14, GotoFields DEF Process
<1>15. CASE ProcessCrash
  BY <1>15, ExitFields DEF ProcessCrash
<1>16. CASE CloseSession
  BY <1>16, GotoFields DEF CloseSession
<1>17. CASE StpExit
  <2>1. log.pc = "stp_exit" /\ UNCHANGED chan
    BY <1>17, Zenon DEF StpExit
  <2> QED
    BY <1>17, <2>1, StpExitFields, Zenon
<1>18. CASE ChildExec
  BY <1>18, StpPcFields DEF ChildExec
<1>19. CASE StpCommand
  <2>1. stp.pc = "idle" /\ UNCHANGED <<log, chan>>
    BY <1>19, Zenon DEF StpCommand
  <2> QED
    BY <1>19, <2>1, StpCommandFields, Zenon
<1>20. CASE StpFinish
  BY <1>20, StpPcFields DEF StpFinish
<1>21. CASE StpEof
  BY <1>21, StpPcFields DEF StpEof
<1>22. CASE Transmit
  <2>1. stp'.pc = stp.pc \/ (stp.pc = "armed" /\ stp'.pc = "filling")
    BY <1>22, Zenon DEF Types, StpTypes, Transmit
  <2>2. UNCHANGED <<log, chan>>
    BY <1>22, Zenon DEF Transmit
  <2> QED
    BY <2>1, <2>2
<1> QED
  BY ZenonT(60), <1>1, <1>2, <1>3, <1>4, <1>5, <1>6, <1>7, <1>8, <1>9, <1>10, <1>11, <1>12, <1>13,
     <1>14, <1>15, <1>16, <1>17, <1>18, <1>19, <1>20, <1>21, <1>22
     DEF LoggerNext, Logger, Analyzer

-----------------------------------------------------------------------------
(* Queues, pipe and records                                                 *)

\* A command in the pipe, and where the logger goes on.
LEMMA SendFields ==
  ASSUME Types, NEW cmd, NEW i, Send(cmd, i), Len(pipe) <= PipeCap
  PROVE  Len(pipe') <= PipeCap /\ (pipe = <<>> => pipe' = <<[cmd |-> cmd, i |-> i]>>)
<1>1. pipe' = Append(pipe, [cmd |-> cmd, i |-> i]) /\ Len(pipe) < PipeCap
  BY Zenon DEF Send
<1>2. pipe \in Seq(Commands)
  BY Zenon DEF Types
<1>3. Len(pipe') = Len(pipe) + 1
  BY <1>1, <1>2
<1>4. pipe = <<>> => pipe' = <<[cmd |-> cmd, i |-> i]>>
  BY <1>1
<1> QED
  BY <1>1, <1>2, <1>3, <1>4, LoggerAssumption

\* The frames of a queue stay below a bound that grows, and so do those of its tail.
LEMMA QueueBound ==
  ASSUME NEW n \in Nat, NEW q \in Seq(0..n), NEW i \in Nat, NEW j \in Nat, i <= j,
         \A k \in 1..Len(q) : q[k] <= i
  PROVE  /\ \A k \in 1..Len(q) : q[k] <= j
         /\ q # <<>> => Head(q) <= i /\ \A k \in 1..Len(Tail(q)) : Tail(q)[k] <= i
<1>1. \A k \in 1..Len(q) : q[k] \in Nat
  OBVIOUS
<1>2. \A k \in 1..Len(q) : q[k] <= j
  BY <1>1
<1>3. ASSUME q # <<>>
      PROVE  Head(q) <= i /\ \A k \in 1..Len(Tail(q)) : Tail(q)[k] <= i
  <2>1. Len(q) \in Nat /\ Len(q) >= 1 /\ Head(q) = q[1] /\ Len(Tail(q)) = Len(q) - 1
    BY <1>3
  <2>2. \A k \in 1..Len(Tail(q)) : Tail(q)[k] = q[k + 1] /\ k + 1 \in 1..Len(q)
    BY <1>3, <2>1
  <2> QED
    BY <2>1, <2>2
<1> QED
  BY <1>2, <1>3, Zenon

\* The length and the frames of a queue.
LEMMA QueueFields ==
  ASSUME NEW n \in Nat, NEW q \in Seq(0..n)
  PROVE  /\ Len(q) \in Nat /\ \A k \in 1..Len(q) : q[k] \in 0..n
         /\ q # <<>> => Head(q) \in 0..n /\ Len(Tail(q)) = Len(q) - 1
  OBVIOUS

\* A frame at the end of a queue.
LEMMA QueueAppend ==
  ASSUME NEW n \in Nat, NEW q \in Seq(0..n), NEW i \in 0..n
  PROVE  /\ Len(Append(q, i)) = Len(q) + 1
         /\ (\A k \in 1..Len(q) : q[k] <= i) =>
              \A k \in 1..Len(Append(q, i)) : Append(q, i)[k] <= i
  OBVIOUS

\* Every step keeps each frame in one queue, and what shows a frame behind the iteration.
LEMMA QueueStep ==
  ASSUME Types, PcInv, QueueInv, LoggerNext
  PROVE  QueueInv'
<1>0. txq \in Seq(0..NumFrames) /\ rxq \in Seq(0..NumFrames) /\ pipe \in Seq(Commands)
  BY Zenon DEF Types
<1>n. NumFrames \in Nat /\ log.i \in 0..NumFrames /\ log.i \in Nat /\ log.i + 1 \in Nat
  BY FieldsTyped, LoggerAssumption
<1>l. /\ Len(txq) \in Nat /\ Len(rxq) \in Nat
      /\ \A k \in 1..Len(txq) : txq[k] \in 0..NumFrames
  BY <1>0, <1>n, QueueFields, Zenon
<1>q. \A k \in 1..Len(txq) : txq[k] <= log.i
  BY Zenon DEF QueueInv
<1>g. \A k \in 1..Len(txq) : txq[k] <= log.i + 1
  BY <1>0, <1>n, <1>q, QueueBound
<1>a. /\ Len(Append(txq, log.i)) = Len(txq) + 1
      /\ \A k \in 1..Len(Append(txq, log.i)) : Append(txq, log.i)[k] <= log.i
  BY <1>0, <1>n, <1>q, QueueAppend, Zenon
<1>t. ASSUME txq # <<>>
      PROVE  /\ Len(Tail(txq)) = Len(txq) - 1 /\ Len(Append(rxq, Head(txq))) = Len(rxq) + 1
             /\ Head(txq) <= log.i /\ \A k \in 1..Len(Tail(txq)) : Tail(txq)[k] <= log.i
  <2>1. Head(txq) <= log.i /\ \A k \in 1..Len(Tail(txq)) : Tail(txq)[k] <= log.i
    <3>1. log.i <= log.i
      BY <1>n
    <3> QED
      BY <1>0, <1>n, <1>q, <1>t, <3>1, QueueBound, Zenon
  <2>2. Len(Tail(txq)) = Len(txq) - 1 /\ Head(txq) \in 0..NumFrames
    BY <1>0, <1>n, <1>t, QueueFields, Zenon
  <2>3. Len(Append(rxq, Head(txq))) = Len(rxq) + 1
    BY <1>0, <1>n, <2>2, QueueAppend, Zenon
  <2> QED
    BY <2>1, <2>2, <2>3, Zenon
<1>f. stp.of <= log.i /\ file <= log.i /\ Len(pipe) <= PipeCap
  BY Zenon DEF QueueInv
<1>k. ASSUME log'.i = log.i, log'.pc \notin SetupPcs, log'.pc \in FramePcs => log.pc \in FramePcs,
             UNCHANGED txq, Len(rxq') \in Nat, Len(rxq') <= Len(rxq), Len(pipe') <= PipeCap,
             stp'.of = stp.of, file' <= log.i
      PROVE  QueueInv'
  <2>1. Sent <= Sent' /\ Sent \in Int /\ Sent' \in Int
    BY <1>k, <1>n DEF Sent
  <2>2. Len(txq') + Len(rxq') <= Sent'
    <3>1. Len(txq) + Len(rxq) <= Sent
      BY Zenon DEF QueueInv
    <3> QED
      BY <1>k, <1>l, <2>1, <3>1
  <2> QED
    BY <1>f, <1>k, <1>q, <2>2, Zenon DEF QueueInv
<1> USE FieldsTyped, LoggerAssumption DEF QueueInv, PcInv, Sent, SetupPcs, FramePcs, RecordPcs
<1>1. CASE OpenChannels
  <2>1. log.pc = "open" /\ log'.pc \in {"config", "exit"} /\ log'.i = log.i
    <3>1. \/ \E lib \in BOOLEAN : InitResult("config", 0, lib)
          \/ \E lib \in BOOLEAN : InitResult("exit", 1, lib)
      BY <1>1, Zenon DEF OpenChannels
    <3> QED
      BY <1>1, <3>1, ResultFields, Zenon DEF OpenChannels
  <2> QED
    BY <1>1, <2>1, Zenon DEF OpenChannels
<1>2. CASE ConfigChannel
  BY <1>2, GotoFields DEF ConfigChannel
<1>3. CASE ErrorExit
  <2>1. log.pc = "config" /\ log'.pc = "exit" /\ log'.i = log.i
    BY <1>3, Zenon DEF ErrorExit, InitResult, Types, LogTypes
  <2> QED
    BY <1>3, <2>1, Zenon DEF ErrorExit
<1>4. CASE StpInit
  <2>1. log.pc = "stp_init" /\ log'.pc \in {"exit", "erase"} /\ log'.i = log.i
    BY <1>4, ExitFields, GotoFields, Zenon DEF StpInit
  <2>2. stp'.of = stp.of
    BY <1>4, StpPcFields, Zenon DEF StpInit
  <2> QED
    BY <1>4, <2>1, <2>2, Zenon DEF StpInit
<1>5. CASE EraseFile
  BY <1>5, EraseFields, Zenon
<1>6. CASE StartSession
  <2>1. log.pc = "session" /\ UNCHANGED <<txq, rxq, stp, file>>
    BY <1>6, Zenon DEF StartSession
  <2>2. log'.pc = "session_sleep" /\ log'.i = log.i
    BY <1>6, GotoFields, Zenon DEF StartSession
  <2>3. Len(pipe') <= PipeCap
    BY <1>6, <1>f, SendFields, Zenon DEF StartSession
  <2>4. log'.pc \notin SetupPcs /\ (log'.pc \in FramePcs => log.pc \in FramePcs)
    BY <2>1, <2>2
  <2>5. Len(rxq') \in Nat /\ Len(rxq') <= Len(rxq)
    BY <1>l, <2>1
  <2> QED
    BY <1>f, <1>k, <2>1, <2>2, <2>3, <2>4, <2>5, Zenon
<1>7. CASE Sleep
  <2>1. log.pc = "run_sleep" \/ log.pc \notin FramePcs \cup SetupPcs
    BY <1>7, Zenon DEF Sleep, AfterSleep
  <2>2. log.pc = "run_sleep" => log'.pc = "send"
    BY <1>7, GotoFields DEF Sleep, AfterSleep
  <2>3. log.pc # "run_sleep" => log'.pc \notin FramePcs \cup SetupPcs
    BY <1>7, GotoFields DEF Sleep, AfterSleep
  <2>4. log'.i = log.i
    BY <1>7, GotoFields, Zenon DEF Sleep
  <2> QED
    BY <1>7, <2>1, <2>2, <2>3, <2>4, Zenon DEF Sleep
<1>8. CASE Generate
  <2>1. log.pc = "loop" /\ UNCHANGED <<txq, rxq, pipe, stp, file>>
    BY <1>8, Zenon DEF Generate
  <2>2. log'.pc = "run" /\ log'.i = log.i + 1
    BY <1>8, GenerateFields, Zenon
  <2>3. \A k \in 1..Len(txq') : txq'[k] <= log'.i
    BY <1>g, <2>1, <2>2, Zenon
  <2>4. Len(txq') + Len(rxq') <= Sent'
    BY <1>l, <2>1, <2>2
  <2> QED
    BY <2>1, <2>2, <2>3, <2>4, SMTT(30)
<1>9. CASE RunAquisition
  <2>1. log.pc = "run" /\ UNCHANGED <<txq, rxq, stp, file>>
    BY <1>9, Zenon DEF RunAquisition
  <2>2. log'.pc = "run_sleep" /\ log'.i = log.i
    BY <1>9, GotoFields, Zenon DEF RunAquisition
  <2>3. Len(pipe') <= PipeCap
    BY <1>9, <1>f, SendFields, Zenon DEF RunAquisition
  <2>4. log'.pc \notin SetupPcs /\ (log'.pc \in FramePcs => log.pc \in FramePcs)
    BY <2>1, <2>2
  <2>5. Len(rxq') \in Nat /\ Len(rxq') <= Len(rxq)
    BY <1>l, <2>1
  <2> QED
    BY <1>f, <1>k, <2>1, <2>2, <2>3, <2>4, <2>5, Zenon
<1>10. CASE CanWrite
  <2>1. log.pc = "send" /\ UNCHANGED <<rxq, pipe, stp, file>> /\ log'.i = log.i
    BY <1>10, GotoFields, Zenon DEF CanWrite
  <2>2. CASE txq' = Append(txq, log.i) /\ LogGoto("sync")
    <3>1. Len(txq') = Len(txq) + 1 /\ \A k \in 1..Len(txq') : txq'[k] <= log.i
      BY <1>a, <2>2, Zenon
    <3>2. log'.pc = "sync"
      BY <2>2, GotoFields, Zenon
    <3> QED
      BY <1>l, <2>1, <3>1, <3>2
  <2>3. CASE LogGoto("read") /\ UNCHANGED txq
    <3>1. log'.pc = "read"
      BY <2>3, GotoFields, Zenon
    <3> QED
      BY <1>l, <2>1, <2>3, <3>1
  <2> QED
    BY <1>10, <2>2, <2>3, Zenon DEF CanWrite
<1>11. CASE CanWriteSync
  <2>1. log.pc = "sync" /\ UNCHANGED <<txq, rxq, pipe, stp, file>>
    BY <1>11, Zenon DEF CanWriteSync
  <2>2. log'.pc = "read" /\ log'.i = log.i
    BY <1>11, GotoFields, Zenon DEF CanWriteSync
  <2>3. log'.pc \notin SetupPcs /\ (log'.pc \in FramePcs => log.pc \in FramePcs)
    BY <2>1, <2>2
  <2>4. Len(rxq') \in Nat /\ Len(rxq') <= Len(rxq)
    BY <1>l, <2>1
  <2> QED
    BY <1>f, <1>k, <2>1, <2>2, <2>3, <2>4, Zenon
<1>12. CASE ReadFrame
  <2>1. log.pc = "read" /\ UNCHANGED <<txq, pipe, stp, file>>
    BY <1>12, Zenon DEF ReadFrame
  <2>2. log'.pc = "wait_sleep" /\ log'.i = log.i
    BY <1>12, GotoFields, Zenon DEF ReadFrame
  <2>3. log'.pc \notin SetupPcs /\ (log'.pc \in FramePcs => log.pc \in FramePcs)
    BY <2>1, <2>2
  <2>4. Len(rxq') \in Nat /\ Len(rxq') <= Len(rxq)
    <3>1. CASE rxq = <<>>
      <4>1. rxq' = rxq
        BY <1>12, <3>1, Zenon DEF ReadFrame
      <4> QED
        BY <1>l, <4>1
    <3>2. CASE rxq # <<>>
      <4>1. rxq' = Tail(rxq)
        BY <1>12, <3>2, Zenon DEF ReadFrame
      <4> QED
        BY <1>0, <3>2, <4>1
    <3> QED
      BY <3>1, <3>2, Zenon
  <2> QED
    BY <1>f, <1>k, <2>1, <2>2, <2>3, <2>4, Zenon
<1>13. CASE ExportLog
  <2>1. log.pc = "export" /\ UNCHANGED <<txq, rxq, stp, file>>
    BY <1>13, Zenon DEF ExportLog
  <2>2. log'.pc = "export_sleep" /\ log'.i = log.i
    BY <1>13, GotoFields, Zenon DEF ExportLog
  <2>3. Len(pipe') <= PipeCap
    BY <1>13, <1>f, SendFields, Zenon DEF ExportLog
  <2>4. log'.pc \notin SetupPcs /\ (log'.pc \in FramePcs => log.pc \in FramePcs)
    BY <2>1, <2>2
  <2>5. Len(rxq') \in Nat /\ Len(rxq') <= Len(rxq)
    BY <1>l, <2>1
  <2> QED
    BY <1>f, <1>k, <2>1, <2>2, <2>3, <2>4, <2>5, Zenon
<1>14. CASE Process
  <2>1. log.pc = "process" /\ UNCHANGED <<txq, rxq, pipe, stp, file>>
    BY <1>14, Zenon DEF Process
  <2>2. log'.pc = "loop" /\ log'.i = log.i
    BY <1>14, GotoFields, Zenon DEF Process
  <2>3. log'.pc \notin SetupPcs /\ (log'.pc \in FramePcs => log.pc \in FramePcs)
    BY <2>1, <2>2
  <2>4. Len(rxq') \in Nat /\ Len(rxq') <= Len(rxq)
    BY <1>l, <2>1
  <2> QED
    BY <1>f, <1>k, <2>1, <2>2, <2>3, <2>4, Zenon
<1>15. CASE ProcessCrash
  <2>1. log.pc = "process" /\ UNCHANGED <<txq, rxq, pipe, stp, file>>
    BY <1>15, Zenon DEF ProcessCrash
  <2>2. log'.pc = "crashed" /\ log'.i = log.i
    BY <1>15, ExitFields, Zenon DEF ProcessCrash
  <2>3. log'.pc \notin SetupPcs /\ (log'.pc \in FramePcs => log.pc \in FramePcs)
    BY <2>1, <2>2
  <2>4. Len(rxq') \in Nat /\ Len(rxq') <= Len(rxq)
    BY <1>l, <2>1
  <2> QED
    BY <1>f, <1>k, <2>1, <2>2, <2>3, <2>4, Zenon
<1>16. CASE CloseSession
  <2>1. log.pc = "loop" /\ UNCHANGED <<txq, rxq, stp, file>>
    BY <1>16, Zenon DEF CloseSession
  <2>2. log'.pc = "close_sleep" /\ log'.i = log.i
    BY <1>16, GotoFields, Zenon DEF CloseSession
  <2>3. Len(pipe') <= PipeCap
    BY <1>16, <1>f, SendFields, Zenon DEF CloseSession
  <2>4. log'.pc \notin SetupPcs /\ (log'.pc \in FramePcs => log.pc \in FramePcs)
    BY <2>1, <2>2
  <2>5. Len(rxq') \in Nat /\ Len(rxq') <= Len(rxq)
    BY <1>l, <2>1
  <2> QED
    BY <1>f, <1>k, <2>1, <2>2, <2>3, <2>4, <2>5, Zenon
<1>17. CASE StpExit
  <2>1. log.pc = "stp_exit" /\ UNCHANGED <<txq, rxq, pipe, file>>
    BY <1>17, Zenon DEF StpExit
  <2> QED
    BY <1>17, <2>1, StpExitFields, Zenon
<1>18. CASE ChildExec
  BY <1>18, StpPcFields, Zenon DEF ChildExec
<1>19. CASE StpCommand
  <2>1. UNCHANGED <<log, txq, rxq>> /\ (file' = file \/ file' = -2)
    BY <1>19, Zenon DEF StpCommand, EmptyFile
  <2>2. pipe # <<>> /\ pipe' = Tail(pipe)
    BY <1>19, Zenon DEF StpCommand
  <2>3. Len(pipe') <= PipeCap
    BY <1>0, <1>f, <2>2
  <2>4. log'.pc \notin SetupPcs
    BY <2>1, <2>2, Zenon
  <2>5. Len(rxq') \in Nat /\ Len(rxq') <= Len(rxq) /\ file' <= log.i
    BY <1>f, <1>l, <1>n, <2>1
  <2>6. stp'.of = stp.of
    BY <1>19, StpCommandFields, Zenon
  <2> QED
    BY <1>k, <2>1, <2>3, <2>4, <2>5, <2>6, Zenon
<1>20. CASE StpFinish
  <2>1. file' = file \/ file' = stp.of
    BY <1>20 DEF StpFinish
  <2> QED
    BY <1>20, <2>1, StpPcFields, Zenon DEF StpFinish
<1>21. CASE StpEof
  BY <1>21, StpPcFields, Zenon DEF StpEof
<1>22. CASE Transmit
  <2>1. UNCHANGED <<log, pipe, file>> /\ txq # <<>> /\ txq' = Tail(txq) /\ rxq' = Append(rxq, Head(txq))
    BY <1>22, Zenon DEF Transmit
  <2>2. stp'.of = stp.of \/ stp'.of = Head(txq)
    BY <1>22, Zenon DEF Types, StpTypes, Transmit
  <2>3. /\ Len(txq') = Len(txq) - 1 /\ Len(rxq') = Len(rxq) + 1
        /\ Head(txq) <= log.i /\ \A k \in 1..Len(txq') : txq'[k] <= log.i
    BY <1>t, <2>1, Zenon
  <2> QED
    BY <1>l, <2>1, <2>2, <2>3
<1> QED
  BY <1>1, <1>2, <1>3, <1>4, <1>5, <1>6, <1>7, <1>8, <1>9, <1>10, <1>11, <1>12, <1>13, Zenon,
     <1>14, <1>15, <1>16, <1>17, <1>18, <1>19, <1>20, <1>21, <1>22
     DEF LoggerNext, Logger, Analyzer

\* Every step keeps the order of the records, and the clean ones those of their own frame.
LEMMA OutStep ==
  ASSUME Types, PcInv, QueueInv, OldInv, OutInv, CleanInv, StepInv, LoggerNext
  PROVE  OutInv' /\ CleanInv'
<1> USE FieldsTyped DEF OutInv, CleanInv, PcInv, Recorded, SetupPcs, FramePcs, RecordPcs, EndPcs
<1>0. /\ out \in Seq(Records) /\ Len(out) \in Nat /\ log.old \in Nat /\ log.old <= Len(out)
      /\ \A k \in 1..Len(out) : out[k].n \in Int
  <2>1. out \in Seq(Records)
    BY Zenon DEF Types
  <2>2. \A k \in 1..Len(out) : out[k] \in Records
    BY <2>1
  <2> QED
    BY <2>1, <2>2 DEF Records, OldInv
<1>1. CASE OpenChannels
  <2>1. log.pc = "open" /\ (log'.pc = "config" \/ (log'.pc = "exit" /\ log'.ret = 1)) /\ log'.old = log.old
    <3>1. \/ \E lib \in BOOLEAN : InitResult("config", 0, lib)
          \/ \E lib \in BOOLEAN : InitResult("exit", 1, lib)
      BY <1>1, Zenon DEF OpenChannels
    <3> QED
      BY <1>1, <3>1, ResultFields DEF OpenChannels
  <2> QED
    BY <1>1, <2>1, Zenon DEF OpenChannels
<1>2. CASE ConfigChannel
  BY <1>2, GotoFields, ZenonT(60) DEF ConfigChannel
<1>3. CASE ErrorExit
  <2>1. log'.pc = "exit" /\ log'.ret = 1 /\ log'.old = log.old
    BY <1>3, Zenon DEF ErrorExit, InitResult, Types, LogTypes
  <2> QED
    BY <1>3, <2>1, Zenon DEF ErrorExit
<1>4. CASE StpInit
  <2>1. (log'.pc = "erase" \/ (log'.pc = "exit" /\ log'.ret = 1)) /\ log'.old = log.old
    BY <1>4, ExitFields, GotoFields DEF StpInit
  <2> QED
    BY <1>4, <2>1, Zenon DEF StpInit
<1>5. CASE EraseFile
  <2>1. log'.pc = "session" /\ log'.i = 0 /\ log'.old = Len(out')
    BY <1>5, EraseFields, Zenon
  <2>2. Len(out') \in Nat
    <3>1. out' = <<>> \/ out' = out
      BY <1>5, EraseFields, Zenon
    <3> QED
      BY <1>0, <3>1
  <2>3. \A k \in 1..Len(out') : ~out'[k].clean
    <3>1. \A k \in 1..Len(out') : out'[k] = OldRecord
      BY <1>5, EraseFields DEF OldInv
    <3>2. OldRecord.clean = FALSE
      BY Zenon DEF OldRecord, Record
    <3> QED
      BY <3>1, <3>2, Zenon
  <2> QED
    BY <2>1, <2>2, <2>3
<1>6. CASE StartSession
  <2>1. /\ log.pc = "session" /\ log'.pc = "session_sleep" /\ log'.i = log.i /\ log'.old = log.old
        /\ out' = out
    BY <1>6, GotoFields, Zenon DEF StartSession
  <2> QED
    BY <2>1
<1>7. CASE Sleep
  <2>1. log'.i = log.i /\ log'.ret = log.ret /\ log'.old = log.old /\ log'.pc = AfterSleep[log.pc]
        /\ log.pc \in DOMAIN AfterSleep /\ out' = out
    BY <1>7, GotoFields, Zenon DEF Sleep
  <2>2. log.pc \notin SetupPcs \cup EndPcs /\ log'.pc \notin SetupPcs \cup EndPcs
    BY <2>1 DEF AfterSleep
  <2>3. log.pc \in RecordPcs <=> log'.pc \in RecordPcs
    BY <2>1 DEF AfterSleep
  <2> QED
    BY <2>1, <2>2, <2>3
<1>8. CASE Generate
  <2>1. log.pc = "loop" /\ out' = out /\ log'.pc = "run" /\ log'.i = log.i + 1 /\ log'.old = log.old
    BY <1>8, GenerateFields, Zenon DEF Generate
  <2>2. Recorded' = Recorded
    BY <2>1
  <2> QED
    BY <2>1, <2>2
<1>9. CASE RunAquisition
  BY <1>9, GotoFields, ZenonT(60) DEF RunAquisition
<1>10. CASE CanWrite
  BY <1>10, GotoFields, ZenonT(60) DEF CanWrite
<1>11. CASE CanWriteSync
  BY <1>11, GotoFields, ZenonT(60) DEF CanWriteSync
<1>12. CASE ReadFrame
  BY <1>12, GotoFields, Zenon DEF ReadFrame
<1>13. CASE ExportLog
  BY <1>13, GotoFields, Zenon DEF ExportLog
<1>14. CASE Process
  <2>1. log.pc = "process" /\ log'.pc = "loop" /\ log'.i = log.i /\ log'.old = log.old
    BY <1>14, GotoFields, Zenon DEF Process
  <2>2. /\ Len(out) <= log.old + (log.i - 1)
        /\ \A j, k \in (log.old + 1)..Len(out) : j < k => out[j].n < out[k].n
        /\ \A k \in (log.old + 1)..Len(out) :
             out[k].n <= log.i - 1 /\ out[k].of # -1 /\ out[k].of <= out[k].n
    BY <2>1, Zenon
  <2>3. CASE file = NoFile
    <3>1. out' = out
      BY <1>14, <2>3, Zenon DEF Process
    <3> QED
      BY <1>0, <2>1, <2>2, <3>1
  <2>4. CASE file # NoFile
    <3> DEFINE r == Record(log.i, file, ~trouble)
    <3>1. out' = Append(out, r)
      BY <1>14, <2>4, Zenon DEF Process
    <3>2. r.n = log.i /\ r.of = file
      BY Zenon DEF Record
    <3>3. r.clean = (~trouble)
      BY Zenon DEF Record
    <3>4. file # -1
      BY <2>4, Zenon DEF NoFile
    <3> HIDE DEF r
    <3>5. /\ Len(out') = Len(out) + 1
          /\ \A k \in 1..Len(out) : out'[k] = out[k]
          /\ out'[Len(out) + 1] = r
      BY <1>0, <3>1
    <3>6. OutInv'
      <4> DEFINE a == log.old + 1
      <4>0. a \in Nat /\ a >= 1 /\ a <= Len(out) + 1
        BY <1>0
      <4> HIDE DEF a
      <4>1. Len(out') <= log.old + log.i
        BY <1>0, <2>2, <3>5
      <4>2. ASSUME NEW j \in a..Len(out'), NEW k \in a..Len(out'), j < k
            PROVE  out'[j].n < out'[k].n
        <5>1. j \in a..Len(out) /\ j \in 1..Len(out)
          BY <1>0, <3>5, <4>0, <4>2
        <5>2. CASE k \in a..Len(out)
          <6>1. k \in 1..Len(out)
            BY <1>0, <4>0, <5>2
          <6> QED
            BY <2>2, <3>5, <4>2, <5>1, <5>2, <6>1, Zenon DEF a
        <5>3. CASE k = Len(out) + 1
          <6>1. out[j].n <= log.i - 1 /\ out'[j] = out[j] /\ out[j].n \in Int
            BY <1>0, <2>2, <3>5, <5>1, Zenon DEF a
          <6> QED
            BY <3>2, <3>5, <5>3, <6>1
        <5>4. k \in a..Len(out) \/ k = Len(out) + 1
          <6>1. k \in a..(Len(out) + 1)
            BY <3>5, Zenon
          <6> QED
            BY <1>0, <4>0, <6>1
        <5> QED
          BY <5>2, <5>3, <5>4, Zenon
      <4>3. ASSUME NEW k \in a..Len(out')
            PROVE  out'[k].n <= log.i /\ out'[k].of # -1 /\ out'[k].of <= out'[k].n
        <5>1. CASE k \in a..Len(out)
          <6>1. k \in 1..Len(out)
            BY <1>0, <4>0, <5>1
          <6>2. /\ out[k].n <= log.i - 1 /\ out[k].of # -1 /\ out[k].of <= out[k].n
                /\ out'[k] = out[k] /\ out[k].n \in Int
            BY <1>0, <2>2, <3>5, <5>1, <6>1, Zenon DEF a
          <6> QED
            BY <6>2
        <5>2. CASE k = Len(out) + 1
          BY <3>2, <3>4, <3>5, <5>2 DEF QueueInv
        <5>3. k \in a..Len(out) \/ k = Len(out) + 1
          <6>1. k \in a..(Len(out) + 1)
            BY <3>5, Zenon
          <6> QED
            BY <1>0, <4>0, <6>1
        <5> QED
          BY <5>1, <5>2, <5>3, Zenon
      <4> QED
        BY <2>1, <4>1, <4>2, <4>3, Zenon DEF a
    <3>7. ASSUME NEW k \in 1..Len(out'), out'[k].clean
          PROVE  out'[k].of = out'[k].n /\ k = log'.old + out'[k].n
      <4>1. CASE k \in 1..Len(out)
        BY <2>1, <3>5, <3>7, <4>1, Zenon
      <4>2. CASE k = Len(out) + 1
        <5>1. ~trouble
          BY <3>3, <3>5, <3>7, <4>2, Zenon
        <5>2. file = log.i /\ Len(out) = log.old + (log.i - 1)
          BY <2>1, <5>1, Zenon DEF StepInv, InStep
        <5> QED
          BY <1>0, <2>1, <3>2, <3>5, <4>2, <5>2
      <4>3. k \in 1..Len(out) \/ k = Len(out) + 1
        <5>1. k \in 1..(Len(out) + 1)
          BY <3>5, Zenon
        <5> QED
          BY <1>0, <5>1
      <4> QED
        BY <4>1, <4>2, <4>3, Zenon
    <3> QED
      BY <3>6, <3>7, Zenon
  <2> QED
    BY <2>3, <2>4, Zenon
<1>15. CASE ProcessCrash
  <2>1. log.pc = "process" /\ log'.pc = "crashed" /\ log'.i = log.i /\ out' = out /\ log'.old = log.old
    BY <1>15, ExitFields, Zenon DEF ProcessCrash
  <2> QED
    BY <1>0, <2>1
<1>16. CASE CloseSession
  <2>1. /\ log.pc = "loop" /\ log'.pc = "close_sleep" /\ log'.i = log.i /\ log'.old = log.old
        /\ out' = out
    BY <1>16, GotoFields, Zenon DEF CloseSession
  <2> QED
    BY <2>1
<1>17. CASE StpExit
  <2>1. log.pc = "stp_exit" /\ out' = out
    BY <1>17, Zenon DEF StpExit
  <2> QED
    BY <1>17, <2>1, StpExitFields, ZenonT(60)
<1>18. CASE ChildExec
  BY <1>18, ZenonT(60) DEF ChildExec
<1>19. CASE StpCommand
  BY <1>19, ZenonT(60) DEF StpCommand
<1>20. CASE StpFinish
  BY <1>20, ZenonT(60) DEF StpFinish
<1>21. CASE StpEof
  BY <1>21, ZenonT(60) DEF StpEof
<1>22. CASE Transmit
  BY <1>22, ZenonT(60) DEF Transmit
<1> QED
  BY ZenonT(60), <1>1, <1>2, <1>3, <1>4, <1>5, <1>6, <1>7, <1>8, <1>9, <1>10, <1>11, <1>12, <1>13,
     <1>14, <1>15, <1>16, <1>17, <1>18, <1>19, <1>20, <1>21, <1>22
     DEF LoggerNext, Logger, Analyzer

\* Every step keeps the frame legal from its generation to canWrite.
LEMMA FrameStep ==
  ASSUME Types, FrameInv, LoggerNext
  PROVE  FrameInv'
<1> USE DEF FrameInv, FramePcs
<1>1. CASE Generate
  BY <1>1, GenerateFields, FrameTyped, Zenon
<1>2. CASE RunAquisition
  BY <1>2, GotoFields, Zenon DEF RunAquisition
<1>3. CASE Sleep
  BY <1>3, GotoFields DEF Sleep, AfterSleep
<1>4. CASE ConfigChannel \/ StartSession \/ CanWrite \/ CanWriteSync \/ ReadFrame
           \/ ExportLog \/ Process \/ CloseSession
  <2>1. \E pc \in {"stp_init", "config", "session_sleep", "sync", "read", "wait_sleep",
                   "export_sleep", "loop", "close_sleep"} : LogGoto(pc)
    BY <1>4, Zenon DEF ConfigChannel, StartSession, CanWrite, CanWriteSync, ReadFrame,
                ExportLog, Process, CloseSession
  <2> QED
    BY <2>1, GotoFields, Zenon
<1>5. CASE OpenChannels \/ ErrorExit \/ StpInit \/ ProcessCrash \/ StpExit
  <2>1. log'.pc \in {"config", "exit", "erase", "crashed"}
    <3>1. CASE OpenChannels \/ ErrorExit
      <4>1. \/ \E lib \in BOOLEAN : InitResult("config", 0, lib)
            \/ \E lib \in BOOLEAN : InitResult("exit", 1, lib)
        BY <3>1, Zenon DEF OpenChannels, ErrorExit
      <4> QED
        BY <4>1, ResultFields, Zenon
    <3>2. CASE StpInit
      BY <3>2, ExitFields, GotoFields, Zenon DEF StpInit
    <3>3. CASE ProcessCrash
      BY <3>3, ExitFields DEF ProcessCrash
    <3>4. CASE StpExit
      BY <3>4, StpExitFields, Zenon
    <3> QED
      BY <1>5, <3>1, <3>2, <3>3, <3>4, Zenon
  <2> QED
    BY <2>1, Zenon
<1>6. CASE Analyzer \/ Transmit
  BY <1>6, Zenon DEF Analyzer, ChildExec, StpCommand, StpFinish, StpEof, Transmit
<1>7. CASE EraseFile
  BY <1>7, EraseFields, Zenon
<1> QED
  BY <1>1, <1>2, <1>3, <1>4, <1>5, <1>6, <1>7, Zenon DEF LoggerNext, Logger

\* Every step keeps what rm has left at the head of the output file: records are appended.
LEMMA OldStep ==
  ASSUME Types, PcInv, OldInv, LoggerNext
  PROVE  OldInv'
<1> USE FieldsTyped DEF OldInv, SetupPcs
<1>0. out \in Seq(Records) /\ Len(out) \in Nat
  BY DEF Types
<1>1. CASE EraseFile
  <2>1. log'.pc = "session" /\ log'.old = Len(out') /\ (out' = <<>> \/ out' = out) /\ log.pc = "erase"
    BY <1>1, EraseFields, Zenon
  <2> QED
    BY <1>0, <2>1
<1>2. CASE Process
  <2>1. log.pc = "process" /\ log'.pc = "loop" /\ log'.old = log.old
    BY <1>2, GotoFields, Zenon DEF Process
  <2>2. out' = out \/ \E x : out' = Append(out, x)
    BY <1>2, Zenon DEF Process
  <2>3. Len(out) <= Len(out') /\ \A k \in 1..Len(out) : out'[k] = out[k]
    BY <1>0, <2>2
  <2> QED
    BY <1>0, <2>1, <2>3
<1>3. CASE ConfigChannel \/ StartSession \/ CanWrite \/ CanWriteSync \/ ReadFrame \/ ExportLog
           \/ CloseSession \/ Sleep \/ RunAquisition
  <2>1. out' = out /\ \E pc : LogGoto(pc)
    BY <1>3, Zenon DEF ConfigChannel, StartSession, CanWrite, CanWriteSync, ReadFrame, ExportLog,
                CloseSession, Sleep, RunAquisition
  <2>2. log'.old = log.old
    BY <2>1, GotoFields, Zenon
  <2>3. log'.pc \in SetupPcs => log.pc \in SetupPcs
    <3>1. CASE ConfigChannel
      BY <3>1, Zenon DEF ConfigChannel
    <3>2. CASE Sleep
      BY <3>2, GotoFields DEF Sleep, AfterSleep
    <3>3. CASE StartSession \/ CanWrite \/ CanWriteSync \/ ReadFrame \/ ExportLog \/ CloseSession
               \/ RunAquisition
      <4>1. \E pc \in {"session_sleep", "run_sleep", "sync", "read", "wait_sleep", "export_sleep",
                        "loop", "close_sleep"} : LogGoto(pc)
        BY <3>3, Zenon DEF StartSession, CanWrite, CanWriteSync, ReadFrame, ExportLog,
                    CloseSession, RunAquisition
      <4> QED
        BY <4>1, GotoFields
    <3> QED
      BY <1>3, <3>1, <3>2, <3>3, Zenon
  <2> QED
    BY <2>1, <2>2, <2>3, Zenon
<1>4. CASE OpenChannels \/ ErrorExit
  <2>1. \/ \E lib \in BOOLEAN : InitResult("config", 0, lib)
        \/ \E lib \in BOOLEAN : InitResult("exit", 1, lib)
    BY <1>4, Zenon DEF OpenChannels, ErrorExit
  <2>2. log'.old = log.old
    BY <2>1, ResultFields, Zenon
  <2>3. out' = out /\ log.pc \in SetupPcs
    BY <1>4, Zenon DEF OpenChannels, ErrorExit
  <2> QED
    BY <2>2, <2>3, Zenon
<1>5. CASE StpInit
  <2>1. log'.old = log.old /\ out' = out /\ log.pc \in SetupPcs
    BY <1>5, ExitFields, GotoFields, Zenon DEF StpInit
  <2> QED
    BY <2>1, Zenon
<1>6. CASE ProcessCrash
  <2>1. log'.pc = "crashed" /\ log'.old = log.old /\ out' = out
    BY <1>6, ExitFields, Zenon DEF ProcessCrash
  <2> QED
    BY <2>1, Zenon
<1>7. CASE Generate
  <2>1. log'.pc = "run" /\ log'.old = log.old /\ out' = out
    BY <1>7, GenerateFields, Zenon DEF Generate
  <2> QED
    BY <2>1, Zenon
<1>8. CASE StpExit
  <2>1. log'.pc = "exit" /\ log'.old = log.old /\ out' = out
    BY <1>8, StpExitFields, Zenon DEF StpExit
  <2> QED
    BY <2>1, Zenon
<1>9. CASE Analyzer \/ Transmit
  <2>1. UNCHANGED <<log, out>>
    BY <1>9, Zenon DEF Analyzer, ChildExec, StpCommand, StpFinish, StpEof, Transmit
  <2> QED
    BY <2>1, Zenon
<1> QED
  BY <1>1, <1>2, <1>3, <1>4, <1>5, <1>6, <1>7, <1>8, <1>9, Zenon DEF LoggerNext, Logger

-----------------------------------------------------------------------------
(* The iteration, step by step                                              *)

\* What has failed stays failed.
LEMMA TroubleStays ==
  ASSUME LoggerNext, ~trouble'
  PROVE  ~trouble
<1>1. CASE Logger
  BY <1>1, Zenon DEF Logger, OpenChannels, ConfigChannel, ErrorExit, StpInit, EraseFile, StartSession,
       Sleep, Generate, RunAquisition, CanWrite, CanWriteSync, ReadFrame, ExportLog, Process,
       ProcessCrash, CloseSession, StpExit
<1>2. CASE Analyzer \/ Transmit
  BY <1>2, Zenon DEF Analyzer, ChildExec, StpCommand, StpFinish, StpEof, Transmit
<1> QED
  BY <1>1, <1>2, Zenon DEF LoggerNext

\* A queue of one element.
LEMMA OneElement ==
  ASSUME NEW x
  PROVE  <<x>> # <<>> /\ Head(<<x>>) = x /\ Tail(<<x>>) = <<>>
<1>1. <<x>> # <<>> /\ Head(<<x>>) = x
  OBVIOUS
<1>2. Tail(<<x>>) = <<>>
  OBVIOUS
<1> QED
  BY <1>1, <1>2, Zenon

\* Every step of the logger keeps it in step with the analyzer when nothing fails.
LEMMA LoggerInStep ==
  ASSUME Types, PcInv, QueueInv, OutInv, InStep, ~trouble, Logger, ~trouble'
  PROVE  InStep'
<1>0. log.i \in Nat /\ log.old \in Nat /\ stp.session \in BOOLEAN
  BY FieldsTyped
<1> USE <1>0 DEF InStep, Idle, Told, PcInv, Recorded, SetupPcs, FramePcs, RecordPcs
<1>1. CASE OpenChannels \/ ErrorExit
  <2>1. \/ \E lib \in BOOLEAN : InitResult("config", 0, lib)
        \/ \E lib \in BOOLEAN : InitResult("exit", 1, lib)
    BY <1>1, Zenon DEF OpenChannels, ErrorExit
  <2>2. log'.pc \in {"config", "exit"}
    BY <2>1, ResultFields
  <2> QED
    BY <2>2, Zenon
<1>2. CASE ConfigChannel
  <2>1. log'.pc \in {"stp_init", "config"}
    BY <1>2, GotoFields, Zenon DEF ConfigChannel
  <2> QED
    BY <2>1, Zenon
<1>3. CASE StpInit
  <2>1. CASE log'.pc = "exit"
    BY <2>1, Zenon
  <2>2. CASE log'.pc # "exit"
    <3>1. log'.pc = "erase" /\ stp'.pc = "forked"
      BY <1>3, <2>2, ExitFields, GotoFields, StpPcFields, Zenon DEF StpInit
    <3>2. log.pc = "stp_init" /\ txq' = txq /\ pipe' = pipe
      BY <1>3, Zenon DEF StpInit
    <3>3. pipe = <<>> /\ txq = <<>>
      BY <3>2 DEF QueueInv, Sent, Types
    <3> QED
      BY <3>1, <3>2, <3>3, Zenon
  <2> QED
    BY <2>1, <2>2, Zenon
<1>4. CASE EraseFile
  <2>1. log.pc = "erase" /\ log'.pc = "session" /\ Len(out') = log'.old /\ UNCHANGED <<txq, pipe, stp>>
    BY <1>4, EraseFields, Zenon
  <2> QED
    BY <2>1, Zenon
<1>5. CASE StartSession
  <2>1. log.pc = "session" /\ log'.old = log.old /\ log'.pc = "session_sleep" /\ UNCHANGED <<txq, stp, out>>
        /\ Send("open_session", 0)
    BY <1>5, GotoFields, Zenon DEF StartSession
  <2>2. pipe' = <<[cmd |-> "open_session", i |-> 0]>>
    BY <2>1, SendFields, Zenon DEF QueueInv
  <2> QED
    BY <2>1, <2>2, Zenon
<1>6. CASE Sleep
  <2>1. Settled /\ ~(log.pc = "wait_sleep" /\ stp.pc = "armed")
    BY <1>6, Zenon DEF Sleep
  <2>2. log.pc \in DOMAIN AfterSleep /\ log'.old = log.old /\ log'.pc = AfterSleep[log.pc] /\ log'.i = log.i
        /\ UNCHANGED <<txq, pipe, stp, file, out>>
    BY <1>6, GotoFields, ZenonT(60) DEF Sleep
  <2>3. CASE log.pc = "session_sleep"
    <3>1. Idle(TRUE)
      BY <2>1, <2>3, OneElement, ZenonT(60) DEF Settled
    <3> QED
      BY <2>2, <2>3, <3>1 DEF AfterSleep
  <2>4. CASE log.pc = "run_sleep"
    <3>1. stp.pc = "armed" /\ pipe = <<>> /\ stp.session /\ stp.job = log.i
      BY <2>1, <2>4, OneElement, ZenonT(60) DEF Settled
    <3> QED
      BY <2>2, <2>4, <3>1 DEF AfterSleep
  <2>5. CASE log.pc = "wait_sleep"
    BY <2>1, <2>2, <2>5 DEF Settled, AfterSleep
  <2>6. CASE log.pc = "export_sleep"
    <3>1. Idle(TRUE) /\ file = log.i
      BY <2>1, <2>6, OneElement, ZenonT(60) DEF Settled
    <3> QED
      BY <2>2, <2>6, <3>1 DEF AfterSleep
  <2>7. CASE log.pc = "close_sleep"
    BY <2>2, <2>7 DEF AfterSleep
  <2> QED
    BY <2>2, <2>3, <2>4, <2>5, <2>6, <2>7, Zenon DEF AfterSleep
<1>7. CASE Generate
  <2>1. log.pc = "loop" /\ log'.old = log.old /\ log'.pc = "run" /\ log'.i = log.i + 1 /\ UNCHANGED <<txq, pipe, stp, out>>
    BY <1>7, GenerateFields, Zenon DEF Generate
  <2> QED
    BY <2>1
<1>8. CASE RunAquisition
  <2>1. log.pc = "run" /\ log'.old = log.old /\ log'.pc = "run_sleep" /\ log'.i = log.i /\ UNCHANGED <<txq, stp, out>>
        /\ pipe' = <<[cmd |-> "run", i |-> log.i]>>
    BY <1>8, GotoFields, SendFields, Zenon DEF RunAquisition, QueueInv
  <2> QED
    BY <2>1, Zenon
<1>9. CASE CanWrite
  <2>1. log.pc = "send" /\ log'.old = log.old /\ log'.pc = "sync" /\ log'.i = log.i /\ UNCHANGED <<pipe, stp, out>>
        /\ txq' = Append(txq, log.i)
    BY <1>9, GotoFields, Zenon DEF CanWrite
  <2>2. txq' = <<log.i>>
    BY <2>1
  <2> QED
    BY <2>1, <2>2, Zenon
<1>10. CASE CanWriteSync
  <2>1. txq = <<>>
    BY <1>10, ZenonT(60) DEF CanWriteSync
  <2>2. log.pc = "sync" /\ log'.old = log.old /\ log'.pc = "read" /\ log'.i = log.i /\ UNCHANGED <<txq, pipe, stp, out>>
    BY <1>10, GotoFields, Zenon DEF CanWriteSync
  <2> QED
    BY <2>1, <2>2, Zenon
<1>11. CASE ReadFrame
  <2>1. log.pc = "read" /\ log'.old = log.old /\ log'.pc = "wait_sleep" /\ log'.i = log.i /\ UNCHANGED <<txq, pipe, stp, out>>
    BY <1>11, GotoFields, ZenonT(60) DEF ReadFrame
  <2> QED
    BY <2>1, Zenon
<1>12. CASE ExportLog
  <2>1. log.pc = "export" /\ log'.old = log.old /\ log'.pc = "export_sleep" /\ log'.i = log.i /\ UNCHANGED <<txq, stp, out>>
        /\ pipe' = <<[cmd |-> "export", i |-> log.i]>>
    BY <1>12, GotoFields, SendFields, Zenon DEF ExportLog, QueueInv
  <2> QED
    BY <2>1, Zenon
<1>13. CASE Process
  <2>1. log.pc = "process" /\ log'.old = log.old /\ log'.pc = "loop" /\ log'.i = log.i /\ UNCHANGED <<txq, pipe, stp>>
    BY <1>13, GotoFields, Zenon DEF Process
  <2>2. file # NoFile
    BY <2>1 DEF NoFile
  <2>3. Len(out') = Len(out) + 1
    <3>1. out \in Seq(Records)
      BY Zenon DEF Types
    <3> QED
      BY <1>13, <2>2, <3>1 DEF Process
  <2> QED
    BY <2>1, <2>3
<1>14. CASE ProcessCrash
  <2>1. log'.pc = "crashed"
    BY <1>14, ExitFields, Zenon DEF ProcessCrash
  <2> QED
    BY <2>1, Zenon
<1>15. CASE CloseSession
  <2>1. log'.pc = "close_sleep"
    BY <1>15, GotoFields, Zenon DEF CloseSession
  <2> QED
    BY <2>1, Zenon
<1>16. CASE StpExit
  <2>1. log'.pc = "exit"
    BY <1>16, StpExitFields, Zenon
  <2> QED
    BY <2>1, Zenon
<1> QED
  BY Zenon, <1>1, <1>2, <1>3, <1>4, <1>5, <1>6, <1>7, <1>8, <1>9, <1>10, <1>11, <1>12, <1>13,
     <1>14, <1>15, <1>16 DEF Logger

\* Every step of the analyzer and of the bus keeps the logger in step when nothing fails.
LEMMA AnalyzerInStep ==
  ASSUME Types, PcInv, InStep, ~trouble, Analyzer \/ Transmit, ~trouble'
  PROVE  InStep'
<1>0. log.i \in Nat /\ stp.session \in BOOLEAN
  BY FieldsTyped
<1> USE <1>0 DEF InStep, Idle, Told, Recorded, FramePcs, RecordPcs
<1>1. CASE ChildExec
  <2>1. UNCHANGED <<log, txq, pipe, file, out>> /\ stp.pc = "forked" /\ stp'.pc = "idle"
    BY <1>1, StpPcFields, Zenon DEF ChildExec
  <2> QED
    BY <2>1, Zenon
<1>2. CASE StpCommand
  <2>1. UNCHANGED <<log, txq, out>> /\ stp.pc = "idle" /\ pipe # <<>> /\ pipe' = Tail(pipe)
    BY <1>2, Zenon DEF StpCommand
  <2>2. CASE log.pc = "session_sleep"
    <3>1. Head(pipe) = [cmd |-> "open_session", i |-> 0] /\ pipe' = <<>>
      <4>1. pipe = <<[cmd |-> "open_session", i |-> 0]>>
        BY <2>1, <2>2, Zenon
      <4> QED
        BY <2>1, <4>1, OneElement, Zenon
    <3> QED
      BY <1>2, <2>1, <2>2, <3>1, StpCommandFields
  <2>3. CASE log.pc = "run_sleep"
    <3>1. Head(pipe) = [cmd |-> "run", i |-> log.i] /\ pipe' = <<>> /\ stp.session
      <4>1. pipe = <<[cmd |-> "run", i |-> log.i]>> /\ stp.session
        BY <2>1, <2>3, Zenon
      <4> QED
        BY <2>1, <4>1, OneElement, Zenon
    <3> QED
      BY <1>2, <2>1, <2>3, <3>1, StpCommandFields
  <2>4. CASE log.pc = "export_sleep"
    <3>1. Head(pipe) = [cmd |-> "export", i |-> log.i] /\ pipe' = <<>> /\ stp.session
          /\ stp.job = log.i /\ stp.of = log.i
      <4>1. pipe = <<[cmd |-> "export", i |-> log.i]>> /\ stp.session
            /\ stp.job = log.i /\ stp.of = log.i
        BY <2>1, <2>4, Zenon
      <4> QED
        BY <2>1, <4>1, OneElement, Zenon
    <3> QED
      BY <1>2, <2>1, <2>4, <3>1, StpCommandFields
  <2>5. CASE log.pc \notin {"session_sleep", "run_sleep", "export_sleep"}
    <3>1. log.pc \notin {"erase", "session", "loop"} \cup RecordPcs
      BY <2>1, <2>5, Zenon
    <3> QED
      BY <2>1, <2>5, <3>1, Zenon
  <2> QED
    BY <2>2, <2>3, <2>4, <2>5, Zenon
<1>3. CASE StpFinish
  <2>1. UNCHANGED <<log, txq, pipe, out>> /\ stp.pc \in {"filling", "exporting"}
        /\ (stp.pc = "exporting" => file' = stp.of)
    BY <1>3 DEF StpFinish
  <2>2. stp'.pc = "idle" /\ stp'.session = stp.session /\ stp'.job = stp.job /\ stp'.of = stp.of
    BY <1>3, StpPcFields, Zenon DEF StpFinish
  <2> QED
    BY <2>1, <2>2, Zenon
<1>4. CASE StpEof
  BY <1>4, Zenon DEF StpEof
<1>5. CASE Transmit
  <2>1. UNCHANGED <<log, pipe, file, out>> /\ txq # <<>> /\ txq' = Tail(txq)
    BY <1>5, ZenonT(60) DEF Transmit
  <2>2. CASE log.pc = "sync"
    <3>1. txq = <<log.i>> /\ stp.pc = "armed" /\ txq' = <<>> /\ Head(txq) = log.i
      <4>1. txq = <<log.i>> /\ stp.pc = "armed"
        BY <2>1, <2>2, Zenon
      <4> QED
        BY <2>1, <4>1, OneElement, Zenon
    <3>2. stp'.pc = "filling" /\ stp'.of = log.i /\ stp'.session = stp.session /\ stp'.job = stp.job
      BY <1>5, <3>1, ZenonT(60) DEF Transmit, Types, StpTypes
    <3> QED
      BY <2>1, <2>2, <3>1, <3>2, Zenon
  <2>3. CASE log.pc # "sync"
    <3>1. log.pc \notin {"erase", "session", "session_sleep", "loop"} \cup RecordPcs
      BY <2>1, <2>3, Zenon
    <3> QED
      BY <2>1, <2>3, <3>1, Zenon
  <2> QED
    BY <2>2, <2>3, Zenon
<1> QED
  BY <1>1, <1>2, <1>3, <1>4, <1>5, Zenon DEF Analyzer

-----------------------------------------------------------------------------
(* The theorems                                                             *)

\* Every initial state satisfies the invariant, with or without files of an earlier run.
LEMMA KInitInv == LoggerInit => KInv
<1> SUFFICES ASSUME LoggerInit PROVE KInv
  BY Zenon
<1>1. PICK writable \in BOOLEAN :
        log = [pc |-> "open", i |-> 0, frame |-> NoFrame, ret |-> 0, lib |-> FALSE,
               writable |-> writable, killed |-> "none", old |-> 0]
  BY Zenon DEF LoggerInit
<1>2. /\ log.pc = "open" /\ log.i = 0 /\ log.ret = 0 /\ log.killed = "none" /\ log.old = 0
      /\ stp.pc = "none" /\ stp.of = 0 /\ txq = <<>> /\ rxq = <<>> /\ pipe = <<>>
      /\ chan[0] = "closed" /\ chan[1] = "closed" /\ trouble = FALSE
  BY <1>1 DEF LoggerInit
<1>3. OldRecord \in Records
  BY LoggerAssumption DEF OldRecord, Record, Records, OldFile
<1>4. Types
  <2>1. log \in LogTypes
    BY <1>1, LoggerAssumption DEF LogTypes, Pcs, SetupPcs, NoFrame, CanFrames
  <2>2. stp \in StpTypes
    BY LoggerAssumption DEF LoggerInit, StpTypes
  <2>3. file \in -2..NumFrames
    BY LoggerAssumption DEF LoggerInit, NoFile, OldFile
  <2>4. out \in Seq(Records)
    BY <1>3 DEF LoggerInit
  <2>5. chan \in [0..1 -> {"closed", "open", "nominal", "data", "on"}]
    BY Zenon DEF LoggerInit
  <2>6. txq \in Seq(0..NumFrames) /\ rxq \in Seq(0..NumFrames) /\ pipe \in Seq(Commands)
    BY <1>2
  <2>7. trouble \in BOOLEAN
    BY <1>2, Zenon
  <2> QED
    BY <2>1, <2>2, <2>3, <2>4, <2>5, <2>6, <2>7, Zenon DEF Types
<1>5. PcInv /\ ChanInv /\ ChildInv
  BY <1>2, Zenon DEF PcInv, ChanInv, ChildInv, SetupPcs, RecordPcs, FramePcs, EndPcs
<1>6. QueueInv
  BY <1>2, LoggerAssumption DEF QueueInv, Sent, FramePcs, LoggerInit, NoFile, OldFile
<1>7. Len(out) \in Nat /\ \A k \in 1..Len(out) : out[k] = OldRecord
  <2>1. out = <<>> \/ out = <<OldRecord>>
    BY Zenon DEF LoggerInit
  <2> QED
    BY <2>1
<1>8. OutInv /\ FrameInv /\ OldInv
  <2>1. OutInv /\ FrameInv
    BY <1>2, Zenon DEF OutInv, FrameInv, SetupPcs, FramePcs
  <2>2. OldInv
    BY <1>2, <1>7 DEF OldInv
  <2> QED
    BY <2>1, <2>2, Zenon
<1>9. CleanInv
  <2>1. OldRecord.clean = FALSE
    BY Zenon DEF OldRecord, Record
  <2> QED
    BY <1>7, <2>1, Zenon DEF CleanInv
<1>10. StepInv
  BY <1>2, Zenon DEF StepInv, InStep, RecordPcs, FramePcs
<1> QED
  BY <1>4, <1>5, <1>6, <1>8, <1>9, <1>10, Zenon DEF KInv

\* Every step of logger, analyzer and bus keeps the invariant.
LEMMA KNextInv == KInv /\ [LoggerNext]_loggervars => KInv'
<1> SUFFICES ASSUME KInv, [LoggerNext]_loggervars PROVE KInv'
  BY Zenon
<1> USE DEF KInv
<1>1. CASE LoggerNext
  <2>1. Types'
    BY <1>1, TypesStep, Zenon
  <2>2. PcInv' /\ ChanInv' /\ ChildInv'
    BY <1>1, SetupStep, Zenon
  <2>3. QueueInv'
    BY <1>1, QueueStep, Zenon
  <2>4. OldInv'
    BY <1>1, OldStep, Zenon
  <2>5. OutInv' /\ CleanInv'
    BY <1>1, OutStep, Zenon
  <2>6. FrameInv'
    BY <1>1, FrameStep, Zenon
  <2>7. StepInv'
    <3> SUFFICES ASSUME ~trouble' PROVE InStep'
      BY Zenon DEF StepInv
    <3>1. ~trouble /\ InStep
      BY <1>1, TroubleStays, Zenon DEF StepInv
    <3> QED
      BY <1>1, <3>1, LoggerInStep, AnalyzerInStep, Zenon DEF LoggerNext
  <2> QED
    BY <2>1, <2>2, <2>3, <2>4, <2>5, <2>6, <2>7, Zenon
<1>2. CASE UNCHANGED loggervars
  <2>1. Types'
    BY <1>2, Zenon DEF loggervars, Types
  <2>2. PcInv' /\ ChanInv' /\ ChildInv' /\ QueueInv'
    BY <1>2 DEF loggervars, PcInv, ChanInv, ChildInv, QueueInv, Sent
  <2>3. OldInv' /\ OutInv' /\ CleanInv' /\ FrameInv'
    BY <1>2, Zenon DEF loggervars, OldInv, OutInv, CleanInv, FrameInv, Recorded
  <2>4. StepInv'
    BY <1>2, Zenon DEF loggervars, StepInv, InStep, Idle, Told, Recorded
  <2> QED
    BY <2>1, <2>2, <2>3, <2>4, Zenon
<1> QED
  BY <1>1, <1>2, Zenon

\* Both channels are on the bus or none, and no analyzer outlives a logger that exits,
\* whatever call of kvaser_init and stp_init fails (kvaser_init, ErrorExit, stp_exit).
THEOREM LeavesInOrderHolds == LoggerSpec => []LeavesInOrder
<1>1. KInv => LeavesInOrder
  <2> SUFFICES ASSUME KInv PROVE LeavesInOrder
    BY Zenon
  <2>1. ChannelsReady
    BY DEF KInv, ChanInv, PcInv, ChannelsReady
  <2>2. AnalyzerStopped
    BY Zenon DEF KInv, ChildInv, AnalyzerStopped
  <2> QED
    BY <2>1, <2>2, Zenon DEF LeavesInOrder
<1> QED
  BY <1>1, KInitInv, KNextInv, PTL DEF LoggerSpec

\* The log is faithful for every number of frames, every size of the pipe and all random
\* values: after what a failed rm has left come the records of this run, in order and at
\* most one for each iteration, each clean one shows the bits of its own frame, and without
\* trouble there is one for every iteration (kvaalt_start_log, erase_file,
\* process_stp_output, generate_can_frame).
THEOREM LogFaithfulHolds == LoggerSpec => []LogFaithful
<1>1. KInv => LogFaithful
  <2> SUFFICES ASSUME KInv PROVE LogFaithful
    OBVIOUS
  <2>0. Types /\ QueueInv /\ OldInv /\ OutInv /\ CleanInv /\ FrameInv /\ StepInv
    BY ZenonT(60) DEF KInv
  <2>1. KTypeOK
    <3>1. Len(txq) \in Nat /\ Len(rxq) \in Nat
      BY <2>0 DEF Types
    <3>2. Len(txq) <= NumFrames /\ Len(rxq) <= NumFrames
      BY <2>0, <3>1, FieldsTyped, LoggerAssumption DEF QueueInv, Sent
    <3>3. chan \in [0..1 -> {"closed", "open", "nominal", "data", "on"}]
      BY <2>0, Zenon DEF Types
    <3> QED
      BY <2>0, <3>2, <3>3, FieldsTyped, Zenon DEF KTypeOK, QueueInv, EmptyFile
  <2>2. CleanLogComplete
    BY <2>0, Zenon DEF CleanInv, StepInv, InStep, Recorded, RecordPcs, FramePcs, CleanLogComplete
  <2>3. RecordsInOrder
    <3> DEFINE a == log.old + 1
    <3> SUFFICES ASSUME log.pc \notin {"open", "config", "stp_init", "erase"},
                        ~(log.pc = "exit" /\ log.ret = 1)
                 PROVE  /\ log.old <= Len(out) /\ Len(out) <= log.old + log.i
                        /\ \A k \in 1..log.old : out[k] = OldRecord
                        /\ \A j, k \in a..Len(out) : j < k => out[j].n < out[k].n
                        /\ \A k \in a..Len(out) :
                             out[k].n <= log.i /\ out[k].of # -1 /\ out[k].of <= out[k].n
      BY Zenon DEF RecordsInOrder, NoFile
    <3>0. log.old \in Nat /\ a \in Nat /\ a >= 1
      BY <2>0, FieldsTyped
    <3>5. log.old <= Len(out) /\ \A k \in 1..log.old : out[k] = OldRecord
      BY <2>0, Zenon DEF OldInv
    <3>1. Recorded \in Int /\ log.i \in Int /\ Recorded <= log.i
      BY <2>0, FieldsTyped DEF Recorded
    <3>2. out \in Seq(Records) /\ Len(out) \in Nat /\ \A k \in 1..Len(out) : out[k] \in Records
      BY <2>0 DEF Types
    <3>3. \A k \in 1..Len(out) : out[k].n \in Int
      BY <3>2 DEF Records
    <3>4. /\ Len(out) <= log.old + Recorded
          /\ \A j, k \in a..Len(out) : j < k => out[j].n < out[k].n
          /\ \A k \in a..Len(out) : out[k].n <= Recorded /\ out[k].of # -1 /\ out[k].of <= out[k].n
      BY <2>0, Zenon DEF OutInv, SetupPcs
    <3> HIDE DEF Recorded, a
    <3>6. \A k \in a..Len(out) : k \in 1..Len(out)
      BY <3>0, <3>2
    <3>7. \A k \in a..Len(out) : out[k].n \in Int /\ out[k].n <= Recorded
      BY <3>3, <3>4, <3>6, Zenon
    <3>8. \A k \in a..Len(out) : out[k].n <= log.i
      BY <3>1, <3>7
    <3>9. Len(out) <= log.old + log.i
      BY <3>0, <3>1, <3>2, <3>4
    <3> QED
      BY <3>4, <3>5, <3>8, <3>9, Zenon
  <2>4. FramesLegal
    BY <2>0, SMT DEF FrameInv, FramePcs, LegalFrame, FramesLegal
  <2> QED
    BY <2>1, <2>2, <2>3, <2>4, Zenon DEF LogFaithful
<1> QED
  BY <1>1, KInitInv, KNextInv, PTL DEF LoggerSpec
=============================================================================
