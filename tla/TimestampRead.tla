--------------------------- MODULE TimestampRead ---------------------------
(***************************************************************************)
(* ctucan_hw_read_timestamp: a 64-bit time base that runs on is read       *)
(* through two 32-bit registers.  The high word is read before and after   *)
(* the low word; when it moved on, the low word is read again.             *)
(***************************************************************************)
EXTENDS Integers

CONSTANTS LowSpan,      \* values of the low word, 2^32 in the controller
          MaxHigh       \* bound: the time base stops in this high word

ASSUME TimestampAssumption == LowSpan \in Nat \ {0} /\ MaxHigh \in Nat

VARIABLES now,          \* the time base: [high, low]
          read          \* the call in progress

Time == [high : Nat, low : 0..(LowSpan - 1)]

ReadPcs == {"idle", "high", "low", "high_2", "low_2", "done"}

ReadInit ==
  /\ now \in [high : 0..1, low : 0..(LowSpan - 1)]
  /\ read = [pc |-> "idle", start |-> now, high |-> 0, low |-> 0, high_2 |-> 0]

Next_(t) == IF t.low + 1 < LowSpan THEN [t EXCEPT !.low = @ + 1] ELSE [high |-> t.high + 1, low |-> 0]

Before(t, u) == t.high < u.high \/ (t.high = u.high /\ t.low <= u.low)

\* The time base runs on.  A call is over before the low word is back where it was when
\* the call began: 43 s at 100 MHz.
Tick ==
  /\ Next_(now).high <= MaxHigh
  /\ read.pc \in {"idle", "done"} \/ Next_(now) # [read.start EXCEPT !.high = @ + 1]
  /\ now' = Next_(now)
  /\ UNCHANGED read

BeginRead ==
  /\ read.pc = "idle"
  /\ read' = [read EXCEPT !.pc = "high", !.start = now]
  /\ UNCHANGED now

ReadHigh ==
  /\ read.pc = "high"
  /\ read' = [read EXCEPT !.pc = "low", !.high = now.high]
  /\ UNCHANGED now

ReadLow ==
  /\ read.pc = "low"
  /\ read' = [read EXCEPT !.pc = "high_2", !.low = now.low]
  /\ UNCHANGED now

\* Faulty variant: the low word is not read again.
ReadHigh2Only ==
  /\ read.pc = "high_2"
  /\ read' = [read EXCEPT !.pc = "done", !.high_2 = now.high]
  /\ UNCHANGED now

ReadHigh2 ==
  /\ read.pc = "high_2"
  /\ read' = [read EXCEPT !.pc = IF read.high = now.high THEN "done" ELSE "low_2",
                          !.high_2 = now.high]
  /\ UNCHANGED now

ReadLow2 ==
  /\ read.pc = "low_2"
  /\ read' = [read EXCEPT !.pc = "done", !.low = now.low]
  /\ UNCHANGED now

ReadNext == Tick \/ BeginRead \/ ReadHigh \/ ReadLow \/ ReadHigh2 \/ ReadLow2

ReadSpec == ReadInit /\ [][ReadNext]_<<now, read>>

-----------------------------------------------------------------------------

\* The value that ctucan_hw_read_timestamp returns.
Result == [high |-> read.high_2, low |-> read.low]

\* ctucan_hw_read_timestamp returns a time the time base had during the call, although
\* its two words are read one after the other while the time base runs.
TimestampInCall == read.pc = "done" => Before(read.start, Result) /\ Before(Result, now)

=============================================================================
