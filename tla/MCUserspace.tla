----------------------------- MODULE MCUserspace -----------------------------
(***************************************************************************)
(* The programs of user space, one at a time: those on one controller,     *)
(* among them one that calls ctucan_hw_read_timestamp while the time base  *)
(* runs (TimestampRead), and the logger, which shares nothing with them.   *)
(***************************************************************************)
EXTENDS Userspace, RegisterFacts, TimestampRead, KvaserLogger

VARIABLE program

Ext(bits) == bits \cup {CAN_EFF_FLAG}

MCCalls ==
  [ret    |-> {[on |-> TRUE, limit |-> 15], [on |-> FALSE, limit |-> 0], [on |-> TRUE, limit |-> 16]},
   ints   |-> {[mask |-> 0..11, val |-> {0, 2}], [mask |-> {1, 2}, val |-> {1}]},
   mode   |-> {[mask |-> {"LOOPBACK", "PRESUME_ACK"}, flags |-> {"LOOPBACK", "PRESUME_ACK"}],
               [mask |-> {"FD", "LISTENONLY"}, flags |-> {"LISTENONLY", "LOOPBACK"}],
               [mask |-> {"ONE_SHOT", "BERR_REPORTING", "FD_NON_ISO"}, flags |-> {"ONE_SHOT", "FD_NON_ISO"}],
               [mask |-> {"ONE_SHOT", "BERR_REPORTING"}, flags |-> {"BERR_REPORTING"}]},
   timing |-> {[prop_seg |-> 20, phase_seg1 |-> 100, phase_seg2 |-> 31, brp |-> 2, sjw |-> 4],
               [prop_seg |-> 1, phase_seg1 |-> 1, phase_seg2 |-> 1, brp |-> 1, sjw |-> 1]},
   ssp    |-> {[enable |-> TRUE, measure |-> TRUE, offset |-> 127],
               [enable |-> TRUE, measure |-> FALSE, offset |-> 5],
               [enable |-> FALSE, measure |-> FALSE, offset |-> 0]},
   prio   |-> {<<7, 1, 0, 3>>},
   filter |-> {[on |-> TRUE, can_id |-> {0, 3}, can_mask |-> 0..10],
               [on |-> TRUE, can_id |-> Ext({0, 20}), can_mask |-> Ext({20, 28})],
               [on |-> FALSE, can_id |-> {}, can_mask |-> {}]},
   range  |-> {[on |-> TRUE, low |-> {1}, high |-> Ext(5..20)], [on |-> FALSE, low |-> {}, high |-> {}]}]

Opt(pci, transmit, fdf, loopback, bitrate, dbitrate) ==
  [pci |-> pci, ifc |-> 0, addr |-> NoAddress, loopback |-> loopback, transmit |-> transmit, fdf |-> fdf,
   read_speed |-> FALSE, bitrate |-> bitrate, dbitrate |-> dbitrate]

MCOptions ==
  {Opt(FALSE, "periodic", TRUE, TRUE, 1000000, 0), Opt(FALSE, "periodic", FALSE, FALSE, 500000, 2000000),
   Opt(FALSE, "once", FALSE, FALSE, 125000, 0), Opt(FALSE, "none", FALSE, FALSE, 30000, 0),
   Opt(FALSE, "once", FALSE, TRUE, 800000, 3000000),
   Opt(TRUE, "none", FALSE, FALSE, 1000000, 0),
   [Opt(TRUE, "once", FALSE, FALSE, 300000, 0) EXCEPT !.ifc = 1],
   [Opt(FALSE, "none", FALSE, FALSE, 1000000, 0) EXCEPT !.read_speed = TRUE],
   [Opt(FALSE, "none", FALSE, FALSE, 1000000, 0) EXCEPT !.addr = <<0, 1136852992 + 256>>],
   [Opt(FALSE, "none", FALSE, FALSE, 1000000, 0) EXCEPT !.addr = <<1, 1136852992>>]}

Dir(entries) ==
  [dir |-> TRUE, opens |-> TRUE, entries |-> entries, pci |-> FALSE, id |-> "none", bar1 |-> NoAddress]
File == [Dir(<<>>) EXCEPT !.dir = FALSE]

\* A board behind a bridge, a card beside the bridge, and an Altera board on another bus.
MCTree(first, second) ==
  [devices |-> Dir(<<"uevent", "platform", "pci0", "pci1">>), uevent |-> File,
   platform |-> [Dir(<<"fake">>) EXCEPT !.id = "1172:cafd"],
   fake |-> [Dir(<<>>) EXCEPT !.id = "1172:cafd", !.bar1 = <<0, 65536>>],
   pci0 |-> [Dir(<<"power", "bridge", "card">>) EXCEPT !.pci = TRUE], power |-> Dir(<<>>),
   bridge |-> [Dir(<<"behind">>) EXCEPT !.id = "8086:1234"],
   behind |-> [Dir(<<>>) EXCEPT !.id = first, !.bar1 = <<0, 131072>>],
   card |-> [Dir(<<>>) EXCEPT !.id = second, !.bar1 = <<0, 262144>>],
   pci1 |-> [Dir(<<"last">>) EXCEPT !.pci = TRUE],
   last |-> [Dir(<<>>) EXCEPT !.id = "1172:cafd", !.bar1 = <<0, 524288>>]]

Other  == MCTree("none", "1760:ff00")
Altera == MCTree("1172:cafd", "1172:cafd")
NoPci  == [devices |-> Dir(<<"uevent", "platform">>), uevent |-> File, platform |-> Dir(<<>>)]

\* No board at the first place, two of them, only the other one, none; a board whose file
\* resource cannot be read, with and without the other one; directories that cannot be
\* opened before and behind the board, and /sys/devices itself; a board above 4 GiB.
MCTrees ==
  {Other, Altera, [Other EXCEPT !["last"].id = "none"], NoPci,
   [Other EXCEPT !["last"].bar1 = NoAddress], [Altera EXCEPT !["behind"].bar1 = NoAddress],
   [Altera EXCEPT !["power"].opens = FALSE], [Altera EXCEPT !["card"].opens = FALSE],
   [Other EXCEPT !["last"].opens = FALSE], [NoPci EXCEPT !["devices"].opens = FALSE],
   [Altera EXCEPT !["behind"].bar1 = <<1, 262144>>]}

MCCores ==
  {<<0, 1136852992>>, <<1, 262144>>} \cup {<<0, a + b>> : a \in {131072, 262144, 524288}, b \in {0, 16384}}

MCBoards ==
  {[tree |-> t, cores |-> MCCores, page |-> 4096] : t \in MCTrees} \cup
  {[tree |-> NoPci, cores |-> {}, page |-> 4096], [tree |-> Altera, cores |-> MCCores, page |-> 65536]}

Frame(id, flags, len) ==
  [can_id |-> id, flags |-> flags, len |-> len, data |-> [k \in 1..((len + 3) \div 4) |-> 100 * len + k]]

MCPeerFrames ==
  {[cf |-> Frame({1, 9}, {}, 5), fd |-> FALSE], [cf |-> Frame(Ext({0, 19}), {"BRS"}, 26), fd |-> TRUE],
   [cf |-> Frame(Ext({17, 18, CAN_RTR_FLAG}), {}, 3), fd |-> FALSE]}

R(id_type, fr_type, flag, length, id) ==
  [id_type |-> id_type, fr_type |-> fr_type, flag |-> flag, length |-> length, id |-> id]

\* Each kind of frame with the length and identifier at its upper end.
MCRands == {R(0, 0, 0, 15, 2147483647), R(0, 0, 1, 7, 2048), R(1, 1, 0, 21, 2147483647), R(1, 1, 1, 15, 536870911)}

\* The logger where it does not run: kvaser_init has failed at its first step.
LoggerFailed ==
  /\ log = [pc |-> "exit", i |-> 0, frame |-> NoFrame, ret |-> 1, lib |-> FALSE,
            writable |-> FALSE, killed |-> "none", old |-> 0]
  /\ chan = [c \in 0..1 |-> "closed"]
  /\ txq = <<>> /\ rxq = <<>> /\ pipe = <<>>
  /\ stp = [pc |-> "none", session |-> FALSE, job |-> 0, of |-> 0]
  /\ file = NoFile /\ out = <<>> /\ trouble = FALSE

\* The machine makes a difference to the option -p only, but for its pages.
MCInit ==
  /\ Init /\ ReadInit /\ (prog.kind # "client" => now = [high |-> 0, low |-> 0])
  /\ Tool /\ ~prog.opt.pci => prog.board.tree \in {NoPci, Altera}
  /\ \/ program = "controller" /\ LoggerFailed
     \/ program = "logger" /\ LoggerInit /\ prog = [kind |-> "peek"]

\* The client that reads the time stamp makes no other call.
MCNext ==
  /\ UNCHANGED program
  /\ \/ /\ program = "controller" /\ UNCHANGED loggervars
        /\ \/ Next /\ read.pc = "idle" /\ now = [high |-> 0, low |-> 0] /\ UNCHANGED <<now, read>>
           \/ ReadNext /\ prog.kind = "client" /\ prog.calls = 0 /\ UNCHANGED vars
     \/ program = "logger" /\ LoggerNext /\ UNCHANGED <<vars, now, read>>

\* The fairness of LoggerSpec, of the logger when it is the program that runs.
MCFairness ==
  program = "logger" => WF_loggervars(Logger) /\ WF_loggervars(Analyzer)

MCSpec == MCInit /\ [][MCNext]_<<vars, now, read, loggervars, program>> /\ MCFairness
=============================================================================
