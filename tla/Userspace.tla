------------------------------ MODULE Userspace ------------------------------
(***************************************************************************)
(* One controller and the program that drives it from user space through   *)
(* the library: the test tool (main of ctucanfd_userspace.cpp), the        *)
(* register test (main of regtest.cpp), or a client that makes any calls   *)
(* that configure the controller.  A peer on the bus runs the kernel       *)
(* driver.  A fourth program reads every field of every register after the *)
(* controller has set it at the place the masks of the kernel driver give. *)
(***************************************************************************)
EXTENDS LibraryClient, BitTimingCalc, PciSearch, FiniteSets

CONSTANTS
  MaxPeer,       \* frames the peer sends
  RxWords,       \* words of the RX FIFO
  ToolOptions,   \* command lines of the tool
  Boards,        \* machines: [tree of /sys/devices, addresses of cores, page size]
  PeerFrames,    \* what the peer sends: [cf, fd]
  Versions       \* versions of the controller, major * 10 + minor

-----------------------------------------------------------------------------
\* Every field, address and payload byte, read through the structures of the library.

PeekField ==
  /\ prog = [kind |-> "peek"]
  /\ \E r \in DOMAIN Bitfields \cap DOMAIN Masks : \E f \in DOMAIN MaskOf[r] :
       prog' = [kind |-> "field", reg |-> r, field |-> f, word |-> MaskOf[r][f]]
  /\ UNCHANGED <<dev, bus>>

PeekAddress ==
  /\ prog = [kind |-> "peek"]
  /\ \/ \E a \in DOMAIN CTUCANFD : prog' = [kind |-> "address", kernel |-> <<CTUCANFD[a]>>, library |-> <<Address[a]>>]
     \/ \E a \in DOMAIN CTUCANFD_FRAME :
          prog' = [kind |-> "address", kernel |-> <<CTUCANFD_FRAME[a]>>, library |-> <<FrameOffset[a]>>]
     \/ \E n \in 1..8, i \in 1..21 :
          prog' = [kind |-> "address", kernel |-> <<CTUCANFD_TXTB_DATA(n, i)>>, library |-> <<TxtbData(n, i)>>]
     \/ \E k \in 0..15 :
          prog' = [kind |-> "address", kernel |-> REG_DATA_WORDS[k], library |-> data_words[k]]
  /\ UNCHANGED <<dev, bus>>

\* ctucan_read_fault_state of the kernel driver, of the words of EWL and REC.
read_fault_state(ewl, rec) ==
  LET limit == Field("ewl_erp_fault_state", "ew_limit", ewl)
      Flag(f) == Field("ewl_erp_fault_state", f, ewl) = 1
  IN  IF Flag("era")
      THEN IF \A f \in {"rec_val", "tec_val"} : limit > Field("rec_tec", f, rec)
           THEN "ERROR_ACTIVE" ELSE "ERROR_WARNING"
      ELSE IF ~Flag("erp") /\ Flag("bof") THEN "BUS_OFF" ELSE "ERROR_PASSIVE"

PeekFaultState ==
  /\ prog = [kind |-> "peek"]
  /\ \E rec, tec \in {0, 95, 96, 256}, state \in {"era", "erp", "bof"} :
       LET r == Word("rec_tec", [rec_val |-> rec, tec_val |-> tec])
           e == Word("ewl_erp_fault_state", [ew_limit |-> 96] @@ (state :> 1))
       IN  prog' = [kind |-> "fault", kernel |-> read_fault_state(e, r), library |-> read_error_state(e, r)]
  /\ UNCHANGED <<dev, bus>>

-----------------------------------------------------------------------------
\* The register test: writes to BTR with byte enables, and what must be read back.

Ones == 0..31
Odd  == {b \in Ones : b % 2 = 1}
Mod3(k) == {b \in Ones : b % 3 = k}

\* Faulty variant: no offset for the upper half of the word.
LanesNoOffset(be) == CASE be = "0011" -> 0..15 [] be = "1100" -> 0..15 [] be = "1111" -> Ones

\* apb_write: the byte lanes that a byte enable selects; the value is put there.
Lanes(be) == CASE be = "0011" -> 0..15 [] be = "1100" -> 16..31 [] be = "1111" -> Ones

apb_write(word, value, be) ==
  IF Is(dev.regs, "mode_settings", "ena") THEN word
  ELSE (word \ Lanes(be)) \cup
       (IF be = "1100" THEN {b + 16 : b \in value \cap 0..15} ELSE value \cap Lanes(be))

\* 0x0204CAFD is version 2.4.
CheckId(errors) == IF dev.version = 24 THEN errors ELSE errors + 1

\* A word is written and must be read back.
apb_test_pattern(v) == [v |-> v, be |-> "1111", expected |-> {v}]

\* The writes of main, in order, with what the word read back is compared with, if anything.
RegScript ==
  LET w == {0, 5, 8, 9, 14, 16, 18, 21, 22, 24, 25, 26, 31}    \* 0x87654321
      l == {1, 3, 5, 7, 8, 10, 12, 14}                         \* 0x000055aa
      Test(v) == apb_test_pattern(v)
  IN  <<Test(Ones),
        [v |-> {}, be |-> "0011", expected |-> {16..31}],
        [v |-> Ones, be |-> "1111", expected |-> {}],
        [v |-> {}, be |-> "1100", expected |-> {0..15}],
        Test(Odd), Test(Ones \ Odd), Test(Mod3(1)), Test(Mod3(0)), Test(Mod3(2)),
        Test(w),
        [v |-> l, be |-> "0011", expected |-> {(w \ 0..15) \cup l}]>>

\* main: an address outside of the port range, not aligned, or that cannot be mapped ends the
\* program.
RegtestStart ==
  /\ prog.kind = "regtest"
  /\ prog.pc = 0
  /\ IF prog.addr = "ok" THEN prog' = [prog EXCEPT !.pc = 1, !.error = CheckId(@)]
     ELSE prog' = [prog EXCEPT !.pc = Len(RegScript) + 1, !.error = 1]
  /\ UNCHANGED <<dev, bus>>

\* The identifier is checked once more after the first write.
RegtestStep ==
  /\ prog.kind = "regtest"
  /\ prog.pc \in 1..Len(RegScript)
  /\ LET s    == RegScript[prog.pc]
         word == apb_write(dev.regs.btr, s.v, s.be)
         e    == IF prog.pc = 1 THEN CheckId(prog.error) ELSE prog.error
     IN  /\ dev' = [dev EXCEPT !.regs.btr = word]
         /\ prog' = [prog EXCEPT !.pc = @ + 1,
                                 !.error = IF \A x \in s.expected : word = x THEN e ELSE e + 1]
  /\ UNCHANGED bus

-----------------------------------------------------------------------------
\* The test tool.

At(pc) == prog.kind = "tool" /\ prog.pc = pc

Goto(pc) == prog' = [prog EXCEPT !.pc = pc]

\* The numbers of the boards the option -p looks for.
BoardIds == <<"1172:cafd", "1760:ff00">>

\* The second core of a board (a base address register is aligned to its size: no carry).
Second(bar) == <<bar[1], bar[2] + 16384>>

\* Option -p: one round of pci_find_dev; a second search when the first gives no address.
ToolFind ==
  /\ At("find")
  /\ LET tree == prog.board.tree
         f    == FindRound(tree, BoardIds[prog.search], prog.find)
         bar  == FindBar(tree, f)
     IN  prog' = IF ~FindDone(f) THEN [prog EXCEPT !.find = f]
                 ELSE IF f.ends THEN [prog EXCEPT !.find = f, !.pc = "exit"]
                 ELSE IF bar # NoAddress
                 THEN [prog EXCEPT !.find = f, !.addrs = <<bar, Second(bar)>>, !.pc = "init"]
                 ELSE IF prog.search = 1
                 THEN [prog EXCEPT !.search = 2, !.find = FindDev(tree, "devices", 0)]
                 ELSE [prog EXCEPT !.find = f, !.pc = "exit"]
  /\ UNCHANGED <<dev, bus>>

\* The parameter of ctucanfd_init has 32 bits; an unsigned long has 64.
Uint32(addr) == <<0, addr[2]>>

\* mem_map: the window is whole pages from the page of mem_start on.
MapWindow(mem_start, page) ==
  LET need == (mem_start % page) + 4096
  IN  [size |-> ((need + page - 1) \div page) * page, offset |-> mem_start % page]

\* The address asked for: of the option -a, else of the interface.
AddrBase == IF prog.opt.addr # NoAddress THEN prog.opt.addr ELSE prog.addrs[prog.opt.ifc + 1]

\* ctucanfd_init and ctucan_hw_check_access: the program ends where no core answers.
ToolInit ==
  /\ At("init")
  /\ LET base == Uint32(AddrBase)
     IN  prog' = [prog EXCEPT !.base = base, !.map = MapWindow(base[2], prog.board.page),
                    !.pc = IF base \notin prog.board.cores THEN "exit"
                           ELSE IF prog.opt.read_speed THEN "speed" ELSE "reset"]
  /\ UNCHANGED <<dev, bus>>

\* mem_open, mem_map: the program ends when /dev/mem cannot be opened or mapped.
ToolMapFails ==
  /\ At("init")
  /\ Goto("exit")
  /\ UNCHANGED <<dev, bus>>

\* The reads take the RX FIFO empty, the writes clear a filter value.
ToolReadSpeed ==
  /\ At("speed")
  /\ dev' = [dev EXCEPT !.fifo = <<>>, !.regs = write_reg(@, "filter_c_val", {})]
  /\ bus' = [bus EXCEPT !.sent = <<>>]
  /\ Goto("exit")

ToolReset ==
  /\ At("reset")
  /\ dev' = ResetDev(dev.version)
  /\ bus' = [bus EXCEPT !.sent = <<>>]
  /\ Goto("timing")

DataRate(opt) == IF opt.dbitrate = 0 THEN 10 * opt.bitrate ELSE opt.dbitrate

\* can_get_bittiming for the bit rates of a command line; the clock is 100 MHz.
ToolTimings ==
  LET rate(r) == [bitrate |-> r, prop_seg |-> 0, phase_seg1 |-> 0, phase_seg2 |-> 0, sjw |-> 0, brp |-> 0]
  IN  [o \in ToolOptions |-> [nominal \in BOOLEAN |->
         GetBittiming(rate(IF nominal THEN o.bitrate ELSE DataRate(o)), 0, nominal, 100)]]

\* Both timings are found before one is written.
ToolTiming ==
  /\ At("timing")
  /\ \E t \in {ToolTimings[prog.opt]} :
       IF t[TRUE] = {} \/ t[FALSE] = {} THEN Goto("exit") /\ UNCHANGED dev
       ELSE \E n \in t[TRUE], d \in t[FALSE] :
              /\ dev' = [dev EXCEPT !.regs = set_data_bittiming(set_nom_bittiming(@, n), d)]
              /\ prog' = [prog EXCEPT !.pc = "loopback", !.rate = prog.opt.bitrate,
                                      !.drate = DataRate(prog.opt)]
  /\ UNCHANGED bus

ToolLoopback ==
  /\ At("loopback")
  /\ dev' = [dev EXCEPT !.regs = IF prog.opt.loopback
               THEN hw_set_mode(@, {"LOOPBACK", "PRESUME_ACK"}, {"LOOPBACK", "PRESUME_ACK"}) ELSE @]
  /\ Goto("enable")
  /\ UNCHANGED bus

ToolEnable ==
  /\ At("enable")
  /\ dev' = [dev EXCEPT !.regs = hw_enable(@, TRUE)]
  /\ Goto(IF prog.opt.transmit = "once" THEN "insert" ELSE "count")
  /\ UNCHANGED bus

-----------------------------------------------------------------------------
\* Transmission through TXT buffer 1.

ToolId == 0..8          \* 0x1ff

\* The frame of the option -t, of -T, and of -T with -f.
ToolFrame(opt) ==
  LET Bytes(n, flags) == [can_id |-> ToolId, flags |-> flags, len |-> n,
                          data |-> [k \in 1..WordsOf(n) |-> n + k]]
  IN  IF opt.transmit = "once" THEN Bytes(4, {}) ELSE IF opt.fdf THEN Bytes(14, {"BRS"}) ELSE Bytes(8, {})

ToolFdf(opt) == opt.transmit = "periodic" /\ opt.fdf

\* ctucan_hw_get_tx_status of buffer 1.
get_tx_status == Number(Get(Word("tx_status", [tx1s |-> tx_status_code[dev.txt]]), "tx_status", "tx1s"))

is_txt_buf_accessible(code) ==
  code \notin {tx_status_code[s] : s \in {"TXT_RDY", "TXT_TRAN", "TXT_ABTP"}}

\* ctucan_hw_insert_frame up to the check of the buffer.
ToolCheckBuffer ==
  /\ At("insert")
  /\ LET res == is_txt_buf_accessible(get_tx_status)
     IN  prog' = [prog EXCEPT !.pc = IF res THEN "write" ELSE "rdy", !.failed = @ \/ ~res]
  /\ UNCHANGED <<dev, bus>>

\* The writes of ctucan_hw_insert_frame; the controller ignores writes to a buffer in use.
ToolWriteBuffer ==
  /\ At("write")
  /\ IF dev.txt \in {"TXT_RDY", "TXT_TRAN", "TXT_ABTP"} THEN UNCHANGED <<dev, bus>>
     ELSE /\ dev' = [dev EXCEPT !.buf = hw_insert_frame(@, ToolFrame(prog.opt), ToolFdf(prog.opt))]
          /\ bus' = [bus EXCEPT !.fresh = TRUE]
  /\ Goto("rdy")

\* The buffer is made ready whether or not the frame was inserted.
ToolReady ==
  /\ At("rdy")
  /\ dev' = [dev EXCEPT !.txt = Command(txt_set_rdy(0))]
  /\ Goto(IF prog.opt.transmit = "once" THEN "exit" ELSE "sleep")
  /\ UNCHANGED bus

-----------------------------------------------------------------------------
\* The loop of the tool.

get_rx_frame_count == Cardinality({i \in 1..Len(dev.fifo) : dev.fifo[i].first})

ToolCount ==
  /\ At("count")
  /\ prog' = [prog EXCEPT !.pc = "poll", !.nrxf = get_rx_frame_count]
  /\ UNCHANGED <<dev, bus>>

\* rxsz, the status words, and the interrupts that were read are cleared.
ToolPoll ==
  /\ At("poll")
  /\ prog' = [prog EXCEPT !.pc = "while", !.rxsz = Len(dev.fifo)]
  /\ dev' = [dev EXCEPT !.int_stat = {}]
  /\ UNCHANGED bus

\* Faulty variant: rxsz keeps its value.
ToolReadFrameAgain ==
  /\ At("while") /\ prog.nrxf + prog.rxsz > 0 /\ dev.fifo # <<>>
  /\ LET r == hw_read_rx_frame(dev.fifo)
     IN  /\ dev' = [dev EXCEPT !.fifo = SubSeq(@, r.words + 1, Len(@))]
         /\ bus' = [bus EXCEPT !.sent = Tail(@), !.got = {[cf |-> r.cf, of |-> Head(bus.sent)]}]
         /\ prog' = [prog EXCEPT !.nrxf = get_rx_frame_count']

\* One pass of while(nrxf || rxsz).
ToolReadFrame ==
  /\ At("while") /\ prog.nrxf + prog.rxsz > 0 /\ dev.fifo # <<>>
  /\ LET r == hw_read_rx_frame(dev.fifo)
     IN  /\ dev' = [dev EXCEPT !.fifo = SubSeq(@, r.words + 1, Len(@))]
         /\ bus' = [bus EXCEPT !.sent = Tail(@), !.got = {[cf |-> r.cf, of |-> Head(bus.sent)]}]
         /\ prog' = [prog EXCEPT !.rxsz = 0, !.nrxf = get_rx_frame_count']

ToolReadDone ==
  /\ At("while") /\ prog.nrxf + prog.rxsz = 0
  /\ Goto(IF prog.opt.transmit = "periodic" /\ prog.odd THEN "insert" ELSE "sleep")
  /\ UNCHANGED <<dev, bus>>

\* usleep, loop_cycle++: only the lowest bit of loop_cycle is used.
ToolSleep ==
  /\ At("sleep")
  /\ prog' = [prog EXCEPT !.pc = "count", !.odd = ~@]
  /\ UNCHANGED <<dev, bus>>

ToolNext ==
  \/ ToolFind \/ ToolInit \/ ToolMapFails \/ ToolReadSpeed \/ ToolReset \/ ToolTiming \/ ToolLoopback
  \/ ToolEnable
  \/ ToolCheckBuffer \/ ToolWriteBuffer \/ ToolReady \/ ToolCount \/ ToolPoll \/ ToolReadFrame
  \/ ToolReadDone \/ ToolSleep

-----------------------------------------------------------------------------
\* The controller and the peer on the bus.

Running == Is(dev.regs, "mode_settings", "ena") /\ ~dev.bus_off

\* A received frame goes into the RX FIFO when it fits.
Receive(d, words) ==
  IF Len(d.fifo) + Len(words) > RxWords THEN d
  ELSE [d EXCEPT !.fifo = @ \o words, !.int_stat = @ \cup {"RXI"}]

\* The peer inserts a frame with the kernel driver and sends it.
PeerSend ==
  /\ prog.kind = "tool" /\ Running
  /\ bus.count < MaxPeer
  /\ \E p \in PeerFrames :
       LET words == Received(kernel_insert_frame(EmptyBuffer, p.cf, p.fd))
       IN  /\ dev' = Receive(dev, words)
           /\ bus' = [bus EXCEPT !.count = @ + 1,
                                 !.sent = IF dev'.fifo = dev.fifo THEN @ ELSE Append(@, p)]
  /\ UNCHANGED prog

HwStart ==
  /\ prog.kind = "tool" /\ Running /\ dev.txt = "TXT_RDY"
  /\ dev' = [dev EXCEPT !.txt = "TXT_TRAN"]
  /\ UNCHANGED <<prog, bus>>

\* Lost arbitration or an error: the frame is sent again.
HwRetry ==
  /\ dev.txt = "TXT_TRAN"
  /\ dev' = [dev EXCEPT !.txt = "TXT_RDY"]
  /\ UNCHANGED <<prog, bus>>

\* The frame is heard by the peer, which reads it with the kernel driver, and by the
\* controller itself in loopback mode.
HwDone ==
  /\ dev.txt = "TXT_TRAN"
  /\ \E words \in {Received(dev.buf)} :
       LET d   == [dev EXCEPT !.txt = "TXT_TOK", !.int_stat = @ \cup {"TXI"}]
           own == [cf |-> ToolFrame(prog.opt), fd |-> ToolFdf(prog.opt)]
       IN  /\ dev' = IF Is(dev.regs, "mode_settings", "ilbp") THEN Receive(d, words) ELSE d
           /\ bus' = [bus EXCEPT !.heard = {kernel_read_rx_frame(words).cf},
                                 !.repeated = @ \/ ~bus.fresh,
                                 !.fresh = FALSE,
                                 !.sent = IF dev'.fifo = dev.fifo THEN @ ELSE Append(@, own)]
  /\ UNCHANGED prog

\* TXT_ERR because TBFBO is set after a reset; nothing takes the controller out of bus-off.
HwBusOff ==
  /\ dev.txt = "TXT_TRAN"
  /\ dev' = [dev EXCEPT !.txt = "TXT_ERR", !.bus_off = TRUE]
  /\ UNCHANGED <<prog, bus>>

-----------------------------------------------------------------------------

NewTool(opt, board) ==
  [kind |-> "tool", pc |-> IF opt.pci THEN "find" ELSE "init", opt |-> opt, board |-> board,
   search |-> 1, find |-> FindDev(board.tree, "devices", 0),
   addrs |-> <<<<0, 1136852992>>, <<0, 1137115136>>>>,        \* 0x43C30000, 0x43C70000
   base |-> NoAddress, map |-> [size |-> 0, offset |-> 0], rate |-> 0, drate |-> 0,
   nrxf |-> 0, rxsz |-> 0, odd |-> FALSE, failed |-> FALSE]

Init ==
  \/ ClientInit
  \/ /\ bus = QuietBus
     /\ \E v \in Versions, on \in BOOLEAN :
          /\ dev = [ResetDev(v) EXCEPT !.regs = hw_enable(@, on)]
          /\ \/ ~on /\ v = 26 /\ prog = [kind |-> "peek"]
             \/ \E a \in {"ok", "outside", "unaligned", "unmapped"} :
                  prog = [kind |-> "regtest", pc |-> 0, error |-> 0, addr |-> a]
             \/ v = 26 /\ \E opt \in ToolOptions, board \in Boards : prog = NewTool(opt, board)

Next ==
  \/ ClientNext \/ PeekField \/ PeekAddress \/ PeekFaultState \/ RegtestStart \/ RegtestStep \/ ToolNext
  \/ PeerSend \/ HwStart \/ HwRetry \/ HwDone \/ HwBusOff

Spec == Init /\ [][Next]_vars

-----------------------------------------------------------------------------

Tool == prog.kind = "tool"

\* The program, the TXT buffer and the RX FIFO have their types.
TypeOK ==
  /\ prog.kind \in {"client", "peek", "field", "address", "fault", "regtest", "tool"}
  /\ dev.txt \in DOMAIN tx_status_code
  /\ Len(dev.fifo) <= RxWords
  /\ dev.regs \in [DOMAIN ResetRegs -> SUBSET (0..31)]

\* The structures of the library and the masks of the kernel driver name the same bits of
\* every register, the same address for it and the same byte of the payload, and both
\* drivers derive the same error state from the same words.
RegisterMapsAgree ==
  /\ prog.kind = "field" =>
       \A f \in DOMAIN Place[prog.reg] :
         Get(prog.word, prog.reg, f) =
           IF f = prog.field THEN 0..(Cardinality(prog.word) - 1) ELSE {}
  /\ prog.kind \in {"address", "fault"} => prog.kernel = prog.library

\* The register test reads back what it has written, whole words and byte lanes alike, from
\* a disabled controller, and counts an error on one that is enabled and ignores the
\* writes; apart from the two comparisons of the identifier, which only version 2.4 passes.
RegtestReadsBack ==
  prog.kind = "regtest" /\ prog.addr = "ok" /\ prog.pc > Len(RegScript) =>
    LET id_errors == IF dev.version = 24 THEN 0 ELSE 2
    IN  prog.error = id_errors <=> ~Is(dev.regs, "mode_settings", "ena")

-----------------------------------------------------------------------------

\* Directories in the order of a walk that enters each before the next.
RECURSIVE Preorder(_, _)
Preorder(tree, d) ==
  <<d>> \o FlattenSeq([i \in 1..Len(tree[d].entries) |->
             LET e == tree[d].entries[i] IN IF tree[e].dir THEN Preorder(tree, e) ELSE <<>>])

Roots(tree) == SelectSeq(tree["devices"].entries, LAMBDA e : tree[e].dir /\ tree[e].pci)

\* The walk through the host bridges, the places of the boards with the numbers id in it,
\* and what is entered up to the first of them.
Walk(tree) == <<"devices">> \o FlattenSeq([i \in 1..Len(Roots(tree)) |-> Preorder(tree, Roots(tree)[i])])
Hits(tree, id) ==
  {i \in 2..Len(Walk(tree)) : LET d == Walk(tree)[i] IN d \notin Range(Roots(tree)) /\ tree[d].id = id}
Entered(tree, id) ==
  SubSeq(Walk(tree), 1, IF Hits(tree, id) = {} THEN Len(Walk(tree)) ELSE Min(Hits(tree, id)))

\* The address of the first board, and whether a directory on the way cannot be opened.
BoardAt(tree, id) == IF Hits(tree, id) = {} THEN NoAddress ELSE tree[Last(Entered(tree, id))].bar1
Blocked(tree, id) == \E d \in Range(Entered(tree, id)) : ~tree[d].opens

FirstBoard(tree) ==
  IF Blocked(tree, BoardIds[1]) THEN NoAddress
  ELSE IF BoardAt(tree, BoardIds[1]) # NoAddress THEN BoardAt(tree, BoardIds[1])
  ELSE IF Blocked(tree, BoardIds[2]) THEN NoAddress ELSE BoardAt(tree, BoardIds[2])

\* With option -p the tool works on the first Altera board of the machine, else on the
\* first board with the other numbers; it ends without touching a controller when there is
\* none, when no board tells its address, or when a directory on the way cannot be opened.
\* Nothing is claimed of a board at 4 GiB or above: its address is cut to 32 bits, and the
\* tool works on whatever lies there.
PciBoardFound ==
  Tool /\ prog.opt.pci /\ prog.opt.addr = NoAddress /\ prog.pc # "find" =>
    /\ FindDone(prog.find)
    /\ LET board == FirstBoard(prog.board.tree)
       IN  IF board = NoAddress THEN prog.pc = "exit" /\ prog.base = NoAddress
           ELSE board[1] = 0 /\ prog.base # NoAddress =>
                  prog.base = IF prog.opt.ifc = 0 THEN board ELSE <<0, board[2] + 16384>>

\* The 4096 bytes of registers lie inside the mapping of /dev/mem.
RegistersMapped == Tool /\ prog.map.size > 0 => prog.map.offset + 4096 <= prog.map.size

\* The bit rate a timing gives, from the fields of BTR or BTR_FD.
RateOf(bt) == 100000000 \div BitLength(bt)

\* The tool runs at bit rates at most 5 % off those it was asked for, and no other length
\* and prescaler that the limits allow comes closer (can_calc_bittiming).
BitRateBest ==
  Tool /\ prog.rate # 0 /\ prog.pc = "loopback" =>
    \A nominal \in BOOLEAN :
      \E off \in {Abs(RateOf(Decoded[IF nominal THEN "nbt" ELSE "dbt"]) - (IF nominal THEN prog.rate ELSE prog.drate))} :
        LET rate == IF nominal THEN prog.rate ELSE prog.drate
            btc  == TimingConst(nominal)
        IN  /\ off * 20 <= rate
            /\ \A n \in (1 + btc.tseg1_min + btc.tseg2_min)..(1 + btc.tseg1_max + btc.tseg2_max),
                  brp \in btc.brp_min..btc.brp_max :
                 off <= Abs(100000000 \div (n * brp) - rate)

\* The frame that ctucan_hw_read_rx_frame returns is the one the peer inserted with the
\* kernel driver (or the tool itself in loopback mode), up to the padding of the length.
ReceivedAsSent == \A g \in bus.got : Matches(g.cf, g.of.cf, g.of.fd)

\* Every read takes exactly one frame off the RX FIFO, and none is read from an empty one.
FifoStaysAligned ==
  Tool =>
    /\ Len(bus.sent) = get_rx_frame_count
    /\ dev.fifo # <<>> => dev.fifo[1].first
    /\ At("while") /\ prog.nrxf + prog.rxsz > 0 => dev.fifo # <<>>

\* What the peer reads is the frame of the tool, never what the TXT buffer held before.
SentIsToolFrame ==
  \A h \in bus.heard : Matches(h, ToolFrame(prog.opt), ToolFdf(prog.opt))

\* A frame goes out twice only after the tool has reported a failed insertion: the buffer
\* is made ready in any case.
RepeatedOnlyAfterFailure == bus.repeated => prog.failed

\* Frames cross from one driver to the other whole, in order and once: what is read is
\* what was inserted (ctucan_hw_insert_frame, ctucan_hw_read_rx_frame and their kernel
\* counterparts), and no word of the RX FIFO is read twice or left over.
FramesIntact ==
  TypeOK /\ ReceivedAsSent /\ FifoStaysAligned /\ SentIsToolFrame /\ RepeatedOnlyAfterFailure

\* The tool works on the board it looked for, in its mapping, at the best bit rates.
ToolSetUp == PciBoardFound /\ RegistersMapped /\ BitRateBest

=============================================================================
