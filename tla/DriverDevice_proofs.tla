------------------------ MODULE DriverDevice_proofs ------------------------
(***************************************************************************)
(* Probe, use and removal of a device take and give back their resources   *)
(* in order, for every number of cores and every configuration.            *)
(***************************************************************************)
EXTENDS DriverDevice, FiniteSetTheorems, TLAPS

Resources == {"device", "regions", "msi", "regs", "bar0", "bdata", "a2p_ie"}

\* Steps before and after the first core may exist.
Early == {"unbound", "enable", "regions", "msi", "bar1", "bar0", "kzalloc", "setdata"}
Late  == {"alloc", "reset", "register", "put", "a2p_ie", "bound", "removing"}

\* What is held at each step.  A mapping of BAR 0 may be left from a failed probe.
HeldInv ==
  /\ held \subseteq Resources
  /\ "a2p_ie" \in held => pc = "bound"
  /\ dev_bus = "platform" => pc \in (Late \ {"a2p_ie"}) \cup {"unbound"} /\ held = IF pc = "unbound" THEN {} ELSE {"regs"}
  /\ dev_bus = "pci" =>
       /\ pc \in {"unbound", "enable"} => held \subseteq {"bar0"}
       /\ pc = "regions" => held \subseteq {"bar0", "device"}
       /\ pc \notin {"unbound", "enable"} => "device" \in held
       /\ "regs" \in held <=> pc \in Late \cup {"bar0", "kzalloc", "setdata"}
       /\ "bdata" \in held <=> pc \in Late \cup {"setdata"}

CoreFields == {"ndev", "listed", "net", "res", "config", "nom", "data", "napi", "rx", "regs"}
RegFields  == {"ena", "irq_on", "masked", "mode", "btr", "btr_fd", "ssp"}

\* What is true of a core at any time, by itself.
CoreOK(r) ==
  /\ DOMAIN r = CoreFields
  /\ DOMAIN r.regs = RegFields
  /\ r.ndev \in {"none", "alloc", "registered"}
  /\ r.ndev = "none" => r = NoCore
  /\ r.res # {} \/ r.net # "down" \/ r.napi = "sched" => r.ndev = "registered"
  /\ r.regs.ena => r.net \in {"started", "up"}

\* Cores come into being in their order, beginning with the probe of the first.
CoreInv ==
  /\ DOMAIN core = Cores
  /\ core_i \in Cores
  /\ dev_bus = "platform" => core_i = 1
  /\ pc \in {"reset", "register"} => core[core_i].ndev = "alloc"
  /\ \A c \in Cores : /\ CoreOK(core[c])
                      /\ core[c].listed <=> (dev_bus = "pci" /\ core[c].ndev # "none")
                      /\ pc \in Early => core[c] = NoCore
                      /\ pc = "alloc" /\ c >= core_i => core[c] = NoCore
                      /\ pc \in {"reset", "register"} /\ c > core_i => core[c] = NoCore
                      /\ pc = "put" /\ c > core_i => core[c] = NoCore

DataInv ==
  /\ pc \in Early => drvdata = "NULL"
  /\ dev_bus = "platform" /\ pc \in Late \ {"alloc"} => drvdata = "ndev"
  /\ dev_bus = "platform" /\ pc = "alloc" => drvdata = "NULL"

\* The inductive invariant.
IInv ==
  /\ dev_bus \in {"platform", "pci"}
  /\ pc \in Early \cup Late
  /\ num_cores \in 0..MaxCores
  /\ HeldInv
  /\ CoreInv
  /\ DataInv

\* What the labels of ctucan_pci_probe release.
LEMMA UnwindFacts ==
  /\ Unwind("err") = {}
  /\ Unwind("err_disable_device") = {"device"}
  /\ Unwind("err_release_regions") = {"msi", "regions", "device"}
  /\ Unwind("err_pci_iounmap_bar1") = {"regs", "msi", "regions", "device"}
  /\ Unwind("err_pci_iounmap_bar0") = {"cra", "regs", "msi", "regions", "device"}
  /\ Unwind("err_free_board") = {"bdata", "cra", "regs", "msi", "regions", "device"}
<1>1. /\ DOMAIN ErrLabels = 1..6 /\ Len(ErrLabels) = 6
      /\ ErrLabels[1] = "err_free_board" /\ ErrLabels[2] = "err_pci_iounmap_bar0"
      /\ ErrLabels[3] = "err_pci_iounmap_bar1" /\ ErrLabels[4] = "err_release_regions"
      /\ ErrLabels[5] = "err_disable_device" /\ ErrLabels[6] = "err"
  BY DEF ErrLabels
<1>2. ASSUME NEW k \in 1..6
      PROVE  (CHOOSE i \in DOMAIN ErrLabels : ErrLabels[i] = ErrLabels[k]) = k
  <2>1. \A i \in DOMAIN ErrLabels : ErrLabels[i] = ErrLabels[k] => i = k
    BY <1>1
  <2>2. k \in DOMAIN ErrLabels
    BY <1>1, Zenon
  <2> QED
    BY <2>1, <2>2, Zenon
<1>3. ASSUME NEW k \in 1..6
      PROVE  Unwind(ErrLabels[k]) = UNION {Frees(ErrLabels[i]) : i \in k .. 6}
  BY <1>1, <1>2, Zenon DEF Unwind
<1>4. /\ Frees(ErrLabels[1]) = {"bdata"} /\ Frees(ErrLabels[2]) = {"cra"} /\ Frees(ErrLabels[3]) = {"regs"}
      /\ Frees(ErrLabels[4]) = {"msi", "regions"} /\ Frees(ErrLabels[5]) = {"device"} /\ Frees(ErrLabels[6]) = {}
  BY <1>1, Zenon DEF Frees
<1> DEFINE U(k) == UNION {Frees(ErrLabels[i]) : i \in k .. 6}
<1>5. \A k \in 1..5 : U(k) = Frees(ErrLabels[k]) \cup U(k + 1)
  OBVIOUS
<1>6. U(6) = Frees(ErrLabels[6])
  OBVIOUS
<1> HIDE DEF U
<1>7. /\ U(6) = {} /\ U(5) = {"device"} /\ U(4) = {"msi", "regions", "device"}
      /\ U(3) = {"regs", "msi", "regions", "device"} /\ U(2) = {"cra", "regs", "msi", "regions", "device"}
      /\ U(1) = {"bdata", "cra", "regs", "msi", "regions", "device"}
  <2>1. U(6) = {}
    BY <1>4, <1>6, Zenon
  <2>2. U(5) = {"device"}
    BY <1>4, <1>5, <2>1
  <2>3. U(4) = {"msi", "regions", "device"}
    BY <1>4, <1>5, <2>2
  <2>4. U(3) = {"regs", "msi", "regions", "device"}
    BY <1>4, <1>5, <2>3
  <2>5. U(2) = {"cra", "regs", "msi", "regions", "device"}
    BY <1>4, <1>5, <2>4
  <2>6. U(1) = {"bdata", "cra", "regs", "msi", "regions", "device"}
    BY <1>4, <1>5, <2>5
  <2> QED
    BY <2>1, <2>2, <2>3, <2>4, <2>5, <2>6, Zenon
<1>8. \A k \in 1..6 : Unwind(ErrLabels[k]) = U(k)
  BY <1>3, Zenon DEF U
<1> QED
  BY <1>1, <1>7, <1>8

-----------------------------------------------------------------------------

\* Nothing is held before the first probe.
LEMMA InitIInv == DeviceInit => IInv
<1> SUFFICES ASSUME DeviceInit PROVE IInv
  BY Zenon
<1> USE DeviceAssumption DEF DeviceInit, Early, Late
<1>1. HeldInv
  BY Zenon DEF HeldInv, Resources
<1>2. CoreInv
  <2>1. CoreOK(NoCore) /\ NoCore.listed = FALSE /\ NoCore.ndev = "none"
    BY Zenon DEF CoreOK, NoCore, ResetRegs, CoreFields, RegFields
  <2> QED
    BY <2>1 DEF CoreInv, Cores
<1>3. DataInv
  BY Zenon DEF DataInv
<1>4. dev_bus \in {"platform", "pci"} /\ pc \in Early \cup Late /\ num_cores \in 0..MaxCores
  OBVIOUS
<1> QED
  BY <1>1, <1>2, <1>3, <1>4, Zenon DEF IInv

\* A registered core r that becomes q stays registered, and as a core should be.
Kept(r, q) == CoreOK(q) /\ r.ndev = "registered" /\ q.ndev = "registered" /\ q.listed = r.listed

\* The updates of a registered core, one by one.
LEMMA KeptByUpdates ==
  ASSUME NEW r, CoreOK(r), r.ndev = "registered"
  PROVE  /\ \A cfg, nom, data : ~r.regs.ena => Kept(r, Configured(r, cfg, nom, data))
         /\ Kept(r, [r EXCEPT !.net = "reset", !.res = {"pm"}, !.rx = FALSE, !.regs = ResetRegs])
         /\ ~r.regs.ena => Kept(r, [r EXCEPT !.net = "down", !.res = {}])
         /\ \A x, y : ~r.regs.ena => Kept(r, [r EXCEPT !.net = x, !.res = y])
         /\ Kept(r, Started(r))
         /\ Kept(r, [r EXCEPT !.net = "up", !.napi = "idle"])
         /\ Kept(r, Closed(r))
         /\ \A y : Kept(r, [r EXCEPT !.res = y])
         /\ Kept(r, [r EXCEPT !.rx = TRUE])
         /\ \A n : Kept(r, [r EXCEPT !.regs = [r.regs EXCEPT !.masked = TRUE], !.napi = n])
         /\ Kept(r, [r EXCEPT !.rx = FALSE, !.napi = "idle", !.regs = [r.regs EXCEPT !.masked = FALSE]])
<1> USE DEF Kept, CoreOK, CoreFields, RegFields
<1>1. ASSUME NEW cfg, NEW nom, NEW data, ~r.regs.ena PROVE Kept(r, Configured(r, cfg, nom, data))
  <2>1. ASSUME NEW v, NEW w
        PROVE  /\ DOMAIN [r.regs EXCEPT !.btr = v, !.btr_fd = w] = RegFields
               /\ [r.regs EXCEPT !.btr = v, !.btr_fd = w].ena = r.regs.ena
    BY SMT
  <2>2. ASSUME NEW v, NEW w, NEW g, DOMAIN g = RegFields, ~g.ena
        PROVE  Kept(r, [r EXCEPT !.config = cfg, !.nom = v, !.data = w, !.regs = g])
    BY <2>2, SMT
  <2> HIDE DEF Kept, CoreOK
  <2> QED
    BY <1>1, <2>1, <2>2, Zenon DEF Configured
<1>2. Kept(r, [r EXCEPT !.net = "reset", !.res = {"pm"}, !.rx = FALSE, !.regs = ResetRegs])
  BY SMT DEF ResetRegs
<1>3. ASSUME NEW x, NEW y, ~r.regs.ena PROVE Kept(r, [r EXCEPT !.net = x, !.res = y])
  BY <1>3, SMT
<1>4. Kept(r, Started(r))
  BY SMT DEF Started, ChipStart
<1>5. Kept(r, [r EXCEPT !.net = "up", !.napi = "idle"])
  BY SMT
<1>6. Kept(r, Closed(r))
  <2>1. ASSUME NEW g, DOMAIN g = RegFields, ~g.ena
        PROVE  Kept(r, [r EXCEPT !.net = "down", !.res = {}, !.napi = "off", !.regs = g])
    BY <2>1, SMT
  <2>2. /\ DOMAIN [r.regs EXCEPT !.ena = FALSE, !.irq_on = FALSE, !.masked = TRUE] = RegFields
        /\ ~[r.regs EXCEPT !.ena = FALSE, !.irq_on = FALSE, !.masked = TRUE].ena
    BY SMT
  <2> HIDE DEF Kept, CoreOK
  <2> QED
    BY <2>1, <2>2, Zenon DEF Closed
<1>7. ASSUME NEW y PROVE Kept(r, [r EXCEPT !.res = y])
  BY SMT
<1>8. Kept(r, [r EXCEPT !.rx = TRUE])
  BY SMT
<1>9. ASSUME NEW n PROVE Kept(r, [r EXCEPT !.regs = [r.regs EXCEPT !.masked = TRUE], !.napi = n])
  BY SMT
<1>10. Kept(r, [r EXCEPT !.rx = FALSE, !.napi = "idle", !.regs = [r.regs EXCEPT !.masked = FALSE]])
  BY SMT
<1> HIDE DEF Kept, CoreOK
<1> QED
  BY <1>1, <1>2, <1>3, <1>4, <1>5, <1>6, <1>7, <1>8, <1>9, <1>10, Zenon

\* An operation on an interface.
CoreOp(c) == \/ Changelink(c) \/ OpenCore(c) \/ CloseCore(c) \/ GetBerrCounter(c)
             \/ FrameArrives(c) \/ RxIrq(c) \/ Poll(c)

\* It changes one core, which is registered and stays so, and finds no fault.
LEMMA CoreOpStep ==
  ASSUME IInv, NEW c \in Cores, CoreOp(c)
  PROVE  /\ UNCHANGED_device
         /\ UNCHANGED fault
         /\ \E q : core' = [core EXCEPT ![c] = q] /\ Kept(core[c], q)
<1> DEFINE r == core[c]
<1>1. CoreOK(r)
  BY Zenon DEF IInv, CoreInv
<1>2. r.net # "down" \/ r.res # {} \/ r.napi = "sched" \/ r.regs.ena => r.ndev = "registered"
  BY <1>1, Zenon DEF CoreOK
<1>3. r.net \notin {"started", "up"} => ~r.regs.ena
  BY <1>1, Zenon DEF CoreOK
<1>4. r.ndev = "registered"
  BY <1>2, Zenon DEF CoreOp, Changelink, OpenCore, OpenReset, OpenCandev, OpenIrq, OpenStart, OpenNapi, CloseCore,
              GetBerrCounter, FrameArrives, RxIrq, Poll, UserRequest
<1>5. CASE Changelink(c)
  <2>1. ~r.regs.ena
    BY <1>3, <1>5, Zenon DEF Changelink
  <2>2. \A cfg, nom, data : Kept(r, Configured(r, cfg, nom, data))
    BY <1>1, <1>4, <2>1, KeptByUpdates, Zenon
  <2>3. \E cfg, nom, data : core' = [core EXCEPT ![c] = Configured(core[c], cfg, nom, data)] /\ UNCHANGED fault
    BY <1>5, <2>1, Zenon DEF Changelink
  <2>4. UNCHANGED_device
    BY <1>5, Zenon DEF Changelink
  <2> QED
    BY <2>2, <2>3, <2>4, Zenon
<1>6. CASE OpenCore(c)
  <2>1. CASE OpenReset(c)
    BY <1>1, <1>4, <2>1, KeptByUpdates, Zenon DEF OpenReset
  <2>2. CASE OpenCandev(c)
    <3>1. ~r.regs.ena
      BY <1>3, <2>2, Zenon DEF OpenCandev
    <3>2. /\ Kept(r, [r EXCEPT !.net = "down", !.res = {}])
          /\ Kept(r, [r EXCEPT !.net = "candev", !.res = r.res \cup {"candev"}])
      BY <1>1, <1>4, <3>1, KeptByUpdates, Zenon
    <3> QED
      BY <2>2, <3>2, Zenon DEF OpenCandev, OpenFailed
  <2>3. CASE OpenIrq(c)
    <3>1. ~r.regs.ena
      BY <1>3, <2>3, Zenon DEF OpenIrq
    <3>2. /\ Kept(r, [r EXCEPT !.net = "down", !.res = {}])
          /\ Kept(r, [r EXCEPT !.net = "irq", !.res = r.res \cup {"irq"}])
      BY <1>1, <1>4, <3>1, KeptByUpdates, Zenon
    <3> QED
      BY <2>3, <3>2, Zenon DEF OpenIrq, OpenFailed
  <2>4. CASE OpenStart(c)
    BY <1>1, <1>3, <1>4, <2>4, KeptByUpdates, Zenon DEF OpenStart
  <2>5. CASE OpenNapi(c)
    BY <1>1, <1>4, <2>5, KeptByUpdates, Zenon DEF OpenNapi
  <2> QED
    BY <1>6, <2>1, <2>2, <2>3, <2>4, <2>5, Zenon DEF OpenCore
<1>7. CASE CloseCore(c)
  BY <1>1, <1>4, <1>7, KeptByUpdates, Zenon DEF CloseCore
<1>8. CASE GetBerrCounter(c)
  BY <1>1, <1>4, <1>8, KeptByUpdates, Zenon DEF GetBerrCounter
<1>9. CASE FrameArrives(c)
  BY <1>1, <1>4, <1>9, KeptByUpdates, Zenon DEF FrameArrives
<1>10. CASE RxIrq(c)
  BY <1>1, <1>4, <1>10, KeptByUpdates, Zenon DEF RxIrq
<1>11. CASE Poll(c)
  BY <1>1, <1>4, <1>11, KeptByUpdates, Zenon DEF Poll
<1> QED
  BY <1>5, <1>6, <1>7, <1>8, <1>9, <1>10, <1>11, Zenon DEF CoreOp

\* After it the invariant holds: a registered core exists only when the probe is late.
LEMMA CoreOpIInv ==
  ASSUME IInv, NEW c \in Cores, CoreOp(c)
  PROVE  IInv'
<1>1. UNCHANGED <<dev_bus, num_cores, pc, core_i, held, drvdata>>
  BY CoreOpStep, Zenon DEF UNCHANGED_device
<1>2. PICK q : core' = [core EXCEPT ![c] = q] /\ Kept(core[c], q)
  BY CoreOpStep, Zenon
<1>3. core[c] # NoCore
  BY <1>2 DEF Kept, NoCore
<1>4. DOMAIN core' = Cores /\ core'[c] = q /\ \A d \in Cores \ {c} : core'[d] = core[d]
  BY <1>2, Zenon DEF IInv, CoreInv
<1>5. CoreInv'
  <2>1. CoreOK(q) /\ q.listed = core[c].listed /\ q.ndev = core[c].ndev
    BY <1>2, Zenon DEF Kept
  <2> QED
    BY <1>1, <1>3, <1>4, <2>1 DEF IInv, CoreInv, Cores
<1>6. HeldInv' /\ DataInv'
  BY <1>1, Zenon DEF IInv, HeldInv, DataInv
<1> QED
  BY <1>1, <1>5, <1>6, Zenon DEF IInv

\* Every step of a probe, its error paths included, preserves the invariant.
LEMMA ProbeIInv ==
  ASSUME IInv, Probe
  PROVE  IInv'
<1> USE DeviceAssumption DEF Early, Late
<1>1. CASE PciProbe
  <2>1. dev_bus = "pci"
    BY <1>1, Zenon DEF PciProbe, Acquire, IInv, HeldInv
  <2>2. HeldInv'
    BY <1>1, <2>1, UnwindFacts, Zenon DEF PciProbe, Acquire, IInv, HeldInv, Resources
  <2>3. CoreInv'
    BY <1>1, <2>1 DEF PciProbe, Acquire, IInv, CoreInv, Cores
  <2>4. DataInv'
    BY <1>1, <2>1, Zenon DEF PciProbe, Acquire, IInv, DataInv
  <2> QED
    BY <1>1, <2>2, <2>3, <2>4, Zenon DEF PciProbe, Acquire, IInv
<1>2. CASE PlatformProbe
  <2>1. HeldInv'
    BY <1>2, Zenon DEF PlatformProbe, IInv, HeldInv, Resources
  <2>2. CoreInv'
    BY <1>2, Zenon DEF PlatformProbe, IInv, CoreInv, Cores
  <2>3. DataInv'
    BY <1>2, Zenon DEF PlatformProbe, IInv, DataInv
  <2> QED
    BY <1>2, <2>1, <2>2, <2>3, Zenon DEF PlatformProbe, IInv
<1>3. ASSUME ProbeFailed, pc \in {"alloc", "reset", "register"} PROVE IInv'
  <2>1. HeldInv'
    <3>1. CASE dev_bus = "platform"
      BY <1>3, <3>1, Zenon DEF ProbeFailed, IInv, HeldInv, Resources
    <3>2. CASE dev_bus = "pci" /\ core_i > 1
      BY <1>3, <3>2, Zenon DEF ProbeFailed, IInv, HeldInv
    <3>3. CASE dev_bus = "pci" /\ ~(core_i > 1)
      <4>1. pc' = "unbound" /\ UNCHANGED dev_bus /\ held' = held \ Unwind("err_free_board")
        BY <1>3, <3>3, Zenon DEF ProbeFailed
      <4>2. held' \subseteq {"bar0"}
        BY <1>3, <3>3, <4>1, UnwindFacts, Zenon DEF IInv, HeldInv, Resources
      <4> QED
        BY <3>3, <4>1, <4>2, Zenon DEF HeldInv, Resources
    <3> QED
      BY <3>1, <3>2, <3>3, Zenon DEF IInv
  <2>2. CoreInv'
    <3>1. CoreOK(NoCore) /\ NoCore.listed = FALSE /\ NoCore.ndev = "none"
      BY Zenon DEF CoreOK, NoCore, ResetRegs, CoreFields, RegFields
    <3>2. core'[core_i] = NoCore /\ DOMAIN core' = Cores /\ \A d \in Cores \ {core_i} : core'[d] = core[d]
      BY <1>3, Zenon DEF ProbeFailed, IInv, CoreInv
    <3>3. UNCHANGED <<dev_bus, core_i>>
      BY <1>3, Zenon DEF ProbeFailed
    <3>4. \A c \in Cores : CoreOK(core'[c]) /\ (core'[c].listed <=> (dev_bus = "pci" /\ core'[c].ndev # "none"))
      BY <3>1, <3>2 DEF IInv, CoreInv
    <3>5. CASE dev_bus = "pci" /\ core_i > 1
      BY <1>3, <3>2, <3>3, <3>4, <3>5, Zenon DEF ProbeFailed, IInv, CoreInv
    <3>6. CASE ~(dev_bus = "pci" /\ core_i > 1)
      <4>1. core_i = 1
        BY <3>6 DEF IInv, CoreInv, Cores
      <4>2. \A c \in Cores : core'[c] = NoCore
        BY <1>3, <3>2, <4>1 DEF IInv, CoreInv, Cores
      <4> QED
        BY <1>3, <3>2, <3>3, <3>4, <3>6, <4>1, <4>2, Zenon DEF ProbeFailed, IInv, CoreInv, Cores
    <3> QED
      BY <3>5, <3>6, SMTT(30)
  <2>3. DataInv'
    BY <1>3, Zenon DEF ProbeFailed, IInv, DataInv
  <2> QED
    BY <1>3, <2>1, <2>2, <2>3, Zenon DEF ProbeFailed, IInv
<1>4. CASE ProbeAlloc /\ ~ProbeFailed
  <2>1. HeldInv' /\ DataInv'
    BY <1>4, Zenon DEF ProbeAlloc, IInv, HeldInv, DataInv
  <2>2. CoreInv'
    <3> DEFINE q == [core[core_i] EXCEPT !.ndev = "alloc", !.listed = (dev_bus = "pci")]
    <3>1. core[core_i] = NoCore /\ core_i \in Cores
      BY <1>4 DEF ProbeAlloc, IInv, CoreInv, Cores
    <3>2. CoreOK(q) /\ q.ndev = "alloc" /\ (q.listed <=> dev_bus = "pci")
      <4>1. /\ DOMAIN NoCore = CoreFields /\ DOMAIN NoCore.regs = RegFields /\ ~NoCore.regs.ena
            /\ NoCore.net = "down" /\ NoCore.res = {} /\ NoCore.napi = "off"
        BY Zenon DEF NoCore, ResetRegs, CoreFields, RegFields
      <4>2. ASSUME NEW r, NEW b, r = NoCore
            PROVE  /\ CoreOK([r EXCEPT !.ndev = "alloc", !.listed = b])
                   /\ [r EXCEPT !.ndev = "alloc", !.listed = b].ndev = "alloc"
                   /\ [r EXCEPT !.ndev = "alloc", !.listed = b].listed = b
        BY <4>1, <4>2, SMT DEF CoreOK, CoreFields
      <4>3. CoreOK(q) /\ q.ndev = "alloc" /\ q.listed = (dev_bus = "pci")
        BY <3>1, <4>2, Zenon
      <4> HIDE DEF q
      <4> QED
        BY <4>3, Zenon
    <3>3. core' = [core EXCEPT ![core_i] = q] /\ UNCHANGED <<dev_bus, core_i>> /\ pc' = "reset"
      BY <1>4, Zenon DEF ProbeAlloc
    <3> HIDE DEF q
    <3>4. core'[core_i] = q /\ DOMAIN core' = Cores /\ \A d \in Cores \ {core_i} : core'[d] = core[d]
      BY <3>1, <3>3, Zenon DEF IInv, CoreInv
    <3>5. \A c \in Cores : CoreOK(core'[c]) /\ (core'[c].listed <=> (dev_bus = "pci" /\ core'[c].ndev # "none"))
      BY <3>2, <3>4, Zenon DEF IInv, CoreInv
    <3>6. \A c \in Cores : c > core_i => core'[c] = NoCore
      BY <1>4, <3>1, <3>4 DEF ProbeAlloc, IInv, CoreInv, Cores
    <3> QED
      BY <3>1, <3>2, <3>3, <3>4, <3>5, <3>6, Zenon DEF IInv, CoreInv
  <2> QED
    BY <1>4, <2>1, <2>2, Zenon DEF ProbeAlloc, IInv
<1>5. CASE ProbeReset /\ ~ProbeFailed
  <2>1. HeldInv' /\ CoreInv' /\ DataInv'
    BY <1>5, Zenon DEF ProbeReset, IInv, HeldInv, CoreInv, DataInv, Cores
  <2> QED
    BY <1>5, <2>1, Zenon DEF ProbeReset, IInv
<1>6. CASE ProbeRegister /\ ~ProbeFailed
  <2>1. HeldInv' /\ DataInv'
    BY <1>6, Zenon DEF ProbeRegister, IInv, HeldInv, DataInv
  <2>2. CoreInv'
    <3> DEFINE q == [core[core_i] EXCEPT !.ndev = "registered"]
    <3>1. CoreOK(core[core_i]) /\ core_i \in Cores /\ core[core_i].ndev = "alloc"
      BY <1>6, Zenon DEF ProbeRegister, IInv, CoreInv
    <3>2. CoreOK(q) /\ q.ndev = "registered" /\ q.listed = core[core_i].listed
      BY <3>1, SMT DEF CoreOK, CoreFields, RegFields
    <3>3. core' = [core EXCEPT ![core_i] = q] /\ UNCHANGED <<dev_bus, core_i>> /\ pc' = "put"
      BY <1>6, Zenon DEF ProbeRegister
    <3> HIDE DEF q
    <3>4. core'[core_i] = q /\ DOMAIN core' = Cores /\ \A d \in Cores \ {core_i} : core'[d] = core[d]
      BY <3>1, <3>3, Zenon DEF IInv, CoreInv
    <3>5. \A c \in Cores : CoreOK(core'[c]) /\ (core'[c].listed <=> (dev_bus = "pci" /\ core'[c].ndev # "none"))
      BY <3>1, <3>2, <3>4 DEF IInv, CoreInv
    <3>6. \A c \in Cores : c > core_i => core'[c] = NoCore
      BY <1>6, <3>1, <3>4 DEF ProbeRegister, IInv, CoreInv, Cores
    <3> QED
      BY <3>1, <3>2, <3>3, <3>4, <3>5, <3>6, Zenon DEF IInv, CoreInv
  <2> QED
    BY <1>6, <2>1, <2>2, Zenon DEF ProbeRegister, IInv
<1>7. CASE ProbePut
  <2>1. HeldInv' /\ DataInv'
    BY <1>7, Zenon DEF ProbePut, IInv, HeldInv, DataInv
  <2>2. CoreInv'
    BY <1>7 DEF ProbePut, IInv, CoreInv, Cores
  <2> QED
    BY <1>7, <2>1, <2>2, Zenon DEF ProbePut, IInv
<1>8. CASE EnableA2p
  <2>1. HeldInv' /\ CoreInv' /\ DataInv'
    BY <1>8, Zenon DEF EnableA2p, IInv, HeldInv, CoreInv, DataInv, Resources
  <2> QED
    BY <1>8, <2>1, Zenon DEF EnableA2p, IInv
<1> QED
  BY <1>1, <1>2, <1>3, <1>4, <1>5, <1>6, <1>7, <1>8, Zenon DEF Probe, ProbeAlloc, ProbeReset, ProbeRegister

\* So does every step of a removal.
LEMMA RemoveIInv ==
  ASSUME IInv, Remove
  PROVE  IInv'
<1> USE DEF Early, Late
<1>1. CASE RemoveBegin
  <2>1. HeldInv' /\ CoreInv' /\ DataInv'
    BY <1>1, Zenon DEF RemoveBegin, IInv, HeldInv, CoreInv, DataInv
  <2> QED
    BY <1>1, <2>1, Zenon DEF RemoveBegin, IInv
<1>2. CASE RemoveEnd
  <2>1. HeldInv'
    BY <1>2, Zenon DEF RemoveEnd, IInv, HeldInv, Resources
  <2>2. \A c \in Cores : core[c] = NoCore
    BY <1>2, Zenon DEF RemoveEnd, IInv, CoreInv, CoreOK
  <2>3. CoreInv' /\ DataInv'
    BY <1>2, <2>2, Zenon DEF RemoveEnd, IInv, CoreInv, DataInv
  <2> QED
    BY <1>2, <2>1, <2>3, Zenon DEF RemoveEnd, IInv
<1>3. ASSUME NEW c \in Cores, RemoveCore(c) PROVE IInv'
  <2>1. HeldInv' /\ DataInv'
    BY <1>3, Zenon DEF RemoveCore, UNCHANGED_device, IInv, HeldInv, DataInv
  <2>2. CoreInv'
    <3>1. CoreOK(NoCore) /\ NoCore.listed = FALSE /\ NoCore.ndev = "none"
      BY Zenon DEF CoreOK, NoCore, ResetRegs, CoreFields, RegFields
    <3>2. /\ DOMAIN core' = Cores /\ \A d \in Cores : core'[d] = IF d = c THEN NoCore ELSE core[d]
          /\ UNCHANGED <<dev_bus, core_i>> /\ pc = "removing" /\ pc' = "removing"
      BY <1>3, Zenon DEF RemoveCore, UNCHANGED_device, IInv, CoreInv
    <3> QED
      BY <3>1, <3>2, SMTT(30) DEF IInv, CoreInv, Early
  <2> QED
    BY <1>3, <2>1, <2>2, Zenon DEF RemoveCore, UNCHANGED_device, IInv
<1> QED
  BY <1>1, <1>2, <1>3, Zenon DEF Remove

\* The invariant is inductive.
LEMMA NextIInv == IInv /\ [DeviceNext]_devvars => IInv'
<1> SUFFICES ASSUME IInv, [DeviceNext]_devvars PROVE IInv'
  BY Zenon
<1>1. CASE Probe
  BY <1>1, ProbeIInv, Zenon
<1>2. CASE Sleep
  <2>1. UNCHANGED <<dev_bus, num_cores, pc, core_i, held, drvdata, core>>
    BY <1>2, Zenon DEF Sleep
  <2> QED
    BY <2>1, Zenon DEF IInv, HeldInv, CoreInv, DataInv
<1>3. CASE Remove
  BY <1>3, RemoveIInv
<1>4. ASSUME NEW c \in Cores, CoreOp(c) PROVE IInv'
  BY <1>4, CoreOpIInv, Zenon
<1>5. CASE UNCHANGED devvars
  BY <1>5, Zenon DEF devvars, IInv, HeldInv, CoreInv, DataInv
<1> QED
  BY <1>1, <1>2, <1>3, <1>4, <1>5, Zenon DEF DeviceNext, CoreOp

\* Whatever acquisitions fail, on either bus, with any number of cores: what is held and
\* which cores exist follow from the step the probe or the removal is at.
THEOREM DeviceInvariant == DeviceSpec => []IInv
  BY InitIInv, NextIInv, PTL DEF DeviceSpec

\* A device that is not bound holds nothing but, after a failed PCI probe, BAR 0
\* (the error labels of ctucan_pci_probe and ctucan_probe_common, ctucan_pci_remove).
THEOREM DeviceUnboundHoldsNothing == DeviceSpec => []UnboundHoldsNothing
<1>1. IInv => UnboundHoldsNothing
  BY Zenon DEF IInv, HeldInv, CoreInv, DataInv, UnboundHoldsNothing, Early, Late
<1> QED
  BY <1>1, DeviceInvariant, PTL

\* A core that has a net_device has its registers mapped, and only a registered one
\* has an interrupt handler or a power reference (ctucan_pci_remove, ctucan_open).
THEOREM DeviceUsedOnlyWhileMapped == DeviceSpec => []UsedOnlyWhileMapped
<1>1. IInv => UsedOnlyWhileMapped
  <2> SUFFICES ASSUME IInv, NEW c \in Cores
               PROVE  /\ core[c].ndev # "none" => "regs" \in held /\ (dev_bus = "pci" => {"bdata", "device"} \subseteq held)
                      /\ core[c].listed <=> (dev_bus = "pci" /\ core[c].ndev # "none")
                      /\ core[c].res # {} => core[c].ndev = "registered"
    BY Zenon DEF UsedOnlyWhileMapped
  <2>1. core[c].ndev # "none" => pc \in Late
    BY DEF IInv, CoreInv, Early, Late, NoCore
  <2>2. pc \in Late => "regs" \in held /\ (dev_bus = "pci" => {"bdata", "device"} \subseteq held)
    BY Zenon DEF IInv, HeldInv, Late
  <2> QED
    BY <2>1, <2>2, Zenon DEF IInv, CoreInv, CoreOK
<1> QED
  BY <1>1, DeviceInvariant, PTL

\* A removal gives back all that is held (ctucan_pci_remove).
THEOREM DeviceRemovalReleasesAll == DeviceSpec => RemovalReleasesAll
<1>1. IInv /\ [DeviceNext]_devvars => [pc = "removing" /\ pc' = "unbound" => held' = {}]_devvars
  <2> SUFFICES ASSUME IInv, DeviceNext, pc = "removing", pc' = "unbound" PROVE held' = {}
    BY Zenon DEF devvars
  <2>1. RemoveEnd
    BY CoreOpStep, Zenon
       DEF DeviceNext, CoreOp, Probe, PciProbe, Acquire, PlatformProbe, ProbeAlloc, ProbeReset, ProbeRegister,
      ProbePut, EnableA2p, Sleep, Remove, RemoveBegin, RemoveCore, UNCHANGED_device
  <2> QED
    BY <2>1, Zenon DEF RemoveEnd, IInv, HeldInv, Resources, Late
<1> QED
  BY <1>1, DeviceInvariant, PTL DEF DeviceSpec, RemovalReleasesAll

\* The timing registers of an enabled controller are never written, and every power
\* management callback on the platform bus finds a net_device: the only fault is that of
\* the callbacks registered for PCI (ctucan_set_btr, ctucan_suspend, ctucan_resume).
THEOREM DeviceOnlyPciFaults == DeviceSpec => []OnlyPciFaults
<1>1. DeviceInit => OnlyPciFaults
  BY Zenon DEF DeviceInit, OnlyPciFaults
<1>2. IInv /\ OnlyPciFaults /\ [DeviceNext]_devvars => OnlyPciFaults'
  <2> SUFFICES ASSUME IInv, OnlyPciFaults, [DeviceNext]_devvars PROVE OnlyPciFaults'
    BY Zenon
  <2>0. UNCHANGED <<fault, dev_bus>> => OnlyPciFaults'
    BY Zenon DEF OnlyPciFaults
  <2>1. CASE Probe
    BY <2>0, <2>1, Zenon
       DEF Probe, PciProbe, Acquire, PlatformProbe, ProbeAlloc, ProbeReset, ProbeRegister, ProbeFailed, ProbePut,
      EnableA2p
  <2>2. CASE Sleep
    <3>1. dev_bus' = dev_bus /\ fault' \in {fault, fault \cup {"drvdata"}}
      BY <2>2, Zenon DEF Sleep
    <3>2. dev_bus # "pci" => fault' = fault
      BY <2>2, Zenon DEF Sleep, IInv, DataInv, Late
    <3> QED
      BY <3>1, <3>2 DEF OnlyPciFaults
  <2>3. CASE Remove
    BY <2>0, <2>3, Zenon DEF Remove, RemoveBegin, RemoveEnd, RemoveCore, UNCHANGED_device
  <2>4. ASSUME NEW c \in Cores, CoreOp(c) PROVE UNCHANGED <<fault, dev_bus>>
    BY <2>4, CoreOpStep, Zenon DEF UNCHANGED_device
  <2>5. CASE UNCHANGED devvars
    BY <2>0, <2>5, Zenon DEF devvars
  <2> QED
    BY <2>0, <2>1, <2>2, <2>3, <2>4, <2>5, Zenon DEF DeviceNext, CoreOp
<1> QED
  BY <1>1, <1>2, DeviceInvariant, PTL DEF DeviceSpec

-----------------------------------------------------------------------------
(* Runtime PM references                                                    *)

Nets  == {"down", "reset", "candev", "irq", "started", "up"}
Holds == {"pm", "candev", "irq", "berr"}

\* What is true of the references of a core: an interface has one from the first step of
\* an open on; a query of the error counters holds rtnl_lock, so it is never under way
\* in the middle of an open.
RefOK(r) ==
  /\ r.listed \in BOOLEAN /\ r.rx \in BOOLEAN
  /\ r.net \in Nets /\ r.res \subseteq Holds /\ r.napi \in {"off", "idle", "sched"}
  /\ "pm" \in r.res <=> r.net # "down"
  /\ "berr" \in r.res => r.net \in {"down", "up"}

RefsOf(r) == (IF "pm" \in r.res THEN 1 ELSE 0) + (IF "berr" \in r.res THEN 1 ELSE 0)

CoreRefs ==
  Cardinality({c \in Cores : "pm" \in core[c].res}) + Cardinality({c \in Cores : "berr" \in core[c].res})

ProbeRef == IF pc \in {"reset", "register", "put"} THEN 1 ELSE 0

UseInv ==
  /\ usage = CoreRefs + ProbeRef
  /\ dev_suspended \in BOOLEAN
  /\ fault \subseteq {"EPERM", "drvdata"}
  /\ drvdata \in {"NULL", "bdata", "ndev"}
  /\ \A c \in Cores : RefOK(core[c])

\* Sets that differ at most in c.
LEMMA CountOne ==
  ASSUME NEW S, IsFiniteSet(S), NEW c \in S, NEW A \in SUBSET S, NEW B \in SUBSET S,
         \A d \in S \ {c} : d \in A <=> d \in B
  PROVE  /\ Cardinality(A) \in Nat /\ Cardinality(B) \in Nat
         /\ Cardinality(B) = Cardinality(A) - (IF c \in A THEN 1 ELSE 0) + (IF c \in B THEN 1 ELSE 0)
<1>1. IsFiniteSet(A) /\ IsFiniteSet(B)
  BY FS_Subset, Zenon
<1>2. A \ {c} = B \ {c}
  BY Zenon
<1>3. Cardinality(A) \in Nat /\ Cardinality(B) \in Nat
  BY <1>1, FS_CardinalityType, Zenon
<1>4. Cardinality(A \ {c}) = IF c \in A THEN Cardinality(A) - 1 ELSE Cardinality(A)
  BY <1>1, FS_RemoveElement, Zenon
<1>5. Cardinality(B \ {c}) = IF c \in B THEN Cardinality(B) - 1 ELSE Cardinality(B)
  BY <1>1, FS_RemoveElement, Zenon
<1>6. Cardinality(A \ {c}) = Cardinality(B \ {c})
  BY <1>2, Zenon
<1>7. CASE c \in A
  BY <1>3, <1>4, <1>5, <1>6, <1>7
<1>8. CASE c \notin A
  BY <1>3, <1>4, <1>5, <1>6, <1>8
<1> QED
  BY <1>7, <1>8, Zenon

\* A step that changes one core.
LEMMA CountStep ==
  ASSUME DOMAIN core = Cores, NEW c \in Cores, NEW q, core' = [core EXCEPT ![c] = q]
  PROVE  /\ CoreRefs \in Nat /\ CoreRefs' \in Nat
         /\ CoreRefs' = CoreRefs + RefsOf(q) - RefsOf(core[c])
<1> DEFINE P == {d \in Cores : "pm" \in core[d].res}
           Q == {d \in Cores : "pm" \in core'[d].res}
           A == {d \in Cores : "berr" \in core[d].res}
           B == {d \in Cores : "berr" \in core'[d].res}
<1>1. IsFiniteSet(Cores)
  BY DeviceAssumption, FS_Interval DEF Cores
<1>2. core'[c] = q /\ \A d \in Cores \ {c} : core'[d] = core[d]
  BY Zenon
<1>3. /\ Cardinality(P) \in Nat /\ Cardinality(Q) \in Nat
      /\ Cardinality(Q) = Cardinality(P) - (IF c \in P THEN 1 ELSE 0) + (IF c \in Q THEN 1 ELSE 0)
  BY <1>1, <1>2, CountOne
<1>4. /\ Cardinality(A) \in Nat /\ Cardinality(B) \in Nat
      /\ Cardinality(B) = Cardinality(A) - (IF c \in A THEN 1 ELSE 0) + (IF c \in B THEN 1 ELSE 0)
  BY <1>1, <1>2, CountOne
<1>5. /\ c \in P <=> "pm" \in core[c].res
      /\ c \in Q <=> "pm" \in q.res
      /\ c \in A <=> "berr" \in core[c].res
      /\ c \in B <=> "berr" \in q.res
  BY <1>2, Zenon
<1>6. CoreRefs = Cardinality(P) + Cardinality(A) /\ CoreRefs' = Cardinality(Q) + Cardinality(B)
  BY Zenon DEF CoreRefs
<1> HIDE DEF P, Q, A, B
<1>7. /\ RefsOf(core[c]) = (IF c \in P THEN 1 ELSE 0) + (IF c \in A THEN 1 ELSE 0)
      /\ RefsOf(q) = (IF c \in Q THEN 1 ELSE 0) + (IF c \in B THEN 1 ELSE 0)
  BY <1>5, Zenon DEF RefsOf
<1> QED
  BY <1>3, <1>4, <1>6, <1>7

\* Each operation on an interface accounts for the references it takes and drops.
LEMMA CoreOpRefs ==
  ASSUME IInv, UseInv, NEW c \in Cores, CoreOp(c)
  PROVE  \E q : /\ core' = [core EXCEPT ![c] = q]
                /\ RefOK(q)
                /\ usage' = usage + RefsOf(q) - RefsOf(core[c])
<1> DEFINE r == core[c]
<1>1. CoreOK(r) /\ RefOK(r)
  BY Zenon DEF IInv, CoreInv, UseInv
<1>2. DOMAIN r = CoreFields
  BY <1>1, Zenon DEF CoreOK
<1>3. usage \in Int
  <2>1. IsFiniteSet(Cores)
    BY DeviceAssumption, FS_Interval DEF Cores
  <2>2. \A S \in SUBSET Cores : Cardinality(S) \in Nat
    BY <2>1, FS_Subset, FS_CardinalityType, Zenon
  <2> QED
    BY <2>2 DEF UseInv, CoreRefs, ProbeRef
<1>4. RtnlFree => r.net \in {"down", "up"} /\ "berr" \notin r.res
  BY Zenon DEF RtnlFree
<1>5. ~r.regs.ena \/ r.net \in {"started", "up"}
  BY <1>1, Zenon DEF CoreOK
<1>6. \A q : RefsOf(q) = RefsOf(r) => usage = usage + RefsOf(q) - RefsOf(r)
  BY <1>3 DEF RefsOf
<1> HIDE DEF r
<1> USE DEF RefOK, CoreFields, Nets, Holds
<1>7. CASE Changelink(c)
  <2>1. ~r.regs.ena
    BY <1>5, <1>7, Zenon DEF Changelink, r
  <2>2. PICK cfg, nom, data : core' = [core EXCEPT ![c] = Configured(r, cfg, nom, data)]
    BY <1>7, <2>1, Zenon DEF Changelink, r
  <2> DEFINE q == Configured(r, cfg, nom, data)
  <2>3. q.listed = r.listed /\ q.rx = r.rx /\ q.net = r.net /\ q.res = r.res /\ q.napi = r.napi
    BY <1>2, Zenon DEF Configured
  <2>4. usage' = usage
    BY <1>7, Zenon DEF Changelink
  <2> HIDE DEF q
  <2>5. RefOK(q) /\ RefsOf(q) = RefsOf(r)
    BY <1>1, <2>3, Zenon DEF RefsOf
  <2> QED
    BY <1>6, <2>2, <2>4, <2>5, Zenon DEF q, r
<1>8. ASSUME OpenFailed(c), "pm" \in r.res, "berr" \notin r.res
      PROVE  \E q : /\ core' = [core EXCEPT ![c] = q]
                    /\ RefOK(q)
                    /\ usage' = usage + RefsOf(q) - RefsOf(core[c])
  <2> DEFINE q == [r EXCEPT !.net = "down", !.res = {}]
  <2>1. core' = [core EXCEPT ![c] = q] /\ usage' = usage - 1
    BY <1>8, Zenon DEF OpenFailed, r
  <2>2. q.listed = r.listed /\ q.rx = r.rx /\ q.net = "down" /\ q.res = {} /\ q.napi = r.napi
    BY <1>2, Zenon
  <2> HIDE DEF q
  <2>3. RefOK(q) /\ RefsOf(q) = 0 /\ RefsOf(r) = 1
    BY <1>1, <1>8, <2>2 DEF RefsOf
  <2>4. usage' = usage + RefsOf(q) - RefsOf(r)
    BY <1>3, <2>1, <2>3
  <2> QED
    BY <2>1, <2>3, <2>4, Zenon DEF r
<1>9. CASE OpenCore(c)
  <2>1. CASE OpenReset(c)
    <3> DEFINE q == [r EXCEPT !.net = "reset", !.res = {"pm"}, !.rx = FALSE, !.regs = ResetRegs]
    <3>1. core' = [core EXCEPT ![c] = q] /\ usage' = usage + 1 /\ r.net = "down" /\ "berr" \notin r.res
      BY <1>4, <2>1, Zenon DEF OpenReset, UserRequest, r
    <3>2. q.listed = r.listed /\ q.rx = FALSE /\ q.net = "reset" /\ q.res = {"pm"} /\ q.napi = r.napi
      BY <1>2, Zenon
    <3> HIDE DEF q
    <3>3. RefOK(q)
      BY <1>1, <3>1, <3>2, Zenon
    <3>4. "pm" \in q.res /\ "berr" \notin q.res /\ "pm" \notin r.res
      BY <1>1, <3>1, <3>2, Zenon
    <3>5. RefsOf(q) = 1 /\ RefsOf(r) = 0
      BY <3>1, <3>4 DEF RefsOf
    <3>6. usage' = usage + RefsOf(q) - RefsOf(r)
      BY <1>3, <3>1, <3>5
    <3> QED
      BY <3>1, <3>3, <3>6, Zenon DEF r
  <2>2. ASSUME NEW n \in {"candev", "irq"}, r.net \in {"reset", "candev"}, usage' = usage,
               core' = [core EXCEPT ![c] = [r EXCEPT !.net = n, !.res = r.res \cup {n}]]
        PROVE  \E q : /\ core' = [core EXCEPT ![c] = q]
                      /\ RefOK(q)
                      /\ usage' = usage + RefsOf(q) - RefsOf(core[c])
    <3> DEFINE q == [r EXCEPT !.net = n, !.res = r.res \cup {n}]
    <3>1. q.listed = r.listed /\ q.rx = r.rx /\ q.net = n /\ q.res = r.res \cup {n} /\ q.napi = r.napi
      BY <1>2, Zenon
    <3>2. core' = [core EXCEPT ![c] = q]
      BY <2>2, Zenon
    <3> HIDE DEF q
    <3>3. RefOK(q) /\ RefsOf(q) = RefsOf(r)
      BY <1>1, <2>2, <3>1, Zenon DEF RefsOf
    <3> QED
      BY <1>6, <2>2, <3>2, <3>3, Zenon DEF r
  <2>3. CASE OpenCandev(c) \/ OpenIrq(c)
    <3>1. "pm" \in r.res /\ "berr" \notin r.res /\ r.net \in {"reset", "candev"}
      BY <1>1, <2>3, Zenon DEF OpenCandev, OpenIrq, r
    <3> QED
      BY <1>8, <2>2, <2>3, <3>1, Zenon DEF OpenCandev, OpenIrq, r
  <2>4. CASE OpenStart(c)
    <3> DEFINE q == Started(r)
    <3>1. r.net = "irq" /\ core' = [core EXCEPT ![c] = q] /\ usage' = usage
      BY <1>5, <2>4, Zenon DEF OpenStart, r
    <3>2. q.listed = r.listed /\ q.rx = r.rx /\ q.net = "started" /\ q.res = r.res /\ q.napi = r.napi
      BY <1>2, Zenon DEF Started
    <3> HIDE DEF q
    <3>3. RefOK(q) /\ RefsOf(q) = RefsOf(r)
      BY <1>1, <3>1, <3>2, Zenon DEF RefsOf
    <3> QED
      BY <1>6, <3>1, <3>3, Zenon DEF r
  <2>5. CASE OpenNapi(c)
    <3> DEFINE q == [r EXCEPT !.net = "up", !.napi = "idle"]
    <3>1. r.net = "started" /\ core' = [core EXCEPT ![c] = q] /\ usage' = usage
      BY <2>5, Zenon DEF OpenNapi, r
    <3>2. q.listed = r.listed /\ q.rx = r.rx /\ q.net = "up" /\ q.res = r.res /\ q.napi = "idle"
      BY <1>2, Zenon
    <3> HIDE DEF q
    <3>3. RefOK(q) /\ RefsOf(q) = RefsOf(r)
      BY <1>1, <3>1, <3>2, Zenon DEF RefsOf
    <3> QED
      BY <1>6, <3>1, <3>3, Zenon DEF r
  <2> QED
    BY <1>9, <2>1, <2>3, <2>4, <2>5, Zenon DEF OpenCore
<1>10. CASE CloseCore(c)
  <2> DEFINE q == Closed(r)
  <2>1. r.net = "up" /\ "berr" \notin r.res /\ core' = [core EXCEPT ![c] = q] /\ usage' = usage - 1
    BY <1>4, <1>10, Zenon DEF CloseCore, UserRequest, r
  <2>2. q.listed = r.listed /\ q.rx = r.rx /\ q.net = "down" /\ q.res = {} /\ q.napi = "off"
    BY <1>2, Zenon DEF Closed
  <2> HIDE DEF q
  <2>3. RefOK(q) /\ RefsOf(q) = 0 /\ RefsOf(r) = 1
    BY <1>1, <2>1, <2>2 DEF RefsOf
  <2>4. usage' = usage + RefsOf(q) - RefsOf(r)
    BY <1>3, <2>1, <2>3
  <2> QED
    BY <2>1, <2>3, <2>4, Zenon DEF r
<1>11. CASE GetBerrCounter(c)
  <2>1. PICK s : /\ core' = [core EXCEPT ![c] = [r EXCEPT !.res = s]]
                 /\ \/ s = r.res \cup {"berr"} /\ r.net \in {"down", "up"} /\ "berr" \notin r.res
                       /\ usage' = usage + 1
                    \/ s = r.res \ {"berr"} /\ "berr" \in r.res /\ usage' = usage - 1
    BY <1>4, <1>11, Zenon DEF GetBerrCounter, UserRequest, r
  <2> DEFINE q == [r EXCEPT !.res = s]
  <2>2. q.listed = r.listed /\ q.rx = r.rx /\ q.net = r.net /\ q.res = s /\ q.napi = r.napi
    BY <1>2, Zenon
  <2>3. core' = [core EXCEPT ![c] = q]
    BY <2>1, Zenon
  <2> HIDE DEF q
  <2>4. RefOK(q)
    BY <1>1, <2>1, <2>2, Zenon
  <2>5. usage' = usage + RefsOf(q) - RefsOf(r)
    BY <1>3, <2>1, <2>2 DEF RefsOf
  <2> QED
    BY <2>3, <2>4, <2>5, Zenon DEF r
<1>12. CASE FrameArrives(c) \/ RxIrq(c) \/ Poll(c)
  <2>1. PICK rx, napi, regs :
          /\ core' = [core EXCEPT ![c] = [r EXCEPT !.rx = rx, !.napi = napi, !.regs = regs]]
          /\ rx \in BOOLEAN /\ napi \in {"off", "idle", "sched"} /\ usage' = usage
    <3>2. CASE FrameArrives(c)
      <4>1. [r EXCEPT !.rx = TRUE] = [r EXCEPT !.rx = TRUE, !.napi = r.napi, !.regs = r.regs]
        BY <1>2, Zenon
      <4> QED
        BY <1>1, <3>2, <4>1, Zenon DEF FrameArrives, r
    <3>3. CASE RxIrq(c)
      <4>1. ASSUME NEW n, NEW g
            PROVE  [r EXCEPT !.regs = g, !.napi = n] = [r EXCEPT !.rx = r.rx, !.napi = n, !.regs = g]
        BY <1>2, Zenon
      <4> DEFINE n == IF r.napi = "idle" THEN "sched" ELSE r.napi
                 g == [r.regs EXCEPT !.masked = TRUE]
      <4>2. core' = [core EXCEPT ![c] = [r EXCEPT !.regs = g, !.napi = n]] /\ usage' = usage
        BY <3>3, Zenon DEF RxIrq, r
      <4>3. n \in {"off", "idle", "sched"} /\ r.rx \in BOOLEAN
        BY <1>1, Zenon
      <4> HIDE DEF n, g
      <4>4. core' = [core EXCEPT ![c] = [r EXCEPT !.rx = r.rx, !.napi = n, !.regs = g]]
        BY <4>1, <4>2, Zenon
      <4> QED
        BY <4>2, <4>3, <4>4, Zenon
    <3>4. CASE Poll(c)
      BY <1>1, <3>4, Zenon DEF Poll, r
    <3> QED
      BY <1>12, <3>2, <3>3, <3>4, Zenon
  <2> DEFINE q == [r EXCEPT !.rx = rx, !.napi = napi, !.regs = regs]
  <2>2. q.listed = r.listed /\ q.rx = rx /\ q.net = r.net /\ q.res = r.res /\ q.napi = napi
    BY <1>2, Zenon
  <2>3. core' = [core EXCEPT ![c] = q]
    BY <2>1, Zenon
  <2> HIDE DEF q
  <2>4. RefOK(q) /\ RefsOf(q) = RefsOf(r)
    BY <1>1, <2>1, <2>2, Zenon DEF RefsOf
  <2> QED
    BY <1>6, <2>1, <2>3, <2>4, Zenon DEF r
<1> QED
  BY <1>7, <1>9, <1>10, <1>11, <1>12, Zenon DEF CoreOp

\* The probe takes its reference with the net_device and drops it when it ends or fails.
LEMMA UseStep == IInv /\ UseInv /\ [DeviceNext]_devvars => UseInv'
<1> SUFFICES ASSUME IInv, UseInv, [DeviceNext]_devvars PROVE UseInv'
  BY Zenon
<1>1. DOMAIN core = Cores /\ core_i \in Cores
  BY Zenon DEF IInv, CoreInv
<1>2. CoreRefs \in Nat /\ RefOK(NoCore) /\ RefsOf(NoCore) = 0
  <2>1. core_i \in Cores /\ IsFiniteSet(Cores)
    BY <1>1, DeviceAssumption, FS_Interval DEF Cores
  <2>2. \A S \in SUBSET Cores : Cardinality(S) \in Nat
    BY <2>1, FS_Subset, FS_CardinalityType, Zenon
  <2>3. CoreRefs \in Nat
    BY <2>2 DEF CoreRefs
  <2>4. RefOK(NoCore) /\ RefsOf(NoCore) = 0
    BY DEF RefOK, RefsOf, NoCore, Nets, Holds
  <2> QED
    BY <2>3, <2>4, Zenon
<1>3. ASSUME UNCHANGED <<core, dev_suspended>>, usage' = CoreRefs + ProbeRef',
             fault' \subseteq {"EPERM", "drvdata"}, drvdata' \in {"NULL", "bdata", "ndev"}
      PROVE  UseInv'
  <2>1. CoreRefs' = CoreRefs
    BY <1>3, Zenon DEF CoreRefs
  <2> QED
    BY <1>3, <2>1, Zenon DEF UseInv
<1>4. ASSUME NEW c \in Cores, NEW q, core' = [core EXCEPT ![c] = q], RefOK(q),
             usage' = CoreRefs + RefsOf(q) - RefsOf(core[c]) + ProbeRef',
             UNCHANGED <<dev_suspended, fault>>, drvdata' \in {"NULL", "bdata", "ndev"}
      PROVE  UseInv'
  <2>1. CoreRefs' = CoreRefs + RefsOf(q) - RefsOf(core[c])
    BY <1>1, <1>4, CountStep, Zenon
  <2>2. \A d \in Cores : RefOK(core'[d])
    BY <1>1, <1>4, Zenon DEF UseInv
  <2> QED
    BY <1>4, <2>1, <2>2, Zenon DEF UseInv
<1>5. ASSUME ProbeFailed, pc \in {"alloc", "reset", "register"}, usage' = usage - ProbeRef
      PROVE  UseInv'
  <2>1. RefsOf(core[core_i]) = 0
    <3>1. core[core_i].res = {}
      <4>1. CoreOK(core[core_i]) /\ core[core_i].ndev # "registered"
        BY <1>1, <1>5 DEF IInv, CoreInv, Cores, NoCore
      <4> QED
        BY <4>1, Zenon DEF CoreOK
    <3> QED
      BY <3>1 DEF RefsOf
  <2>2. ProbeRef' = 0 /\ drvdata' \in {"NULL", "bdata", "ndev"}
    BY <1>5, Zenon DEF ProbeFailed, ProbeRef, UseInv
  <2>3. usage' = CoreRefs
    BY <1>2, <1>5 DEF UseInv, ProbeRef
  <2>4. core' = [core EXCEPT ![core_i] = NoCore] /\ UNCHANGED <<dev_suspended, fault>>
    BY <1>5, Zenon DEF ProbeFailed
  <2>5. usage' = CoreRefs + RefsOf(NoCore) - RefsOf(core[core_i]) + ProbeRef'
    BY <1>2, <2>1, <2>2, <2>3
  <2> QED
    BY <1>1, <1>2, <1>4, <2>2, <2>4, <2>5, Zenon
<1>6. CASE Probe
  <2>1. CASE PciProbe \/ PlatformProbe \/ EnableA2p
    <3>1. /\ UNCHANGED <<core, dev_suspended, usage, fault>> /\ drvdata' \in {"NULL", "bdata", "ndev"}
          /\ ProbeRef = 0 /\ ProbeRef' = 0
      BY <2>1, Zenon DEF PciProbe, Acquire, PlatformProbe, EnableA2p, ProbeRef, UseInv
    <3> QED
      BY <1>2, <1>3, <3>1, Zenon DEF UseInv
  <2>2. CASE ProbeAlloc
    <3>1. CASE ProbeFailed /\ UNCHANGED usage
      <4>1. pc = "alloc" /\ ProbeRef = 0 /\ usage' = usage - ProbeRef
        BY <1>2, <2>2, <3>1 DEF ProbeAlloc, ProbeRef, UseInv
      <4> QED
        BY <1>5, <3>1, <4>1, Zenon
    <3>2. CASE ~(ProbeFailed /\ UNCHANGED usage)
      <4> DEFINE q == [core[core_i] EXCEPT !.ndev = "alloc", !.listed = (dev_bus = "pci")]
      <4>1. core[core_i] = NoCore
        BY <1>1, <2>2 DEF ProbeAlloc, IInv, CoreInv, Cores
      <4>2. RefOK(q) /\ RefsOf(q) = 0
        <5>1. ASSUME NEW b \in BOOLEAN
              PROVE  RefOK([NoCore EXCEPT !.ndev = "alloc", !.listed = b])
          BY Zenon DEF RefOK, NoCore, Nets, Holds
        <5>2. ASSUME NEW b
              PROVE  RefsOf([NoCore EXCEPT !.ndev = "alloc", !.listed = b]) = 0
          BY DEF RefsOf, NoCore
        <5>3. (dev_bus = "pci") \in BOOLEAN
          BY Zenon
        <5> QED
          BY <4>1, <5>1, <5>2, <5>3, Zenon
      <4>3. /\ core' = [core EXCEPT ![core_i] = q] /\ usage' = usage + 1 /\ UNCHANGED <<dev_suspended, fault>>
            /\ drvdata' \in {"NULL", "bdata", "ndev"} /\ ProbeRef = 0 /\ ProbeRef' = 1
        BY <2>2, <3>2, Zenon DEF ProbeAlloc, ProbeRef, UseInv
      <4> HIDE DEF q
      <4>4. usage' = CoreRefs + RefsOf(q) - RefsOf(core[core_i]) + ProbeRef'
        BY <1>2, <4>1, <4>2, <4>3 DEF UseInv
      <4> QED
        BY <1>1, <1>4, <4>2, <4>3, <4>4, Zenon
    <3> QED
      BY <3>1, <3>2, Zenon
  <2>3. CASE ProbeReset
    <3>1. ProbeRef = 1 /\ pc = "reset"
      BY <2>3, Zenon DEF ProbeReset, ProbeRef
    <3>2. CASE ProbeFailed /\ usage' = usage - 1
      BY <1>5, <3>1, <3>2, Zenon
    <3>3. CASE ~(ProbeFailed /\ usage' = usage - 1)
      <4>1. UNCHANGED <<core, dev_suspended, usage, fault, drvdata>> /\ ProbeRef' = 1
        BY <2>3, <3>3, Zenon DEF ProbeReset, ProbeRef
      <4> QED
        BY <1>3, <3>1, <4>1, Zenon DEF UseInv
    <3> QED
      BY <3>2, <3>3, Zenon
  <2>4. CASE ProbeRegister
    <3>1. ProbeRef = 1 /\ pc = "register"
      BY <2>4, Zenon DEF ProbeRegister, ProbeRef
    <3>2. CASE ProbeFailed /\ usage' = usage - 1
      BY <1>5, <3>1, <3>2, Zenon
    <3>3. CASE ~(ProbeFailed /\ usage' = usage - 1)
      <4> DEFINE r == core[core_i]
                 q == [r EXCEPT !.ndev = "registered"]
      <4>1. /\ core' = [core EXCEPT ![core_i] = q] /\ UNCHANGED <<usage, dev_suspended, fault, drvdata>>
            /\ ProbeRef' = 1
        BY <2>4, <3>3, Zenon DEF ProbeRegister, ProbeRef
      <4>2. DOMAIN r = CoreFields /\ RefOK(r)
        BY <1>1, Zenon DEF IInv, CoreInv, CoreOK, UseInv
      <4> HIDE DEF r
      <4>3. q.listed = r.listed /\ q.rx = r.rx /\ q.net = r.net /\ q.res = r.res /\ q.napi = r.napi
        BY <4>2, Zenon DEF CoreFields
      <4> HIDE DEF q
      <4>4. RefOK(q) /\ RefsOf(q) = RefsOf(r) /\ RefsOf(r) \in Int
        BY <4>2, <4>3 DEF RefOK, RefsOf
      <4>5. usage' = CoreRefs + RefsOf(q) - RefsOf(r) + ProbeRef'
        BY <1>2, <3>1, <4>1, <4>4 DEF UseInv
      <4> QED
        BY <1>1, <1>4, <4>1, <4>4, <4>5, Zenon DEF UseInv, r
    <3> QED
      BY <3>2, <3>3
  <2>5. CASE ProbePut
    <3>1. ProbeRef = 1 /\ ProbeRef' = 0 /\ usage' = usage - 1 /\ UNCHANGED <<core, dev_suspended, fault, drvdata>>
      BY <2>5, Zenon DEF ProbePut, ProbeRef
    <3> QED
      BY <1>2, <1>3, <3>1 DEF UseInv
  <2> QED
    BY <1>6, <2>1, <2>2, <2>3, <2>4, <2>5, Zenon DEF Probe
<1>7. CASE Sleep
  <2>1. dev_suspended' \in BOOLEAN /\ fault' \subseteq {"EPERM", "drvdata"}
    BY <1>7, Zenon DEF Sleep, UseInv
  <2>2. UNCHANGED <<core, usage, pc, drvdata>>
    BY <1>7, Zenon DEF Sleep
  <2> QED
    BY <2>1, <2>2, Zenon DEF UseInv, CoreRefs, ProbeRef
<1>8. CASE Remove
  <2>1. CASE RemoveBegin \/ RemoveEnd
    <3>1. /\ UNCHANGED <<core, usage, dev_suspended, fault>> /\ ProbeRef = 0 /\ ProbeRef' = 0
          /\ drvdata' \in {"NULL", "bdata", "ndev"}
      BY <2>1, Zenon DEF RemoveBegin, RemoveEnd, ProbeRef, UseInv
    <3> QED
      BY <1>2, <1>3, <3>1, Zenon DEF UseInv
  <2>2. ASSUME NEW c \in Cores, RemoveCore(c) PROVE UseInv'
    <3>1. /\ core' = [core EXCEPT ![c] = NoCore] /\ UNCHANGED <<dev_suspended, fault, drvdata>>
          /\ ProbeRef = 0 /\ ProbeRef' = 0
          /\ usage' = IF core[c].net = "up" THEN usage - 1 ELSE usage
          /\ core[c].net \in {"down", "up"} /\ "berr" \notin core[c].res
      BY <2>2, Zenon DEF RemoveCore, UNCHANGED_device, RtnlFree, ProbeRef
    <3>2. RefOK(core[c])
      BY Zenon DEF UseInv
    <3>3. RefsOf(core[c]) = IF core[c].net = "up" THEN 1 ELSE 0
      BY <3>1, <3>2 DEF RefOK, RefsOf
    <3>4. usage' = CoreRefs + RefsOf(NoCore) - RefsOf(core[c]) + ProbeRef'
      BY <1>2, <3>1, <3>3 DEF UseInv
    <3> QED
      BY <1>2, <1>4, <3>1, <3>4, Zenon DEF UseInv
  <2> QED
    BY <1>8, <2>1, <2>2, Zenon DEF Remove
<1>9. ASSUME NEW c \in Cores, CoreOp(c) PROVE UseInv'
  <2>1. UNCHANGED <<pc, drvdata, dev_suspended, fault>>
    BY <1>9, CoreOpStep, Zenon DEF UNCHANGED_device
  <2>2. PICK q : /\ core' = [core EXCEPT ![c] = q]
                 /\ RefOK(q)
                 /\ usage' = usage + RefsOf(q) - RefsOf(core[c])
    BY <1>9, CoreOpRefs, Zenon
  <2>3. ProbeRef' = ProbeRef /\ ProbeRef \in Int /\ RefsOf(q) \in Int /\ RefsOf(core[c]) \in Int
    BY <2>1 DEF ProbeRef, RefsOf
  <2>4. usage' = CoreRefs + RefsOf(q) - RefsOf(core[c]) + ProbeRef'
    BY <1>2, <2>2, <2>3 DEF UseInv
  <2> QED
    BY <1>4, <2>1, <2>2, <2>4, Zenon DEF UseInv
<1>10. CASE UNCHANGED devvars
  BY <1>10, Zenon DEF devvars, UseInv, CoreRefs, ProbeRef
<1> QED
  BY <1>6, <1>7, <1>8, <1>9, <1>10, Zenon DEF DeviceNext, CoreOp

\* No reference is held before the first probe.
LEMMA UseInit == DeviceInit => UseInv
<1> SUFFICES ASSUME DeviceInit PROVE UseInv
  OBVIOUS
<1>1. RefOK(NoCore) /\ NoCore.res = {}
  BY Zenon DEF RefOK, NoCore, Nets, Holds
<1>2. {c \in Cores : "pm" \in core[c].res} = {} /\ {c \in Cores : "berr" \in core[c].res} = {}
  BY <1>1, Zenon DEF DeviceInit
<1>3. CoreRefs = 0
  BY <1>2, FS_EmptySet DEF CoreRefs
<1>4. ProbeRef = 0 /\ usage = 0 /\ dev_suspended \in BOOLEAN /\ fault = {} /\ drvdata = "NULL"
  BY Zenon DEF DeviceInit, ProbeRef
<1>5. \A c \in Cores : RefOK(core[c])
  BY <1>1, Zenon DEF DeviceInit
<1> QED
  BY <1>3, <1>4, <1>5 DEF UseInv

\* With any number of cores, whichever probes and opens fail: the runtime PM references
\* are those of the probe, of the interfaces that are open or being opened and of the
\* counter queries (ctucan_probe_common, ctucan_open, ctucan_close, ctucan_get_berr_counter).
THEOREM DevicePmBalanced == DeviceSpec => []PmBalanced
<1>1. IInv /\ UseInv => PmBalanced
  <2> SUFFICES ASSUME IInv, UseInv PROVE PmBalanced
    BY Zenon
  <2>1. IsFiniteSet(Cores)
    BY DeviceAssumption, FS_Interval DEF Cores
  <2>2. \A S \in SUBSET Cores : Cardinality(S) \in Nat
    BY <2>1, FS_Subset, FS_CardinalityType, Zenon
  <2>3. CoreRefs \in Nat
    BY <2>2 DEF CoreRefs
  <2>4. usage \in Nat
    BY <2>3 DEF UseInv, ProbeRef
  <2>5. \A c \in Cores : CoreOK(core[c]) /\ RefOK(core[c])
    BY Zenon DEF IInv, CoreInv, UseInv
  <2>6. DeviceTypeOK
    BY <2>4, <2>5 DEF DeviceTypeOK, IInv, HeldInv, CoreInv, UseInv, CoreOK, RefOK, Resources, Early, Late, Nets, Holds
  <2> QED
    BY <2>6, Zenon DEF PmBalanced, UseInv, CoreRefs, ProbeRef
<1> QED
  BY <1>1, UseInit, UseStep, DeviceInvariant, PTL DEF DeviceSpec

-----------------------------------------------------------------------------
(* The timing and the modes of a running controller                         *)

TimingFields == {"bitrate", "prop_seg", "phase_seg1", "phase_seg2", "sjw", "brp"}

MaxPh1(nominal) == IF nominal THEN 63 ELSE 31

\* bt is what is stored in can_priv after the driver was given the timing user: the
\* segments are moved from PH1 to PROP, and nothing else has changed.
Stored(bt, user, nominal) ==
  /\ DOMAIN bt = TimingFields
  /\ user.prop_seg \in Nat /\ user.phase_seg1 \in Nat
  /\ bt.phase_seg1 = (IF user.phase_seg1 > MaxPh1(nominal) THEN MaxPh1(nominal) ELSE user.phase_seg1)
  /\ bt.prop_seg = user.prop_seg + user.phase_seg1 - bt.phase_seg1
  /\ bt.phase_seg2 = user.phase_seg2
  /\ bt.phase_seg2 \in 0..MaxPh1(nominal)

\* What makes the fields of a timing fit into the registers.
InLimits(bt) == bt.sjw \in 1..31 /\ bt.brp \in 1..8

\* Quanta moved from PH1 to PROP leave their sum and the other fields alone.
LEMMA RedistributeFacts ==
  ASSUME NEW bt, DOMAIN bt = TimingFields, NEW nominal \in BOOLEAN,
         bt.prop_seg \in Nat, bt.phase_seg1 \in Nat
  PROVE  LET s == Redistribute(bt, nominal)
         IN  /\ DOMAIN s = TimingFields
             /\ s.phase_seg1 = (IF bt.phase_seg1 > MaxPh1(nominal) THEN MaxPh1(nominal) ELSE bt.phase_seg1)
             /\ s.prop_seg = bt.prop_seg + bt.phase_seg1 - s.phase_seg1
             /\ s.phase_seg2 = bt.phase_seg2 /\ s.sjw = bt.sjw /\ s.brp = bt.brp
             /\ bt.phase_seg1 <= MaxPh1(nominal) => s = bt
<1> DEFINE m == MaxPh1(nominal)
<1>1. m \in Nat
  BY Zenon DEF MaxPh1
<1>2. Redistribute(bt, nominal) = IF bt.phase_seg1 > m
        THEN [bt EXCEPT !.prop_seg = @ + bt.phase_seg1 - m, !.phase_seg1 = m] ELSE bt
  BY Zenon DEF Redistribute, MaxPh1
<1> HIDE DEF m
<1>3. CASE bt.phase_seg1 > m
  <2>1. Redistribute(bt, nominal) = [bt EXCEPT !.prop_seg = @ + bt.phase_seg1 - m, !.phase_seg1 = m]
    BY <1>2, <1>3, Zenon
  <2> QED
    BY <1>1, <1>3, <2>1 DEF TimingFields, m
<1>4. CASE ~(bt.phase_seg1 > m)
  <2>1. Redistribute(bt, nominal) = bt
    BY <1>2, <1>4, Zenon
  <2> QED
    BY <1>1, <1>4, <2>1 DEF m
<1> QED
  BY <1>3, <1>4, Zenon

\* What can_fixup_bittiming lets through is stored as the user gave it.
LEMMA FixupFacts ==
  ASSUME NEW bt \in Timings, NEW tq \in Nat, NEW nominal \in BOOLEAN, NEW mhz \in Nat,
         NEW f \in FixupBittiming(bt, tq, nominal, mhz)
  PROVE  LET s == Redistribute(f, nominal) IN Stored(s, bt, nominal) /\ InLimits(s)
<1> DEFINE btc  == TimingConst(nominal)
           brp  == (mhz * tq + 499) \div 1000
           full == [bt EXCEPT !.brp = brp, !.sjw = IF @ = 0 THEN 1 ELSE @]
           rate == (mhz * 1000000) \div BitLength(full)
<1>1. /\ f = [full EXCEPT !.bitrate = rate]
      /\ full.sjw <= btc.sjw_max
      /\ bt.phase_seg2 <= btc.tseg2_max
      /\ ~(brp < btc.brp_min) /\ ~(brp > btc.brp_max)
  <2>1. brp \in Int
    <3>1. mhz * tq \in Nat
      OBVIOUS
    <3> QED
      BY <3>1
  <2>2. /\ ~(full.sjw > btc.sjw_max) /\ ~(bt.phase_seg2 > btc.tseg2_max)
        /\ ~(brp < btc.brp_min) /\ ~(brp > btc.brp_max)
        /\ f = [full EXCEPT !.bitrate = rate]
    BY DEF FixupBittiming
  <2>3. full.sjw \in Nat /\ bt.phase_seg2 \in Nat /\ btc.sjw_max \in Nat /\ btc.tseg2_max \in Nat
    BY DEF Timings, TimingConst, bit_timing_max, bit_timing_data_max
  <2> HIDE DEF full, brp, btc, rate
  <2> QED
    BY <2>2, <2>3
<1>2. brp \in 1..8
  <2>1. brp \in Int
    <3>1. mhz * tq \in Nat
      OBVIOUS
    <3> QED
      BY <3>1
  <2>2. btc.brp_min = 1 /\ btc.brp_max \in {2, 8}
    BY DEF TimingConst, bit_timing_max, bit_timing_data_max
  <2> HIDE DEF brp, btc
  <2> QED
    BY <1>1, <2>1, <2>2
<1>3. full.sjw \in 1..31
  <2>1. btc.sjw_max = 31
    BY DEF TimingConst, bit_timing_max, bit_timing_data_max
  <2>2. full.sjw = IF bt.sjw = 0 THEN 1 ELSE bt.sjw
    BY DEF Timings
  <2>3. bt.sjw \in Nat
    BY DEF Timings
  <2>4. full.sjw <= 31
    BY <1>1, <2>1
  <2> HIDE DEF full, btc
  <2> QED
    BY <2>2, <2>3, <2>4
<1>4. bt.phase_seg2 \in 0..MaxPh1(nominal)
  <2>1. btc.tseg2_max = MaxPh1(nominal) /\ MaxPh1(nominal) \in Nat
    BY DEF TimingConst, bit_timing_max, bit_timing_data_max, MaxPh1
  <2>2. bt.phase_seg2 \in Nat
    BY DEF Timings
  <2> HIDE DEF btc
  <2> QED
    BY <1>1, <2>1, <2>2
<1> HIDE DEF brp, rate, btc
<1>5. DOMAIN f = TimingFields /\ f.prop_seg = bt.prop_seg /\ f.phase_seg1 = bt.phase_seg1
      /\ f.phase_seg2 = bt.phase_seg2 /\ f.sjw = full.sjw /\ f.brp = brp
  BY <1>1 DEF Timings, TimingFields
<1>6. bt.prop_seg \in Nat /\ bt.phase_seg1 \in Nat
  BY DEF Timings
<1> HIDE DEF full
<1>7. LET s == Redistribute(f, nominal)
      IN  /\ DOMAIN s = TimingFields
          /\ s.phase_seg1 = (IF f.phase_seg1 > MaxPh1(nominal) THEN MaxPh1(nominal) ELSE f.phase_seg1)
          /\ s.prop_seg = f.prop_seg + f.phase_seg1 - s.phase_seg1
          /\ s.phase_seg2 = f.phase_seg2 /\ s.sjw = f.sjw /\ s.brp = f.brp
  BY <1>5, <1>6, RedistributeFacts
<1> QED
  BY <1>2, <1>3, <1>4, <1>5, <1>6, <1>7, Zenon DEF Stored, InLimits

\* A field of a register keeps a value that fits.
LEMMA FieldKeeps ==
  ASSUME NEW m \in Nat \ {0}, NEW v \in Nat, v < m
  PROVE  v % m = v
  BY SMT

\* Timing registers, if written, hold a timing that fits.
KeepsTiming(regs, bt, nominal) == PropFits(bt, nominal) => \A r \in regs : SameTiming(r, bt)

\* The registers get the timing that is stored, as far as PROP can hold it.
LEMMA BtrFacts ==
  ASSUME NEW s, NEW user, NEW nominal \in BOOLEAN, Stored(s, user, nominal),
         DOMAIN user = TimingFields
  PROVE  /\ Redistribute(s, nominal) = s
         /\ KeepsTiming({Btr(s, nominal)}, user, nominal)
         /\ InLimits(s) => Btr(s, nominal).brp = s.brp /\ Btr(s, nominal).sjw > 0
<1> DEFINE w == BtrWidth(nominal)
           b == Btr(s, nominal)
<1>1. MaxPh1(nominal) \in Nat /\ user.prop_seg \in Nat /\ user.phase_seg1 \in Nat
  BY DEF MaxPh1, Stored
<1>2. s.phase_seg1 \in Nat /\ s.phase_seg1 <= MaxPh1(nominal) /\ s.prop_seg \in Nat /\ s.phase_seg2 \in Nat
  BY <1>1 DEF Stored
<1>3. Redistribute(s, nominal) = s
  BY <1>2, RedistributeFacts DEF Stored
<1>4. /\ 2^w.ph1 = MaxPh1(nominal) + 1 /\ 2^w.ph2 = MaxPh1(nominal) + 1
      /\ 2^w.brp = 256 /\ 2^w.sjw = 32 /\ 2^w.prop \in Nat \ {0}
  <2>1. 2^5 = 32 /\ 2^6 = 64 /\ 2^7 = 128 /\ 2^8 = 256
    BY SMT
  <2>2. CASE nominal
    BY <2>1, <2>2 DEF BtrWidth, MaxPh1
  <2>3. CASE ~nominal
    BY <2>1, <2>3 DEF BtrWidth, MaxPh1
  <2> QED
    BY <2>2, <2>3
<1>5. /\ b.prop_seg = s.prop_seg % 2^w.prop /\ b.phase_seg1 = s.phase_seg1 % 2^w.ph1
      /\ b.phase_seg2 = s.phase_seg2 % 2^w.ph2 /\ b.brp = s.brp % 2^w.brp /\ b.sjw = s.sjw % 2^w.sjw
  BY <1>3 DEF Btr, FIELD_PREP
<1> HIDE DEF w, b
<1>6. b.phase_seg1 = s.phase_seg1
  BY <1>1, <1>2, <1>4, <1>5, FieldKeeps
<1>7. b.phase_seg2 = s.phase_seg2
  BY <1>1, <1>2, <1>4, <1>5, FieldKeeps DEF Stored
<1>8. ASSUME PropFits(user, nominal)
      PROVE  SameTiming(b, user)
  <2>1. Redistribute(user, nominal).prop_seg = s.prop_seg
    BY <1>1, RedistributeFacts DEF Stored
  <2>2. s.prop_seg < 2^w.prop
    BY <1>8, <2>1 DEF PropFits, w
  <2>3. b.prop_seg = s.prop_seg
    BY <1>2, <1>4, <1>5, <2>2, FieldKeeps
  <2> QED
    BY <1>1, <1>2, <1>6, <1>7, <2>3 DEF Stored, Tseg1, SameTiming
<1>9. KeepsTiming({b}, user, nominal)
  BY <1>8 DEF KeepsTiming
<1>10. ASSUME InLimits(s) PROVE b.brp = s.brp /\ b.sjw > 0
  <2>1. s.brp \in Nat /\ s.brp < 256 /\ s.sjw \in Nat /\ s.sjw < 32 /\ s.sjw > 0
    BY <1>10 DEF InLimits
  <2> QED
    BY <1>4, <1>5, <2>1, FieldKeeps
<1> QED
  BY <1>3, <1>9, <1>10 DEF b

\* A controller that runs is set up as the interface is configured.
AsConfigured(r) ==
  /\ r.regs.btr # {}
  /\ KeepsTiming(r.regs.btr, r.config.nom, TRUE)
  /\ KeepsTiming(r.regs.btr_fd, r.config.data, FALSE)
  /\ \A b \in r.regs.btr : b.brp = r.nom.brp /\ b.sjw > 0
  /\ r.regs.mode = {ModeBit[f] : f \in r.config.flags \cap DOMAIN ModeBit}

\* What is stored for a core comes from its configuration at any time, and a reset
\* controller that is being opened has the modes of the reset.
ConfOK(r) ==
  /\ DOMAIN r.config.nom = TimingFields /\ DOMAIN r.config.data = TimingFields
  /\ Stored(r.nom, r.config.nom, TRUE)
  /\ Stored(r.data, r.config.data, FALSE)
  /\ r.nom # NoTiming => InLimits(r.nom)
  /\ r.net \in {"candev", "irq"} => r.nom # NoTiming
  /\ r.net \in {"reset", "candev", "irq"} => r.regs.mode = {"FDE"}
  /\ r.regs.ena => AsConfigured(r)

ConfInv == \A c \in Cores : ConfOK(core[c])

\* A core that does not exist is configured as nothing asks.
LEMMA ConfOfNoCore ==
  /\ ConfOK(NoCore)
  /\ Stored(NoTiming, NoTiming, TRUE) /\ Stored(NoTiming, NoTiming, FALSE)
  /\ DOMAIN NoTiming = TimingFields
<1>1. /\ DOMAIN NoTiming = TimingFields /\ NoTiming.prop_seg = 0 /\ NoTiming.phase_seg1 = 0 /\ NoTiming.phase_seg2 = 0
  BY DEF NoTiming, TimingFields
<1>2. Stored(NoTiming, NoTiming, TRUE) /\ Stored(NoTiming, NoTiming, FALSE)
  BY <1>1, SMTT(30) DEF Stored, MaxPh1
<1>3. /\ NoCore.config.nom = NoTiming /\ NoCore.config.data = NoTiming /\ NoCore.nom = NoTiming
      /\ NoCore.data = NoTiming /\ NoCore.net = "down" /\ NoCore.regs.ena = FALSE
  BY DEF NoCore, NoConfig, ResetRegs
<1> QED
  BY <1>1, <1>2, <1>3, Zenon DEF ConfOK

\* An update that leaves the configuration, the stored timings and what the registers
\* hold of them alone.
LEMMA SameConf ==
  ASSUME NEW r, NEW q, ConfOK(r),
         q.config = r.config, q.nom = r.nom, q.data = r.data,
         q.regs.ena => /\ r.regs.ena /\ q.regs.mode = r.regs.mode
                       /\ q.regs.btr = r.regs.btr /\ q.regs.btr_fd = r.regs.btr_fd,
         q.net \in {"candev", "irq"} => r.nom # NoTiming,
         q.net \in {"reset", "candev", "irq"} => q.regs.mode = {"FDE"}
  PROVE  ConfOK(q)
  BY Zenon DEF ConfOK, AsConfigured

\* do_set_bittiming and do_set_data_bittiming store what the user asked for.
LEMMA ConfiguredConf ==
  ASSUME NEW r, CoreOK(r), ConfOK(r), ~r.regs.ena, r.net = "down",
         NEW cfg \in Configs, NEW nom \in FixupBittiming(cfg.nom, cfg.ntq, TRUE, ClockMHz),
         NEW data \in (IF "FD" \in cfg.flags THEN FixupBittiming(cfg.data, cfg.dtq, FALSE, ClockMHz)
                                             ELSE {NoTiming})
  PROVE  ConfOK(Configured(r, cfg, nom, data))
<1> DEFINE q == Configured(r, cfg, nom, data)
<1>1. /\ q.config = cfg /\ q.nom = Redistribute(nom, TRUE) /\ q.data = Redistribute(data, FALSE)
      /\ q.net = "down" /\ q.regs.ena = r.regs.ena
  BY Zenon DEF Configured, CoreOK, CoreFields, RegFields
<1>2. cfg.nom \in Timings /\ cfg.data \in Timings /\ cfg.ntq \in Nat /\ cfg.dtq \in Nat /\ ClockMHz \in Nat
  <2>1. /\ cfg.nom \in Timings /\ cfg.data \in Timings /\ cfg.ntq \in Nat /\ cfg.dtq \in Nat
    BY ConfigAssumption
  <2>2. ClockMHz \in Nat
    BY DeviceAssumption
  <2> QED
    BY <2>1, <2>2
<1>3. DOMAIN cfg.nom = TimingFields /\ DOMAIN cfg.data = TimingFields
  BY <1>2 DEF Timings, TimingFields
<1>4. Stored(Redistribute(nom, TRUE), cfg.nom, TRUE) /\ InLimits(Redistribute(nom, TRUE))
  BY <1>2, FixupFacts, Zenon
<1>5. Stored(Redistribute(data, FALSE), cfg.data, FALSE)
  <2>1. CASE "FD" \in cfg.flags
    BY <1>2, <2>1, FixupFacts, Zenon
  <2>2. CASE "FD" \notin cfg.flags
    <3>1. data = NoTiming
      BY <2>2
    <3>2. cfg.data = NoTiming
      BY <2>2, ConfigAssumption
    <3>3. Redistribute(NoTiming, FALSE) = NoTiming
      BY DEF Redistribute, NoTiming
    <3> QED
      BY <3>1, <3>2, <3>3, ConfOfNoCore, Zenon
  <2> QED
    BY <2>1, <2>2, Zenon
<1> HIDE DEF q
<1>6. ConfOK(q)
  BY <1>1, <1>3, <1>4, <1>5, Zenon DEF ConfOK
<1> QED
  BY <1>6 DEF q

\* ctucan_chip_start writes it to a controller that has just been reset.
LEMMA StartedConf ==
  ASSUME NEW r, CoreOK(r), ConfOK(r), r.net = "irq"
  PROVE  ConfOK(Started(r))
<1> DEFINE q == Started(r)
<1>1. /\ q.config = r.config /\ q.net = "started" /\ q.nom = Redistribute(r.nom, TRUE)
      /\ q.data = Redistribute(r.data, FALSE) /\ q.regs = ChipStart(r)
  BY DEF Started, CoreOK, CoreFields
<1>2. /\ Redistribute(r.nom, TRUE) = r.nom
      /\ KeepsTiming({Btr(r.nom, TRUE)}, r.config.nom, TRUE)
      /\ Btr(r.nom, TRUE).brp = r.nom.brp /\ Btr(r.nom, TRUE).sjw > 0
  <2>1. InLimits(r.nom)
    BY DEF ConfOK
  <2> QED
    BY <2>1, BtrFacts, Zenon DEF ConfOK
<1>3. /\ Redistribute(r.data, FALSE) = r.data
      /\ KeepsTiming({Btr(r.data, FALSE)}, r.config.data, FALSE)
  BY BtrFacts, Zenon DEF ConfOK
<1>4. SetMode(r.regs.mode, r.config.flags) = {ModeBit[f] : f \in r.config.flags \cap DOMAIN ModeBit}
  <2>1. r.regs.mode = {"FDE"}
    BY DEF ConfOK
  <2>2. "FD" \in DOMAIN ModeBit /\ ModeBit["FD"] = "FDE"
    BY SMTT(30) DEF ModeBit
  <2> QED
    BY <2>1, <2>2, Zenon DEF SetMode
<1>5. /\ q.regs.btr = {Btr(r.nom, TRUE)} /\ q.regs.btr_fd = {Btr(r.data, FALSE)}
      /\ q.regs.mode = SetMode(r.regs.mode, r.config.flags)
  BY <1>1 DEF ChipStart
<1> HIDE DEF q
<1>6. AsConfigured(q)
  BY <1>1, <1>2, <1>3, <1>4, <1>5, Zenon DEF AsConfigured
<1>7. ConfOK(q)
  BY <1>1, <1>2, <1>3, <1>6, Zenon DEF ConfOK
<1> QED
  BY <1>7 DEF q

\* Every operation on an interface.
LEMMA CoreOpConf ==
  ASSUME IInv, ConfInv, NEW c \in Cores, CoreOp(c)
  PROVE  \E q : core' = [core EXCEPT ![c] = q] /\ ConfOK(q)
<1> DEFINE r == core[c]
<1>1. CoreOK(r) /\ ConfOK(r)
  BY DEF IInv, CoreInv, ConfInv
<1>2. DOMAIN r = CoreFields /\ DOMAIN r.regs = RegFields /\ (r.regs.ena => r.net \in {"started", "up"})
  BY <1>1 DEF CoreOK
<1> USE DEF CoreFields, RegFields
<1>3. CASE Changelink(c)
  <2>1. r.net = "down" /\ ~r.regs.ena
    BY <1>2, <1>3 DEF Changelink
  <2> DEFINE N(cfg) == FixupBittiming(cfg.nom, cfg.ntq, TRUE, ClockMHz)
             D(cfg) == IF "FD" \in cfg.flags THEN FixupBittiming(cfg.data, cfg.dtq, FALSE, ClockMHz)
                                             ELSE {NoTiming}
  <2>2. \E cfg \in Configs : \E nom \in N(cfg), data \in D(cfg) :
           core' = [core EXCEPT ![c] = Configured(core[c], cfg, nom, data)]
    BY <1>3, <2>1, Zenon DEF Changelink
  <2>3. PICK cfg \in Configs : \E nom \in N(cfg), data \in D(cfg) :
           core' = [core EXCEPT ![c] = Configured(core[c], cfg, nom, data)]
    BY <2>2, Zenon
  <2>4. PICK nom \in N(cfg), data \in D(cfg) :
           core' = [core EXCEPT ![c] = Configured(core[c], cfg, nom, data)]
    BY <2>3, Zenon
  <2>5. ConfOK(Configured(r, cfg, nom, data))
    BY <1>1, <2>1, ConfiguredConf, Zenon
  <2> QED
    BY <2>4, <2>5, Zenon
<1>4. CASE OpenReset(c)
  <2> DEFINE q == [r EXCEPT !.net = "reset", !.res = {"pm"}, !.rx = FALSE, !.regs = ResetRegs]
  <2>1. /\ q.config = r.config /\ q.nom = r.nom /\ q.data = r.data /\ q.net = "reset" /\ q.regs = ResetRegs
    BY <1>2
  <2>2. ~ResetRegs.ena /\ ResetRegs.mode = {"FDE"}
    BY DEF ResetRegs
  <2>3. core' = [core EXCEPT ![c] = q]
    BY <1>4 DEF OpenReset
  <2> HIDE DEF q
  <2>4. ConfOK(q)
    BY <1>1, <2>1, <2>2, SameConf
  <2> QED
    BY <2>3, <2>4, Zenon
<1>5. ASSUME NEW x, NEW y, ~r.regs.ena,
             x \in {"candev", "irq"} => r.nom # NoTiming /\ r.regs.mode = {"FDE"},
             x \in {"down", "candev", "irq"}
      PROVE  ConfOK([r EXCEPT !.net = x, !.res = y])
  <2> DEFINE q == [r EXCEPT !.net = x, !.res = y]
  <2>1. /\ q.config = r.config /\ q.nom = r.nom /\ q.data = r.data /\ q.net = x /\ q.regs = r.regs
    BY <1>2
  <2> HIDE DEF q
  <2>2. ConfOK(q)
    BY <1>1, <1>5, <2>1, SameConf
  <2> QED
    BY <2>2 DEF q
<1>6. CASE OpenCandev(c)
  <2>1. ~r.regs.ena /\ r.regs.mode = {"FDE"}
    BY <1>1, <1>2, <1>6 DEF OpenCandev, ConfOK
  <2>2. ConfOK([r EXCEPT !.net = "down", !.res = {}])
    BY <1>5, <2>1, Zenon
  <2>3. r.nom # NoTiming => ConfOK([r EXCEPT !.net = "candev", !.res = r.res \cup {"candev"}])
    BY <1>5, <2>1, Zenon
  <2> QED
    BY <1>6, <2>2, <2>3 DEF OpenCandev, OpenFailed
<1>7. CASE OpenIrq(c)
  <2>1. ~r.regs.ena /\ r.regs.mode = {"FDE"} /\ r.nom # NoTiming
    BY <1>1, <1>2, <1>7 DEF OpenIrq, ConfOK
  <2>2. ConfOK([r EXCEPT !.net = "down", !.res = {}])
    BY <1>5, <2>1, Zenon
  <2>3. ConfOK([r EXCEPT !.net = "irq", !.res = r.res \cup {"irq"}])
    BY <1>5, <2>1, Zenon
  <2> QED
    BY <1>7, <2>2, <2>3 DEF OpenIrq, OpenFailed
<1>8. CASE OpenStart(c)
  <2>1. r.net = "irq" /\ ~r.regs.ena
    BY <1>2, <1>8 DEF OpenStart
  <2>2. ConfOK(Started(r))
    BY <1>1, <2>1, StartedConf
  <2> QED
    BY <1>8, <2>1, <2>2 DEF OpenStart
<1>9. CASE OpenNapi(c)
  <2> DEFINE q == [r EXCEPT !.net = "up", !.napi = "idle"]
  <2>1. /\ q.config = r.config /\ q.nom = r.nom /\ q.data = r.data /\ q.net = "up" /\ q.regs = r.regs
    BY <1>2
  <2>2. core' = [core EXCEPT ![c] = q]
    BY <1>9 DEF OpenNapi
  <2> HIDE DEF q
  <2>3. ConfOK(q)
    BY <1>1, <2>1, SameConf
  <2> QED
    BY <2>2, <2>3, Zenon
<1>10. CASE CloseCore(c)
  <2> DEFINE q == Closed(r)
  <2>1. /\ q.config = r.config /\ q.nom = r.nom /\ q.data = r.data /\ q.net = "down" /\ ~q.regs.ena
    BY <1>2, Zenon DEF Closed
  <2>2. core' = [core EXCEPT ![c] = q]
    BY <1>10 DEF CloseCore
  <2> HIDE DEF q
  <2>3. ConfOK(q)
    BY <1>1, <2>1, SameConf, SMTT(30)
  <2> QED
    BY <2>2, <2>3, Zenon
<1>11. ASSUME NEW q, q.config = r.config, q.nom = r.nom, q.data = r.data, q.net = r.net,
              q.regs.ena = r.regs.ena, q.regs.mode = r.regs.mode, q.regs.btr = r.regs.btr,
              q.regs.btr_fd = r.regs.btr_fd
       PROVE  ConfOK(q)
  <2>1. r.net \in {"candev", "irq"} => r.nom # NoTiming
    BY <1>1 DEF ConfOK
  <2>2. r.net \in {"reset", "candev", "irq"} => r.regs.mode = {"FDE"}
    BY <1>1 DEF ConfOK
  <2> QED
    BY <1>1, <1>11, <2>1, <2>2, SameConf, SMTT(30)
<1>12. CASE GetBerrCounter(c)
  <2>1. \A y : ConfOK([r EXCEPT !.res = y])
    BY <1>2, <1>11
  <2> QED
    BY <1>12, <2>1, Zenon DEF GetBerrCounter
<1>13. CASE FrameArrives(c)
  <2>1. ConfOK([r EXCEPT !.rx = TRUE])
    BY <1>2, <1>11
  <2> QED
    BY <1>13, <2>1, Zenon DEF FrameArrives
<1>14. ASSUME NEW m
       PROVE  LET g == [r.regs EXCEPT !.masked = m]
              IN  g.ena = r.regs.ena /\ g.mode = r.regs.mode /\ g.btr = r.regs.btr /\ g.btr_fd = r.regs.btr_fd
  BY <1>2
<1>15. CASE RxIrq(c)
  <2> DEFINE n == IF r.napi = "idle" THEN "sched" ELSE r.napi
             g == [r.regs EXCEPT !.masked = TRUE]
             q == [r EXCEPT !.regs = g, !.napi = n]
  <2>1. core' = [core EXCEPT ![c] = q]
    BY <1>15 DEF RxIrq
  <2>2. g.ena = r.regs.ena /\ g.mode = r.regs.mode /\ g.btr = r.regs.btr /\ g.btr_fd = r.regs.btr_fd
    BY <1>14
  <2> HIDE DEF n, g
  <2>3. q.config = r.config /\ q.nom = r.nom /\ q.data = r.data /\ q.net = r.net /\ q.regs = g
    BY <1>2
  <2> HIDE DEF q
  <2>4. ConfOK(q)
    BY <1>11, <2>2, <2>3
  <2> QED
    BY <2>1, <2>4, Zenon
<1>16. CASE Poll(c)
  <2> DEFINE g == [r.regs EXCEPT !.masked = FALSE]
             q == [r EXCEPT !.rx = FALSE, !.napi = "idle", !.regs = g]
  <2>1. core' = [core EXCEPT ![c] = q]
    BY <1>16 DEF Poll
  <2>2. g.ena = r.regs.ena /\ g.mode = r.regs.mode /\ g.btr = r.regs.btr /\ g.btr_fd = r.regs.btr_fd
    BY <1>14
  <2> HIDE DEF g
  <2>3. q.config = r.config /\ q.nom = r.nom /\ q.data = r.data /\ q.net = r.net /\ q.regs = g
    BY <1>2
  <2> HIDE DEF q
  <2>4. ConfOK(q)
    BY <1>11, <2>2, <2>3
  <2> QED
    BY <2>1, <2>4, Zenon
<1> QED
  BY <1>3, <1>4, <1>6, <1>7, <1>8, <1>9, <1>10, <1>12, <1>13, <1>15, <1>16 DEF CoreOp, OpenCore

\* The invariant about the configuration is inductive, given IInv.
LEMMA ConfStep == IInv /\ ConfInv /\ [DeviceNext]_devvars => ConfInv'
<1> SUFFICES ASSUME IInv, ConfInv, [DeviceNext]_devvars PROVE ConfInv'
  OBVIOUS
<1>1. DOMAIN core = Cores /\ core_i \in Cores
  BY DEF IInv, CoreInv
<1>2. ASSUME NEW c \in Cores, NEW q, core' = [core EXCEPT ![c] = q], ConfOK(q) PROVE ConfInv'
  <2>1. \A d \in Cores : core'[d] = IF d = c THEN q ELSE core[d]
    BY <1>1, <1>2
  <2> QED
    BY <1>2, <2>1 DEF ConfInv
<1>3. ASSUME UNCHANGED core PROVE ConfInv'
  BY <1>3 DEF ConfInv
<1>4. CASE Probe
  <2>1. ASSUME ProbeFailed PROVE ConfInv'
    BY <1>1, <1>2, <2>1, ConfOfNoCore, Zenon DEF ProbeFailed
  <2>2. CASE ProbeAlloc /\ ~ProbeFailed
    <3> DEFINE b == (dev_bus = "pci")
               q == [core[core_i] EXCEPT !.ndev = "alloc", !.listed = b]
    <3>1. core' = [core EXCEPT ![core_i] = q]
      BY <2>2 DEF ProbeAlloc
    <3>2. DOMAIN core[core_i] = CoreFields /\ ConfOK(core[core_i])
      BY <1>1 DEF IInv, CoreInv, CoreOK, ConfInv
    <3> HIDE DEF b
    <3>3. /\ q.config = core[core_i].config /\ q.nom = core[core_i].nom /\ q.data = core[core_i].data
          /\ q.net = core[core_i].net /\ q.regs = core[core_i].regs
      BY <3>2 DEF CoreFields
    <3> HIDE DEF q
    <3>4. ConfOK(q)
      BY <3>2, <3>3, Zenon DEF ConfOK, AsConfigured
    <3> QED
      BY <1>1, <1>2, <3>1, <3>4, Zenon
  <2>3. CASE ProbeRegister /\ ~ProbeFailed
    <3> DEFINE q == [core[core_i] EXCEPT !.ndev = "registered"]
    <3>1. core' = [core EXCEPT ![core_i] = q]
      BY <2>3 DEF ProbeRegister
    <3>2. DOMAIN core[core_i] = CoreFields /\ ConfOK(core[core_i])
      BY <1>1 DEF IInv, CoreInv, CoreOK, ConfInv
    <3>3. /\ q.config = core[core_i].config /\ q.nom = core[core_i].nom /\ q.data = core[core_i].data
          /\ q.net = core[core_i].net /\ q.regs = core[core_i].regs
      BY <3>2 DEF CoreFields
    <3> HIDE DEF q
    <3>4. ConfOK(q)
      BY <3>2, <3>3, Zenon DEF ConfOK, AsConfigured
    <3> QED
      BY <1>1, <1>2, <3>1, <3>4, Zenon
  <2>4. CASE PciProbe \/ PlatformProbe \/ ProbePut \/ EnableA2p
    BY <1>3, <2>4 DEF PciProbe, Acquire, PlatformProbe, ProbePut, EnableA2p
  <2>5. CASE ProbeReset /\ ~ProbeFailed
    BY <1>3, <2>5 DEF ProbeReset
  <2> QED
    BY <1>4, <2>1, <2>2, <2>3, <2>4, <2>5 DEF Probe
<1>5. CASE Sleep
  BY <1>3, <1>5 DEF Sleep
<1>6. CASE Remove
  BY <1>2, <1>3, <1>6, ConfOfNoCore DEF Remove, RemoveBegin, RemoveEnd, RemoveCore
<1>7. ASSUME NEW c \in Cores, CoreOp(c) PROVE ConfInv'
  BY <1>2, <1>7, CoreOpConf
<1>8. CASE UNCHANGED devvars
  BY <1>3, <1>8 DEF devvars
<1> QED
  BY <1>4, <1>5, <1>6, <1>7, <1>8 DEF DeviceNext, CoreOp

\* A controller that runs has the bit length, the sample point and the modes of its
\* interface's configuration, for all configurations the CAN layer lets through
\* (ctucan_set_btr at the configuration and again in ctucan_chip_start, ctucan_set_mode).
THEOREM DeviceRunningAsConfigured == DeviceSpec => []RunningAsConfigured
<1>1. DeviceInit => ConfInv
  BY ConfOfNoCore DEF DeviceInit, ConfInv
<1>2. ConfInv => RunningAsConfigured
  BY Zenon DEF ConfInv, ConfOK, AsConfigured, RunningAsConfigured, KeepsTiming
<1> QED
  BY <1>1, <1>2, ConfStep, DeviceInvariant, PTL DEF DeviceSpec
=============================================================================
