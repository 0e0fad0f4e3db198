--------------------------- MODULE MCDriverDevice ---------------------------
(***************************************************************************)
(* A platform device and a PCI board with up to two cores.  The timings:   *)
(* segments that must be moved from PH1 to PROP, and a PROP that its field *)
(* cannot hold.                                                            *)
(***************************************************************************)
EXTENDS DriverDevice

Timing(prop, ph1, ph2) ==
  [bitrate |-> 0, prop_seg |-> prop, phase_seg1 |-> ph1, phase_seg2 |-> ph2, sjw |-> 0, brp |-> 0]

MCConfigs ==
  {[nom |-> Timing(95, 95, 63), ntq |-> 20, data |-> Timing(20, 45, 31), dtq |-> 10, flags |-> {"FD"}],
   [nom |-> Timing(150, 40, 63), ntq |-> 80, data |-> NoTiming, dtq |-> 0, flags |-> {"LOOPBACK", "ONE_SHOT"}]}
=============================================================================
