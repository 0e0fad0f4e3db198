------------------------- MODULE MCDriverLifecycle -------------------------
(***************************************************************************)
(* The life of a device and the life of an open interface.  Either one is  *)
(* run while the other rests in an initial state.                          *)
(***************************************************************************)
EXTENDS DriverLifecycle, MCDriverDevice

VARIABLE life

MCInit ==
  /\ LInit
  /\ DeviceInit
  /\ life \in {"interface", "device"}
  /\ life = "interface" => dev_bus = "platform"

MCNext ==
  \/ life = "interface" /\ LNext /\ UNCHANGED <<devvars, life>>
  \/ life = "device" /\ DeviceNext /\ UNCHANGED <<vars, lvars, hvars, life>>

MCSpec == MCInit /\ [][MCNext]_<<vars, lvars, hvars, devvars, life>>

\* After an overlapping restart, ConsistentAlone and OverfilledOnlyBy claim nothing until
\* the next open: what follows one is explored where ctucan_close is under way or done.
Explored == disturbed => netdev # "up"
=============================================================================
