SPECIFICATION MCSpec
CONSTANTS
  N = 2
  M = 6
  MaxCores = 2
  Configs <- MCConfigs
  ClockMHz = 100
CONSTRAINT Explored
INVARIANTS
  ConsistentAlone
  ClosedIsQuiet
  PmBalanced
  UnboundHoldsNothing
  UsedOnlyWhileMapped
  RunningAsConfigured
  OnlyPciFaults
PROPERTY
  OverfilledOnlyBy
