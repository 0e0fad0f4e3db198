SPECIFICATION MCSpec
CONSTANTS
  N = 3
  M = 9
  Cap = 3
  Quota = 2
  AllocFails = 1
INVARIANTS
  AwakeMeansRoom
  SlotFree
  FifoOrder
  FfwOfHead
  DeliveredInOrder
PROPERTIES
  ImplementsFifo
  FramesComplete
  FramesDelivered
