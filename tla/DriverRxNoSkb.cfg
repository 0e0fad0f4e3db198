SPECIFICATION LiveSpec
CONSTANTS
  Cap = 2
  Quota = 3
  AllocFails = 1
PROPERTY FramesDeliveredLater
