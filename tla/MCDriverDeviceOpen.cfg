SPECIFICATION DeviceSpec
CONSTANTS
  MaxCores = 1
  Configs <- MCConfigs
  ClockMHz = 100
PROPERTY WaitingFrameIsRead
