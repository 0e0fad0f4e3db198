SPECIFICATION MCSpec
CONSTANTS
  MaxCalls = 3
  MaxPeer = 2
  RxWords = 24
  Calls <- MCCalls
  ToolOptions <- MCOptions
  Boards <- MCBoards
  PeerFrames <- MCPeerFrames
  Versions = {24, 26}
  LowSpan = 4
  MaxHigh = 2
  NumFrames = 3
  PipeCap = 5
  Rands <- MCRands
INVARIANTS
  OtherSettingsKept
  RegisterMapsAgree
  RegtestReadsBack
  ToolSetUp
  FramesIntact
  TimestampInCall
  LogFaithful
  LeavesInOrder
PROPERTY
  EndsUnlessBlocked
CHECK_DEADLOCK FALSE
