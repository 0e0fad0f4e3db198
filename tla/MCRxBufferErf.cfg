SPECIFICATION Spec
CONSTANTS
  Size = 8
  Counts = {3, 4}
  FrameMod = 1
  ERFM = TRUE
INVARIANT CommittedWhole
