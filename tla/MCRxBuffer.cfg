SPECIFICATION Spec
CONSTANTS
  Size = 8
  Counts = {4}
  FrameMod = 2
  ERFM = FALSE
INVARIANT OutputsExact
PROPERTY ImplementsFrameFifo
