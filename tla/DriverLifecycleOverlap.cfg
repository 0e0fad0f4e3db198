SPECIFICATION LSpec
CONSTANTS
  N = 2
  M = 6
INVARIANT RingConsistent
