SPECIFICATION Spec
CONSTANTS
  Base = 4
  Direct = 1
  Samples <- MCSamples
INVARIANTS Uint64Arrives
CHECK_DEADLOCK FALSE
