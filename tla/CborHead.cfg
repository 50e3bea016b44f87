SPECIFICATION Spec
CONSTANTS
  Base = 4
  Direct = 1
  Samples <- MCSamples
INVARIANTS NumberArrives RefusedOnlyOutOfRange CutIsReported InStep
CHECK_DEADLOCK FALSE
