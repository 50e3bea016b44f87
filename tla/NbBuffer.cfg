SPECIFICATION Spec
CONSTANTS
  BufSize = 2
  FileLen = 2
  MaxCount = 4
  MaxTotal = 5
  MaxStore = 4
INVARIANTS TypeOK WithinBounds
PROPERTIES SlowCallsReturn EofIsSticky
CHECK_DEADLOCK FALSE
