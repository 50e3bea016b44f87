SPECIFICATION ClientSpec
CONSTANTS
  BufSize = 2
  FileLen = 5
  MaxCount = 5
  MaxTotal = 7
  MaxStore = 7
INVARIANTS ReadsFileInOrder WritesFileInOrder
PROPERTIES IsFifo
CHECK_DEADLOCK FALSE
