SPECIFICATION ItemSpec
CONSTANTS
  MaxTokens = 6
  MaxCount = 1
  MaxDepth = 3
INVARIANTS ProperClientAccepted WrittenIsWellFormed EmptyStackIsComplete
  WholeItemIsProper
CHECK_DEADLOCK FALSE
