SPECIFICATION DiagSpec
CONSTANTS
  MaxTokens = 4
  MaxCount = 1
INVARIANTS DecodesWellFormed
CHECK_DEADLOCK FALSE
