SPECIFICATION DiagSpec
CONSTANTS
  MaxTokens = 5
  MaxCount = 2
INVARIANTS AcceptsOnlyWellFormed RejectsOnlyIllFormed LoopsAndBlocksAgree
  PrintsWhatItReads IndentationIsDepth
PROPERTIES Terminates
CHECK_DEADLOCK FALSE
