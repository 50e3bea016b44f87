SPECIFICATION Spec
CONSTANTS
  ItemValues = {0, 1}
  InitCapacity = 1
  MaxItems = 5
  f1 = f1
  f2 = f2
  Frames = {f1, f2}
  NoFrame = NoFrame
  InitSize = 1
  MaxDepth = 5
  InitStrSize = 2
  MaxPrint = 3
  MaxLen = 5
  BlockSize = 6
  HeaderSize = 2
  TrailerSize = 1
  MaxObject = 7
  MaxObjects = 5
INVARIANTS
  ArrayHoldsItems StrbufFits StringIsWhole ObjectsInBlocks ObjectsApart NothingLeaks
PROPERTIES IsLifo
CHECK_DEADLOCK FALSE
