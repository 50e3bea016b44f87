SPECIFICATION Spec
CONSTANTS
  GroupsNs = "groups"
  Groups <- MCGroups
  Attrs <- MCAttrs
  Type <- MCType
  RLids <- MCRLids
  Values <- MCValues
  TopGroups <- MCTopGroups
  MaxElems = 2
  MaxDepth = 5
  MaxInFlight = 2
  MaxRestarts = 1
  LateReceiver = TRUE
INVARIANTS TypeOK ReceivedAsSent OnlyEofFails SenderNeverFails ActiveGroupIsInnermost BlocksAgree PidUnderstoodOrReported
CHECK_DEADLOCK FALSE
