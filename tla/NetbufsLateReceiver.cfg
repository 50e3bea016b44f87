SPECIFICATION Spec
CONSTANTS
  GroupsNs = "groups"
  Groups <- MCGroups
  Attrs <- MCAttrs
  Type <- MCType
  RLids <- MCRLids
  Values <- MCValues
  TopGroups <- MCGroups
  MaxElems = 1
  MaxDepth = 2
  MaxInFlight = 2
  MaxRestarts = 0
  LateReceiver = TRUE
INVARIANT PidUnderstoodOrReported
CHECK_DEADLOCK FALSE
