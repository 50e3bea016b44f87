SPECIFICATION Spec
CONSTANTS
  GroupsNs = "groups"
  Groups <- MCGroups
  Attrs <- MCAttrs
  Type <- MCType
  RLids <- MCRLids
  Values <- MCValues
  TopGroups <- MCTopGroups
  MaxElems = 1
  MaxDepth = 4
  MaxInFlight = 2
  MaxRestarts = 1
  LateReceiver = FALSE
PROPERTIES CleanCloseDelivers FullStreamDrains ExchangesNames
CHECK_DEADLOCK FALSE
