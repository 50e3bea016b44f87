SPECIFICATION Spec
CONSTANTS
  Namespaces <- MCNamespaces
  Names <- MCNames
  RLids <- MCRLids
  MaxWire = 3
INVARIANTS IdsUnderstood Inv
CHECK_DEADLOCK FALSE
