SPECIFICATION Spec
CONSTANTS
  Features = {1, 2, 3}
  Claims <- MCClaims
  Prefixes = {1, 2}
  StartPriority <- MCPriority
  MAX_EJECT_COUNT = 2
  EJECT_PRIORITY_DECREMENT = 10
  MaxTrains = 2
  MaxEjects = 2
  LeastPriority = 90
INVARIANTS
  TrainTypeOK
  OverlapSerialized
  MergedLanded
PROPERTIES
  EjectedNotBuiltOn
  OnlyVerifiedLands
CHECK_DEADLOCK FALSE
