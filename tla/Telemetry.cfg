SPECIFICATION Spec
CONSTANTS
  Capacity = 1
  ListMax = 2
  MaxEvents = 2
  MaxSockets = 2
  MaxLoads = 1
  MaxMounts = 2
INVARIANTS
  ViewIsExplained
  NeverStranded
CHECK_DEADLOCK FALSE
