CONSTANTS
  Faults = {}
  MaxRuns = 2
  MaxPushes = 1
SPECIFICATION Spec
INVARIANT EveryRunPublishes
CHECK_DEADLOCK FALSE
