CONSTANTS
  Faults = {"net", "dump", "add", "commit", "crash"}
  MaxRuns = 3
  MaxPushes = 2
SPECIFICATION Spec
INVARIANT TypeOK
INVARIANT BuildsCurrent
INVARIANT CleanAfterRun
INVARIANT FitRunPublishes
PROPERTY DivergenceIsPermanent
CHECK_DEADLOCK FALSE
