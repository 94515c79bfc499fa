CONSTANTS
  NMIOMMU = 2
  N_VADDR = 12
  Devices <- MCDevices
  Conf <- MCConf
SPECIFICATION Spec
INVARIANT TypeOK
INVARIANT LeavesPageLate
INVARIANT OpenedOnce
INVARIANT EnabledOpened
INVARIANT FreedUnlessOverrun
INVARIANT SeenHasRoom
INVARIANT OverrunNeedsFailure
PROPERTY SecondWalkEnds
PROPERTY LoadEnds
CHECK_DEADLOCK FALSE
