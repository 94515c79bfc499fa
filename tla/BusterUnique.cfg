CONSTANTS
  NMIOMMU = 1
  N_VADDR = 50
  Devices = {"one"}
  Conf <- MCOneConf
SPECIFICATION Spec
INVARIANT UniqueRegs
CHECK_DEADLOCK FALSE
