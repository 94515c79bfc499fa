CONSTANTS
  NMIOMMU = 4
  N_VADDR = 50
  Devices = {"epyc", "absent"}
  Conf <- MCAbsentConf
SPECIFICATION Spec
PROPERTY InitReturns
CHECK_DEADLOCK FALSE
