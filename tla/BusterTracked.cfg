CONSTANTS
  NMIOMMU = 1
  N_VADDR = 6
  Devices = {"many", "off", "one"}
  Conf <- MCManyConf
SPECIFICATION Spec
INVARIANT MappingsTracked
CHECK_DEADLOCK FALSE
