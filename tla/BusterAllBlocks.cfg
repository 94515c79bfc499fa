CONSTANTS
  NMIOMMU = 4
  N_VADDR = 50
  Devices = {"epyc"}
  Conf <- MCEpycConf
SPECIFICATION Spec
INVARIANT FindsAllBlocks
CHECK_DEADLOCK FALSE
