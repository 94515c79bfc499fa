CONSTANTS
  Val = {v0, v1}
  BLOCK_WORDS = 4
  Starts <- MCAligned
  MaxLen = 8
  MaxCalls = 1
  MaxWrites = 0
SPECIFICATION Spec
INVARIANT LastLineAddress
CHECK_DEADLOCK FALSE
