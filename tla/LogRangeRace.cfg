CONSTANTS
  Val = {v0, v1}
  BLOCK_WORDS = 2
  Starts <- MCStarts
  MaxLen = 7
  MaxCalls = 1
  MaxWrites = 2
SPECIFICATION Spec
INVARIANT TypeOK
INVARIANT ReadsInRange
INVARIANT LinesTile
INVARIANT PrintedWasHeld
INVARIANT RunsMaximal
PROPERTY CallReturns
PROPERTY ImplementsDump
CHECK_DEADLOCK FALSE
