CONSTANTS
  SIZE = 4
  HISTORY = 2
  MaxT = 10
  Regs <- MCRegs
SPECIFICATION Spec
INVARIANT TypeOK
INVARIANT ShowsRecent
INVARIANT PendingReal
INVARIANT RefusedOnlyIf
INVARIANT HeadNotOlder
INVARIANT BaseDecoded
CHECK_DEADLOCK FALSE
