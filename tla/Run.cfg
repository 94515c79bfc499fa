CONSTANTS
  Procs = {p1, p2}
  NoArg = NoArg
  Args <- MCArgs
  Shorts = {0, 1}
  MaxTime = 2
SPECIFICATION Spec
INVARIANT TypeOK
INVARIANT SilentRunIsWhole
INVARIANT ExitReleases
CHECK_DEADLOCK FALSE
