\* Two processes, the second with the better priority.
SPECIFICATION ProcSpec
CONSTANTS
  P1_MAXPROC = 2
  Block = {b1, b2, b3, b4}
  NoBlock = NoBlock
  CidArg = {0}
  MAXSTEPS = 0
  Name = {n1, n2}
  Priority = {2, 6}
  PidArg = {0, 1}
CHECK_DEADLOCK FALSE
PROPERTY HighestPriorityRuns
