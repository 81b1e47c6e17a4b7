\* Three processes, two names, priorities below, in and at the end of the range.
SPECIFICATION ProcSpec
CONSTANTS
  P1_MAXPROC = 3
  Block = {b1, b2, b3, b4, b5, b6}
  NoBlock = NoBlock
  CidArg = {0}
  MAXSTEPS = 0
  Name = {n1, n2}
  Priority = {0, 2, 6}
  PidArg = {0, 1, 4}
VIEW WithoutBlocks
INVARIANTS ProcTypeOK Lockstep CurrentIsRunning QueueAgrees
CHECK_DEADLOCK FALSE
