\* A context that is left and switched to again.
SPECIFICATION ContextSpec
CONSTANTS
  P1_MAXPROC = 2
  Block = {b1, b2, b3, b4, b5, b6}
  NoBlock = NoBlock
  CidArg = {0, 1}
  MAXSTEPS = 1
SYMMETRY BlockSymmetry
INVARIANT ResumesWhereLeft
CHECK_DEADLOCK FALSE
