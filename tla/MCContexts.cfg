\* Two contexts, six memory blocks, cids in and one past the table.
SPECIFICATION ContextSpec
CONSTANTS
  P1_MAXPROC = 2
  Block = {b1, b2, b3, b4, b5, b6}
  NoBlock = NoBlock
  CidArg = {0, 1, 2}
  MAXSTEPS = 1
SYMMETRY BlockSymmetry
INVARIANTS ContextTypeOK OwnMemory CurrentActive TableIsNoStack
PROPERTY OnlyInterruptBit
CHECK_DEADLOCK FALSE
