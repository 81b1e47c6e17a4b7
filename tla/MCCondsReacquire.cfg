\* P1_Wait sets the state of its lock BUSY without looking at it.
SPECIFICATION CarefulSpec
CONSTANTS
  Proc = {0, 1}
  P1_MAXLOCKS = 2
  P1_MAXCONDS = 2
  PidQueueLen = 2
  Name = {a, b}
  Newline = {a, b}
  StubSetState = FALSE
INVARIANT WaitReacquires
CHECK_DEADLOCK FALSE
