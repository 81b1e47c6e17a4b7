\* Two user processes, one of which also runs code of the kernel; two names, so
\* that a lock of the kernel and one of the users are in use together.  Every pid
\* is the number of a condition, so WakeTargets never has to guess.
SPECIFICATION SyncSpec
CONSTANTS
  Proc = {0, 1}
  P1_MAXLOCKS = 2
  P1_MAXCONDS = 2
  PidQueueLen = 1
  Name = {a, b}
  Newline = {a, b}
  StubSetState = FALSE
  KernelProc = {0}
  UserProc = {0, 1}
INVARIANTS SyncTypeOK BlockedIsQueued KernelLocksKept
PROPERTY ImplementsMonitor
CHECK_DEADLOCK FALSE
