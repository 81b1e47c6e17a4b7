\* Two processes, two locks, a queue of two: every call, renames included.
SPECIFICATION LockSpec
CONSTANTS
  Proc = {0, 1}
  P1_MAXLOCKS = 2
  PidQueueLen = 2
  Name = {a, b}
  Newline = {a}
  StubSetState = TRUE
INVARIANTS LockTypeOK MutualExclusion OwnerRecorded WaiterQueued
PROPERTIES FreedLockHasNoWaiter CreatedNameIsNew ImplementsMutex
CHECK_DEADLOCK FALSE
