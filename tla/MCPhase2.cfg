\* Two users, so that one asks while the request of the other is in the list; a
\* list of three, so that places behind the last are cleared and the list runs
\* full.  With one disk its driver competes with the users and with the clock.
SPECIFICATION Spec
CONSTANTS
  User = {u1, u2}
  Unit = {d0}
  Second = {0, 1}
  P1_MAXPROC = 3
  Func = {f}
  NULL = NULL
SYMMETRY Alike
INVARIANTS Phase2TypeOK DriverFindsRequest
PROPERTY EmptyListHasNoRequests
CHECK_DEADLOCK FALSE
