\* Two processes with two pages each and two frames, so that frames run out and
\* the pager answers that there is no more swap space.
SPECIFICATION Spec
CONSTANTS
  User = {u1, u2}
  numPages = 2
  numFrames = 2
  MaxFaults = 3
CHECK_DEADLOCK FALSE
PROPERTY OutOfSwapTerminates
