\* Two processes with two pages each and two frames, so that frames run out; three
\* faults, so that a fault is taken while others are behind it, and taken again.
SPECIFICATION Spec
CONSTANTS
  User = {u1, u2}
  numPages = 2
  numFrames = 2
  MaxFaults = 3
SYMMETRY Alike
INVARIANTS PagingTypeOK QueuedUntilTaken  FramesMappedOnce
CHECK_DEADLOCK FALSE
