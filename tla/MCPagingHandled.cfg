\* Two processes, so that one faults while the fault of the other is handled.
SPECIFICATION Spec
CONSTANTS
  User = {u1, u2}
  numPages = 2
  numFrames = 2
  MaxFaults = 3
CHECK_DEADLOCK FALSE
PROPERTY FaultHandled
