\* Two processes, the clock and one disk, whose locks may be the same.
SPECIFICATION FairDevSpec
CONSTANTS
  Proc = {p1, p2}
  NoProc = NoProc
  Dev <- ClockAndDisk
  SIGNALTICKS = 3
  DISPATCHTICKS = 2
  MAXTICKS = 4
INVARIANT DevTypeOK
PROPERTIES OneReturnPerInterrupt PollerServed
