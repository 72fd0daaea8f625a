SPECIFICATION Spec
CONSTANTS
  m1 = m1
  p1 = p1
  p2 = p2
  None = None
  Manual <- NoManual
  Proc <- TwoProcs
  MaxClock = 2
  MaxFaults = 0
INVARIANT NoOverlap
CHECK_DEADLOCK FALSE
