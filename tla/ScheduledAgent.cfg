SPECIFICATION FairSpec
CONSTANTS
  m1 = m1
  p1 = p1
  p2 = p2
  None = None
  Manual <- OneManual
  Proc <- TwoProcs
  MaxClock = 2
  MaxFaults = 1
INVARIANTS TypeOK OneLiveTrigger TriggerTellsTruth
PROPERTIES NoBackfill TriggerSettles
CHECK_DEADLOCK FALSE
