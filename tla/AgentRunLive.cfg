SPECIFICATION LiveSpec
CONSTANTS
  c1 = c1
  c2 = c2
  m1 = m1
  s1 = s1
  s2 = s2
  t1 = t1
  t2 = t2
  t3 = t3
  None = None
  Chat <- OneChat
  Resume <- NoRun
  Sub <- OneSub
  Token <- TwoTokens
  LeaseTicks = 1
PROPERTIES AbandonedRunEnds CleanupConverges
CHECK_DEADLOCK FALSE
