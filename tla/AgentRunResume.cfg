SPECIFICATION Spec
CONSTANTS
  c1 = c1
  c2 = c2
  m1 = m1
  s1 = s1
  s2 = s2
  t1 = t1
  t2 = t2
  t3 = t3
  None = None
  Chat <- OneChat
  Resume <- OneResume
  Sub <- NoRun
  Token <- TwoTokens
  LeaseTicks = 1
INVARIANT ResumeStoppedOnlyByUser
CHECK_DEADLOCK FALSE
