SPECIFICATION Spec
CONSTANTS
  c1 = c1
  c2 = c2
  m1 = m1
  s1 = s1
  s2 = s2
  t1 = t1
  t2 = t2
  t3 = t3
  None = None
  Chat <- OneChat
  Resume <- OneResume
  Sub <- OneSub
  Token <- TwoTokens
  LeaseTicks = 2
VIEW NoHistory
SYMMETRY TokenSymmetry
INVARIANTS TypeOK AttemptMatchesOwner ExecutionTreeClosed RuntimeOutlivesOwner CleanupFence
PROPERTIES ExpiredOwnershipOnlyFails ImplementsLifecycle ImplementsThreadRuns
CHECK_DEADLOCK FALSE
