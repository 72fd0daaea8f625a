SPECIFICATION FairSpec
CONSTANTS
  c1 = c1
  c2 = c2
  p1 = p1
  p2 = p2
  reaper = reaper
  quiesce = quiesce
  Client <- OneClient
  Proxy <- TwoProxies
  Reaper = reaper
  Quiesce = quiesce
  PoolSize = 1
  MaxGen = 1
  MaxFaults = 0
PROPERTIES DeletionEnds
CHECK_DEADLOCK FALSE
