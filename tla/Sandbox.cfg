SPECIFICATION BoundedSpec
CONSTANTS
  c1 = c1
  c2 = c2
  p1 = p1
  p2 = p2
  reaper = reaper
  quiesce = quiesce
  Client <- TwoClients
  Proxy <- OneProxy
  Reaper = reaper
  Quiesce = quiesce
  PoolSize = 1
  MaxGen = 2
  MaxFaults = 1
INVARIANTS TypeOK QuiescedIsEmpty
PROPERTIES ReleaseSparesNewer DeletionEnds ReleaseConverges
CHECK_DEADLOCK FALSE
