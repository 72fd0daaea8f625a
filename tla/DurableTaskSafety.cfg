SPECIFICATION Spec
CONSTANTS
  h = h
  r1 = r1
  r2 = r2
  v0 = v0
  w1 = w1
  w2 = w2
  None = None
  Task <- ThreeTasks
  Worker <- TwoWorkers
  Legacy <- NoTask
  Hooked <- OneHooked
  Retryable <- TwoRetryable
  Deduped <- TwoRetryable
  MaxRunning = 1
  MaxAttempts = 2
  LeaseTicks = 1
  MaxFaults = 1
VIEW Relevant
SYMMETRY SlotAndTaskSymmetry
INVARIANTS TypeOK CapacityBounded OneExecution OneTaskPerKey FailureConverged
PROPERTIES ImplementsTaskLife
CHECK_DEADLOCK FALSE
