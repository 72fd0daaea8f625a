SPECIFICATION FairSpec
CONSTANTS
  h = h
  r1 = r1
  r2 = r2
  v0 = v0
  w1 = w1
  w2 = w2
  None = None
  Task <- RetryableAndLegacy
  Worker <- TwoWorkers
  Legacy <- OneLegacy
  Hooked <- OneLegacy
  Retryable <- OneRetryable
  Deduped <- NoTask
  MaxRunning = 1
  MaxAttempts = 2
  LeaseTicks = 1
  MaxFaults = 1
PROPERTIES TaskSettles
CHECK_DEADLOCK FALSE
