SPECIFICATION FairSpec
CONSTANTS
  q1 = q1
  q2 = q2
  q3 = q3
  m1 = m1
  None = None
  Request <- TwoRequests
  Resume <- NoResume
  Policies <- OnlyEnqueue
  MaxCalls = 1
  MaxFaults = 1
PROPERTIES PendingRunStarts ReadyQueueMoves
CHECK_DEADLOCK FALSE
