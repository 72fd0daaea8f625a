SPECIFICATION Spec
CONSTANTS
  q1 = q1
  q2 = q2
  q3 = q3
  m1 = m1
  None = None
  Request <- ThreeRequests
  Resume <- OneResume
  Policies <- AllPolicies
  MaxCalls = 2
  MaxFaults = 1
VIEW Relevant
SYMMETRY RequestSymmetry
INVARIANTS TypeOK OneRunAtATime
PROPERTIES YieldKeepsSteer ImplementsThread ImplementsThreadRuns
CHECK_DEADLOCK FALSE
