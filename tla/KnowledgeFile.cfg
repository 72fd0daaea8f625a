SPECIFICATION Spec
CONSTANTS
  k1 = k1
  k2 = k2
  Older = Older
  None = None
  Task <- TwoTasks
  MaxAttempts = 2
SYMMETRY TaskSymmetry
INVARIANTS TypeOK IndexedIsSearchable IntermediateIsHandled SupersededIsTracked
PROPERTIES PublishedIsKept RowOutlivesVectors
CHECK_DEADLOCK FALSE
