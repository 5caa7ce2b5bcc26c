SPECIFICATION Spec
CONSTANTS
  N = 3
  ModeA = {1, 2}
  Captured = {1, 3}
  MaxBatch = 2
INVARIANTS
  NoUnexplainedGreen
  AbortIsOwn
  NobodyOrphaned
CHECK_DEADLOCK FALSE
