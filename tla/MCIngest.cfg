CONSTANTS
  i1 = i1
  i2 = i2
  d1 = d1
  d2 = d2
  Off = Off
  Nil = Nil
  Instances = {i1, i2}
  Owner = i1
  Dirs = {d1, d2}
  Scenarios <- MCScenarios
  MaxRegistrations = 3
  Rungs <- MCRungs
  Alike <- MCAlike
SPECIFICATION IngestSpec
INVARIANTS
  StepsCountedOnce
  EndedIsFolded
  RowsFollowStore
CHECK_DEADLOCK FALSE
