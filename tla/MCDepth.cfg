CONSTANTS
  user = user
  child = child
  grandchild = grandchild
  farthest = farthest
  None = None
  Ids <- MCIds
  Creator <- MCCreator
  Scenarios <- MCScenarios
  MaxEntries = 2
  Limit = 2
SPECIFICATION Spec
INVARIANTS
  DepthIsTrue
  NoResurrection
CHECK_DEADLOCK FALSE
