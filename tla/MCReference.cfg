CONSTANTS
  Files = {"src", "new"}
  DependencyFiles = {"src"}
  MaxDigestFiles = 1
  MaxUntrackedFiles = 1
  Dispatches = {1, 2}
  Work <- MCWork
  Scenarios <- MCScenarios
SPECIFICATION RefSpec
INVARIANTS
  ReferenceIsTrue
  CleanupExact
CHECK_DEADLOCK FALSE
