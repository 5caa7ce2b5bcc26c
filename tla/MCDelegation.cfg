SPECIFICATION Spec
CONSTANTS
  N = 3
  Models = {"m1", "m2"}
  MaxRank = 5
  High = 4
  Policies <- MCPolicies
  Costs = {1}
INVARIANTS
  LadderKept
  ChildrenKept
CHECK_DEADLOCK FALSE
