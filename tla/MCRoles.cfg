CONSTANT Scenarios <- MCScenarios
SPECIFICATION Spec
INVARIANTS
  GrantsRespected
  FloorCoversGrant
  RecordFollowsChild
  StopIsFinal
CHECK_DEADLOCK FALSE
