CONSTANTS
  Procs = {p1, p2}
  Nobody = Nobody
  MaxAttempts = 1
  MaxRefusals = 1
  CanCrash = {p1}
  MaxFileMishaps = 1
  Requesters = {r1}
  Callers = {c1}
  Disposer = Disposer
  Flights = {f1, f2}
  None = None
  MaxRows = 3
  MaxRevision = 1
  BatchRows = 2
  MaxQueuedRows = 2
  Troubles = {"timer", "lock", "read", "save", "readOnly", "append", "torn"}
  MaxMishaps = 1
SPECIFICATION AnySpec
INVARIANTS
  MemoryKeepsOwn
  WaitersCovered
  RowsKept
PROPERTIES
  SaveAddsOwn
  NothingStaysPending
CHECK_DEADLOCK FALSE
