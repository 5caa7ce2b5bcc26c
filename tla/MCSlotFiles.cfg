CONSTANTS
  p1 = p1
  p2 = p2
  p3 = p3
  Procs = {p1, p2, p3}
  Nobody = Nobody
  Hosts <- MCHosts
  MaxSlots = 1
  MaxOwn = 4
  MaxMishaps = 0
  ClaimDepth = 2
  Troubles = {}
  Again = {p3}
  GivesUp = {}
  CanCrash = {p1, p2}
  CanExit = {}
SPECIFICATION AnySpec
INVARIANTS
  UnlinksChecked
PROPERTIES
  SlotsAreSemaphore
  LossesNoticed
CHECK_DEADLOCK FALSE
