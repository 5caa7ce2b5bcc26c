CONSTANTS
  Callers = {c1, c2, c3, c4}
  MaxSlots = 2
  LockCallers = {p1, p2, p3}
  Mortal = p1
  Nobody = Nobody
  Waiters = {w1, w2}
  Patient = {w1}
  Passers = {q}
  SameHost = {w1, q}
  Maxima = {1, 2}
  MaxMishaps = 1
SPECIFICATION AnySpec
INVARIANTS
  NoGhostTicket
  OvertakenOnce
PROPERTIES
  ImplementsSemaphore
  LockIsSemaphore
  EveryCallerServed
CHECK_DEADLOCK FALSE
