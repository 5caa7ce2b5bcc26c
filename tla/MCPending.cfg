SPECIFICATION Spec
CONSTANTS
  h1 = h1
  h2 = h2
  s1 = s1
  a = a
  b = b
  c1 = c1
  r1 = r1
  r2 = r2
  Handles = {h1, h2}
  Sessions = {s1}
  Owner <- MCOwner
  Files <- MCFiles
  FgCalls = {c1}
  BgRuns = {r1, r2}
  Caps <- MCCaps
  MaxAttempts = 2
  QueueMax = 2
  LedgerMax = 2
  NoticesMax = 1
  MaxTroubles = 1
SYMMETRY RunSymmetry
INVARIANTS
  NoJoinOfBackground
  NoInheritedPass
  JoinedRunIsLive
PROPERTIES
  VerdictStable
CHECK_DEADLOCK FALSE
