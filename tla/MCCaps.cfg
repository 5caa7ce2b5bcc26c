CONSTANTS
  p = p
  q = q
  r = r
  c1 = c1
  s1 = s1
  s2 = s2
  None = None
  Nil = Nil
  Sessions = {c1}
  AgentTier <- MCAgentTier
  TierCaps <- MCTierCaps
  Texts <- MCTexts
  Reads = {p, q}
  Limits <- MCLimits
  Slots = {s1, s2}
  Prints = {p, q, r}
  HookScenarios <- MCHookScenarios
  HookLimits <- MCHookLimits
SYMMETRY Alike
SPECIFICATION CapsSpec
INVARIANTS
  StoreFollowsSession
  AdviceIsTrue
  ReadsBounded
CHECK_DEADLOCK FALSE
