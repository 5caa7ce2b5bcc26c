---------------------------- MODULE MCDelegation ----------------------------
EXTENDS Delegation

\* Tiers of two models: catalog ladders, a candidate ladder that skips a rank,
\* an empty one; bases that are the default, ranked or unranked; a tier on the
\* effort path with an effort bump, and one the catalog does not know.
MCTier(m, b, l) == [model |-> m, info |-> TRUE, effortConfigured |-> FALSE,
                    base |-> b, ladder |-> l, bump |-> 0]
MCTiers ==
  {MCTier("m1", b, 1..5) : b \in {Default, 1, 2}}
    \cup {MCTier("m1", Odd, {}), MCTier("m1", 1, {1, 4}), MCTier("m2", 1, {2, 3}), MCTier("m2", 3, {})}
    \cup {[MCTier("m1", Default, {}) EXCEPT !.effortConfigured = TRUE, !.bump = 1],
          [MCTier("m1", 2, {}) EXCEPT !.info = FALSE]}

MCLimits == {<<5, 1, 0>>, <<3, 0, 0>>, <<5, 1, 3>>}  \* total, per tier, cost multiple

MCPolicies ==
  {[aware |-> TRUE, tiers |-> t, producer |-> 0, floor |-> 0,
    maxAttemptsPerTier |-> l[2], maxTotalAttempts |-> l[1], costMultiple |-> l[3]] :
     t \in [1..N -> MCTiers], l \in MCLimits}
  \cup
  {[aware |-> FALSE, tiers |-> [i \in 1..N |-> CHOOSE t \in MCTiers : t.bump = b],
    producer |-> p, floor |-> f,
    maxAttemptsPerTier |-> 1, maxTotalAttempts |-> 4, costMultiple |-> 4] :
     p \in 0..2, f \in 0..2, b \in {0, 1}}
=============================================================================
