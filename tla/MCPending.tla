----------------------------- MODULE MCPending -----------------------------
EXTENDS Pending

CONSTANTS h1, h2, s1, a, b, c1, r1, r2

\* Two overlapping delegations of one session.
MCOwner == [h \in Handles |-> s1]
MCFiles == [h \in Handles |-> IF h = h1 THEN {a} ELSE {a, b}]
MCCaps == {<<2, 1>>, <<2, 2>>}

\* The background runs are interchangeable.
RunSymmetry == Permutations({r1, r2})
=============================================================================
