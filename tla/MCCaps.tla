------------------------------- MODULE MCCaps -------------------------------
(* The read caps on the two hosts: the plugin's store, and the files of    *)
(* the hook scripts.  A behaviour runs one of them.                        *)
EXTENDS SessionStore, HookCaps

CONSTANTS p, q, r, c1, s1, s2

VARIABLE host

mcvars == <<vars, hvars, host>>

Text(asks, n, reason, signals, broad, paths) ==
    [asks |-> asks, n |-> n, reason |-> reason, signals |-> signals, broad |-> broad,
     paths |-> paths]

\* An unjustified CAP:none in a lookup of one file, and a CAP:1 in a list of steps.
MCTexts == {Text("none", 0, FALSE, {"fast"}, FALSE, 1), Text("number", 1, FALSE, {"fast"}, TRUE, 1)}
MCAgentTier == [fast |-> "fast", medium |-> "medium", build |-> None]
MCTierCaps == [fast |-> 2, medium |-> 1]
MCLimits == [dispatches |-> 3, reads |-> 4, troubles |-> 1]

Scenario(tier, env, perTier, mode, faults) ==
    [tier |-> tier, env |-> env, perTier |-> perTier, mode |-> mode, cap |-> 2, faults |-> faults]

MCHookScenarios ==
    {Scenario("fast", Nil, "enforced", "advisory", {"die", "day"}),
     Scenario("fast", "1", Nil, "off", {"command"}),
     Scenario("fast", Nil, Nil, "enforced", {"command"}),
     Scenario("fast", "0", Nil, "enforced", {}),
     Scenario(Nil, Nil, Nil, "advisory", {"command", "die", "day"})}
MCHookLimits == [messages |-> 4, faults |-> 2]

Plain == Scenario("fast", Nil, Nil, "advisory", {})

Alike == Permutations({p, q, r}) \union Permutations(Slots)

CapsInit ==
    /\ Init
    /\ \/ host = "plugin" /\ config = Plain /\ HookState
       \/ host = "hooks" /\ HookInit

CapsNext ==
    \/ host = "plugin" /\ Next /\ UNCHANGED <<hvars, host>>
    \/ host = "hooks" /\ HookNext /\ UNCHANGED <<vars, host>>

CapsSpec == CapsInit /\ [][CapsNext]_mcvars
=============================================================================
