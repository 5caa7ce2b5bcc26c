-------------------------------- MODULE MCRoles --------------------------------
(***************************************************************************)
(* The scenarios Roles is checked on: each isolates one way in which       *)
(* dispatches of roles mode meet.  Two tiers share a model, so that a      *)
(* variant decides the rank.                                               *)
(***************************************************************************)
EXTENDS Roles

Rung(m, v, c) == [model |-> m, variant |-> v, cost |-> c]
Tier(m, v, rungs) == [model |-> m, variant |-> v, effort |-> FALSE, rungs |-> rungs]

Config ==
  [ladder |-> <<"fast", "medium", "heavy">>, preset |-> <<"fast", "medium", "heavy">>,
   tiers |-> [fast |-> Tier("s", 0, <<Rung("s", 0, 1)>>),
              medium |-> Tier("m", 0, <<Rung("m", 0, 3), Rung("m", 5, 4)>>),
              heavy |-> Tier("m", 6, <<Rung("m", 6, 6), Rung("m", 7, 8)>>)],
   floorTier |-> None, perTier |-> 0, maxTotal |-> 3, costMultiple |-> 0,
   hosts |-> <<>>,
   agents |-> [t \in {"fast", "medium", "heavy"} |->
                 [usable |-> TRUE, grants |-> {"edit", "shell", "network"}, model |-> NO_MODEL, variant |-> 0]]]

Role(kind, mode, allow) ==
  [kind |-> kind, mode |-> mode, allow |-> allow, deny |-> {}, floor |-> "fast", ceiling |-> "heavy",
   guard |-> "producer", budget |-> [fast |-> 2, medium |-> 2, heavy |-> 2]]

RoleTable == [impl |-> Role("implement", "dynamic", {"read", "edit", "run"}),
              rev |-> Role("review", "dynamic", {"read", "run", "web"}),
              fixer |-> Role("implement", "fixed", {"read", "edit", "run"})]

Facts(class, risk, needs) ==
  [class |-> class, risk |-> risk, scope |-> "single", needs |-> needs, confidence |-> 90]

Fresh ==
  [parent |-> "main", agent |-> "impl", child |-> None, delegate |-> FALSE, root |-> None,
   facts |-> Facts("implement", "low", {"edit"}), claimed |-> [risk |-> "low", scope |-> "single"],
   line |-> [narrows |-> FALSE, needs |-> {}], block |-> "none", claim |-> None, deferred |-> FALSE,
   cwdInside |-> TRUE, judged |-> "kept", pinTier |-> None, model |-> NO_MODEL, variant |-> 0,
   pin |-> FALSE, routeBudget |-> 0, markers |-> {"title", "prompt"}]
Resume(c) == [Fresh EXCEPT !.child = c]

Edit == <<"edit", <<"repo", "f">>>>
EditWt == <<"edit", <<"wt", "f">>>>
EditLink == <<"edit", <<"repo", "link", "f">>>>
EditGit == <<"edit", <<"repo", ".git", "x">>>>
Read == <<"read", <<"repo", "f">>>>
Run == <<"run", <<>>>>
Web == <<"web", <<>>>>
External == <<"external", <<"wt", "f">>>>

Base ==
  [cfg |-> Config, roles |-> RoleTable, parents |-> {"main"}, directory |-> "repo",
   git |-> [ok |-> TRUE, worktrees |-> {"wt"}, prunable |-> {}],
   real |-> [d \in {"repo", "wt"} |-> d], rootPath |-> [repo |-> <<"repo">>, wt |-> <<"wt">>],
   exist |-> {<<"repo">>, <<"wt">>}, links |-> (<<"repo", "link">> :> <<"wt">>),
   gate |-> [bypassed |-> FALSE, mode |-> "enforced", require |-> "auto"],
   routing |-> [minConfidence |-> 50, margin |-> 10,
                detection |-> [none |-> 0, grader |-> 60, deterministic |-> 95],
                profile |-> "balanced", engine |-> "enforce", exploration |-> 0],
   store |-> <<>>, missing |-> {}, parentModel |-> "m",
   guard |-> [mode |-> "off", readDraftCap |-> 3, blockSelfScript |-> TRUE, signal |-> FALSE,
              trivialBypass |-> TRUE],
   parallel |-> 1, most |-> 7, acts |-> {Edit, EditWt, Run}, asks |-> {}, faults |-> {},
   calls |-> <<>>, steps |-> <<>>]

\* Two dispatches of one role at once, in two work roots; markers get lost, a child is forked.
Parallel ==
  {[Base EXCEPT !.calls = [a |-> [Fresh EXCEPT !.root = "wt", !.markers = ma, !.block = "checks"],
                           b |-> [Fresh EXCEPT !.markers = mb, !.facts.needs = {"edit", "shell"}]],
                !.steps = <<{"a", "b"}>>, !.acts = {Edit, EditWt, EditLink, EditGit, Run, External},
                !.faults = f] :
     ma \in {{"title", "prompt"}, {"prompt"}}, mb \in {{"title"}, {}},
     f \in {{"fork"}, {"expire", "noContext"}}}

\* The same with results that never come, and a resume of what is left.
Aborted ==
  {[Base EXCEPT !.calls = [a |-> [Fresh EXCEPT !.markers = {"prompt"}],
                           b |-> [Fresh EXCEPT !.markers = mb],
                           c |-> [Resume("a") EXCEPT !.block = "checks"]],
                !.steps = <<{"a", "b"}, {"c"}>>, !.acts = {Edit}, !.faults = f] :
     mb \in {{"title", "prompt"}, {}}, f \in {{"abort"}, {"hostFail"}}}

\* A narrow child asks for more and is resumed, once with the request and once without.
Widening ==
  {[Base EXCEPT !.calls = [a |-> [Fresh EXCEPT !.agent = r, !.facts = Facts("review", "low", {}),
                                               !.block = blk],
                           b |-> [Resume("a") EXCEPT !.agent = r, !.parent = pb,
                                               !.facts = Facts("review", rb, {})],
                           c |-> [Resume("a") EXCEPT !.agent = r, !.block = blk]],
                !.parents = {"main", "other"},
                !.steps = <<{"a"}, {"b"}, {"c"}>>, !.asks = {{"run"}, {"web", "edit"}},
                !.acts = {Edit, Run, Web}, !.faults = f] :
     r \in {"impl", "rev"}, pb \in {"main", "other"}, blk \in {"none", "checks"},
     rb \in {"low", "high"}, f \in {{"reject"}, {"refuse", "verdict"}}}

\* Failed verifications raise the child, hosts reject resumes, models are missing.
Raised ==
  {[Base EXCEPT !.calls = [a |-> [Fresh EXCEPT !.block = ba, !.judged = j],
                           b |-> [Resume("a") EXCEPT !.facts = Facts("debug", "high", {"shell"})],
                           c |-> [Resume("a") EXCEPT !.block = bc]],
                !.steps = <<{"a"}, {"b"}, {"c"}>>, !.missing = m, !.faults = f,
                !.gate.mode = g, !.cfg.floorTier = fl] :
     ba \in {"criteria", "checks"}, j \in {"kept", "unavailable"}, bc \in {"none", "criteria"},
     m \in {{}, {<<"m", 6>>}, {<<"m", 6>>, <<"m", 7>>}}, f \in {{"hostFail", "verdict"}, {"abort", "verdict"}}, g \in {"enforced", "off"},
     fl \in {None, "medium"}}

\* The caller names a model or pins a tier.
Named ==
  {[Base EXCEPT !.calls = [a |-> [Fresh EXCEPT !.agent = r, !.model = m, !.variant = v, !.pinTier = p,
                                               !.claimed = [risk |-> ri, scope |-> "multi"]],
                           b |-> [Resume("a") EXCEPT !.agent = r, !.model = "s"]],
                !.steps = <<{"a"}, {"b"}>>, !.acts = {Edit, Run}, !.routing.exploration = 10,
                !.store = (<<"m", 0>> :> [mean |-> 40, n |-> 9])] :
     r \in {"impl", "fixer"}, m \in {NO_MODEL, "s", "m"}, v \in {0, 6}, p \in {None, "fast", "heavy"},
     ri \in {"low", "high"}}

\* Sessions are deleted under the hooks.
Deleted ==
  {[Base EXCEPT !.calls = [a |-> Fresh, b |-> Resume("a")], !.steps = <<{"a"}, {"b"}>>,
                !.asks = {{"run"}}, !.acts = {Edit, Run}, !.faults = {"delete", "fail"}]}

\* The budget of a child and of its resume, with parallel tool calls.
Budgets ==
  {[Base EXCEPT !.calls = [a |-> [Fresh EXCEPT !.routeBudget = n], b |-> Resume("a")],
                !.steps = <<{"a"}, {"b"}>>, !.acts = {Edit, EditWt, Read}, !.parallel = 2,
                !.guard.mode = m, !.guard.signal = s] :
     n \in {0, 3}, m \in {"enforced", "advisory"}, s \in BOOLEAN}

\* Calls that name a tier, and a subagent's own dispatch.
Tiers ==
  {[Base EXCEPT !.calls = [a |-> [Fresh EXCEPT !.agent = "fast", !.facts = Facts("implement", "high", {"edit"}),
                                               !.markers = {}],
                           b |-> [Fresh EXCEPT !.agent = t, !.markers = {}],
                           c |-> [Resume("a") EXCEPT !.agent = "fast"],
                           d |-> [Fresh EXCEPT !.parent = "a", !.delegate = TRUE, !.markers = {"title"}]],
                !.parents = {"main", "a"},
                !.steps = <<{"a", "b"}, {"c"}, {"d"}>>, !.faults = {"hostFail"}, !.acts = {Edit, Read},
                !.routing.engine = e, !.cfg.floorTier = fl, !.store = st,
                !.missing = IF fl = "heavy" THEN {<<"m", 6>>, <<"m", 7>>} ELSE {},
                !.cfg.hosts = [implement |-> <<"helper">>],
                !.cfg.agents = ("helper" :> [usable |-> TRUE, grants |-> {"edit"}, model |-> hm,
                                             variant |-> 0]) @@ @] :
     t \in {"fast", "medium"}, e \in {"enforce", "shadow", "static"}, hm \in {"s", NO_MODEL},
     fl \in {None, "medium", "heavy"}, st \in {<<>>, (<<"s", 0>> :> [mean |-> 95, n |-> 9])}}

MCScenarios ==
  Parallel \cup Aborted \cup Widening \cup Raised \cup Named \cup Deleted \cup Budgets \cup Tiers

\* In every scenario no two resumes of a child overlap.
ASSUME OrchestratorsAssumption == ResumesApart
=============================================================================
