----------------------------- MODULE DispatchRules -----------------------------
(***************************************************************************)
(* The rules src/routing/wire/dispatch.ts applies around the engine: the   *)
(* work root of a role call, which verification will judge it, what a      *)
(* resume keeps of the dispatch it resumes, and where the decided rung is  *)
(* finally placed.  A dispatch record is [agent, model, variant, tier,     *)
(* facts, parent, decision, picked, verification].                          *)
(***************************************************************************)
EXTENDS Engine

NoRung == [model |-> NO_MODEL, variant |-> 0]

-----------------------------------------------------------------------------
(* Work roots.  Directories are names; `real` sends one to its real path,  *)
(* None when it does not resolve.                                          *)

\* parseWorktreeList: the worktrees `git worktree list` names, the prunable ones left out;
\* a failed or cut listing (gitWorktreeList) names none.
listedWorktrees(git) == IF git.ok THEN git.worktrees \ git.prunable ELSE {}

\* The asked root must be the session's directory or a listed worktree, and resolve.
resolveRoleWorkRoot(asked, sessionDirectory, git, real) ==
  LET want == IF asked = None THEN sessionDirectory ELSE asked
  IN  IF want \in {sessionDirectory} \cup listedWorktrees(git) THEN real[want] ELSE None

\* verificationScope: a cwd outside the work root leaves the gate nothing to judge.
roleGateOutsideWorkRoot(workRoot, cwdInside) == workRoot = None \/ ~cwdInside

roleVerificationRuns(gate, outside) ==
  ~gate.bypassed /\ ~outside /\ gate.mode # "off" /\ gate.require # "never"

roleRouterGate(gate, outside, deferred, acceptance) ==
  ~deferred /\ acceptance = "deterministic" /\ roleVerificationRuns(gate, outside)

\* detectionOf: an acceptance block with checks, with criteria only, or none.
detectionOf(block) ==
  CASE block = "checks" -> "deterministic" [] block = "criteria" -> "grader" [] OTHER -> "none"

-----------------------------------------------------------------------------
(* What a resume keeps                                                     *)

nextRoleTier(order, ceiling, current) ==
  LET at == At(order, current)
      top == At(order, ceiling)
  IN  IF at = 0 \/ top = 0 \/ at >= top THEN None ELSE order[at + 1]

\* resumeFactsOf: the class and confidence of the first dispatch, the higher risk and
\* scope, all the needs.
resumeFactsOf(original, current) ==
  [class |-> original.class, confidence |-> original.confidence,
   risk |-> highest(RISK_ORDER, current.risk, original.risk),
   scope |-> highest(SCOPE_ORDER, current.scope, original.scope),
   needs |-> original.needs \cup current.needs]

\* roleNeedsOf: a route line that names needs or a class narrows a dynamic role's needs.
roleNeedsOf(facts, line, role) ==
  IF role.mode = "fixed" \/ ~line.narrows THEN facts.needs
  ELSE facts.needs \cap (line.needs \cup (IF "network" \in line.needs THEN {"shell"} ELSE {}))

\* Mutated form: the actions being added are left out.
resumedGrantBound(bound, widened) == bound

\* resumedGrant: what the child is bound to and what is being added, with the bound root.
resumedGrant(bound, widened) ==
  [actions |-> IF bound.root = None THEN (bound.actions \cup widened) \ (WRITE \cup EXEC)
               ELSE bound.actions \cup widened,
   root |-> bound.root]

\* A tier off the order counts as the lowest.
higherTier(order, a, b) ==
  IF At(order, a) = 0 /\ At(order, b) = 0 THEN (IF a # None THEN a ELSE b)
  ELSE IF At(order, a) >= At(order, b) THEN a ELSE b

-----------------------------------------------------------------------------
(* Where the decided rung is placed                                        *)

\* placeCallerModel: the caller's model when the window holds it, else the window's end
\* nearest to it; a resume never goes below the rung it was decided on.
placeCallerModel(ladder, ref, decided, resumed) ==
  LET cands == ladder.candidates
      inside == SelectInSeq(cands, LAMBDA c : c.model = ref.model /\ ref.variant \in {0, c.variant})
      above == capabilityRank(ladder, ref, 0) > ladder.ceilingRank
      placed == IF inside > 0 THEN cands[inside]
                ELSE IF above THEN cands[roleCandidateAt(cands, Last(cands).rank)]
                ELSE Head(cands)
  IN  IF resumed /\ placed.rank < decided.rank THEN decided ELSE placed

\* placeInCatalog: a variant the host lacks is dropped when the bare model still reaches
\* the floor; else the next rung the host has; the empty sequence: the call is refused.
placeInCatalog(ladder, picked, missing) ==
  LET present(c) == c.variant = 0 \/ <<c.model, c.variant>> \notin missing
      bare == [picked EXCEPT !.variant = 0]
      bareRank == capabilityRank(ladder, [model |-> picked.model, variant |-> 0], 0)
      from == SelectInSeq(ladder.candidates, LAMBDA c : c = picked)
      rest == SelectSeq(SubSeq(ladder.candidates, from + 1, Len(ladder.candidates)),
                        LAMBDA c : present(c) /\ c.rank >= ladder.floorRank)
  IN  IF present(picked) THEN <<picked>>
      ELSE IF bareRank # 0 /\ bareRank >= ladder.floorRank
           THEN <<[bare EXCEPT !.rank = bareRank]>>
      ELSE IF rest # <<>> THEN <<Head(rest)>> ELSE <<>>

-----------------------------------------------------------------------------
(* A dispatch that names a tier or a host agent                            *)

Startable(cfg, id, needs) ==
  id \in {a \in DOMAIN cfg.agents : cfg.agents[a].usable /\ coversNeeds(cfg.agents[a].grants, needs)}

\* floorLift: a tier below floorTier goes to the floor's own agent, when that may start.
floorLift(cfg, chosen, needs) ==
  LET floor == floorRankOf(cfg)
      rank == tierRankOf(cfg, chosen.agent)
      to == IF floor = 0 THEN None ELSE escalateLadder(cfg)[floor]
  IN  IF floor # 0 /\ rank # 0 /\ rank < floor /\ Startable(cfg, to, needs)
      THEN resolveChosen(cfg, to, NoRung, NO_MODEL) ELSE chosen

\* runningRefusal: the child the router moved is not followed where its agent may not do the
\* work, or a high risk nobody checks would move below the named pick.
runningRefused(cfg, ladder, running, named, namedRank, facts, detection) ==
  LET pickRank == capabilityRank(ladder, named, namedRank)
      runRank == capabilityRank(ladder, running, 0)
  IN  \/ ~Startable(cfg, running.agent, facts.needs)
      \/ /\ facts.risk = "high" /\ detection = "none"
         /\ \/ pickRank = 0 \/ runRank = 0 \/ runRank < pickRank
            \/ runRank = pickRank /\ lowerEffortOnSameModel(running, named)

\* followRunning: the resumed child was moved by the router and may be followed there.
followed(cfg, call, ladder, record, chosen, pickRank, facts, detection) ==
  /\ record # <<>>
  /\ LET r == Head(record)
     IN  /\ r.picked = call.agent /\ r.agent # call.agent /\ r.model # NO_MODEL
         /\ ~runningRefused(cfg, ladder, r, chosen, pickRank, facts, detection)

SameDispatch(d) == [agent |-> d.agent, model |-> d.model, variant |-> d.variant]

\* Where the engine sends a dispatch whose model is known, d being its decision.
enforced(cfg, call, facts, detection, record, chosen, ladder, d) ==
  IF followed(cfg, call, ladder, record, chosen, d.pickRank, facts, detection)
  THEN SameDispatch(Head(record))
  ELSE IF call.child # None
       THEN (IF record # <<>> /\ (\A i \in DOMAIN record : record[i].agent # call.agent)
             THEN floorLift(cfg, chosen, facts.needs) ELSE chosen)
  ELSE IF d.switched THEN SameDispatch(ladder.candidates[d.best])
  ELSE floorLift(cfg, chosen, facts.needs)

sendTo(cfg, call, facts, detection, routing, store, record, chosen, ladder) ==
  IF routing.engine # "enforce" \/ call.pin \/ chosen.model = NO_MODEL THEN chosen
  ELSE enforced(cfg, call, facts, detection, record, chosen, ladder,
                decide([facts |-> facts, chosen |-> chosen, ladder |-> ladder,
                        detection |-> detection, pin |-> call.pin, routing |-> routing,
                        store |-> store, floorRank |-> floorRankOf(cfg)]))

\* decideAndRecord: what a call that names agent `call.agent` is sent to.  `record` is the
\* resumed child's dispatch record (a sequence of none or one) of the same parent.
decideAndRecord(cfg, call, facts, detection, routing, store, record, parentModel) ==
  sendTo(cfg, call, facts, detection, routing, store, record,
         resolveChosen(cfg, call.agent, [model |-> call.model, variant |-> call.variant], parentModel),
         buildLadder(cfg, facts, parentModel))

=============================================================================
