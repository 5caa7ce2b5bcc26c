-------------------------------- MODULE Engine --------------------------------
(***************************************************************************)
(* The routing engine's pure core: the ladders a decision is taken on      *)
(* (src/routing/engine/ladders.ts), the runner they are priced by          *)
(* (simulate.ts) and the decision itself (kernel.ts).                      *)
(*                                                                         *)
(* cfg is a record: ladder (the escalate ladder), preset (the tiers of the *)
(* active preset, cheapest first), tiers (tier -> [model, variant, effort, *)
(* rungs], a rung being [model, variant, cost]), floorTier, perTier,       *)
(* maxTotal and costMultiple (the escalate policy; 0: no cost ceiling),    *)
(* hosts (class -> host agents offered for it) and agents (id -> [usable,  *)
(* grants, model, variant]).  A variant is its place in HOST_EFFORT_ORDER, *)
(* 0 for the bare model.  Costs are ratios, success and detection are      *)
(* percentages and a cascade's value is rounded down to a hundredth; the   *)
(* dollar unit, the variant steps of the runner (module Delegation) and    *)
(* the wording of reasons are left out.                                    *)
(***************************************************************************)
EXTENDS RolePolicy

HIGH == 5                    \* the place of "high" in HOST_EFFORT_ORDER, counted from 1
NO_MODEL == "no-model"

SameRung(a, b) == a.model = b.model /\ a.variant = b.variant

-----------------------------------------------------------------------------
(* Ladders                                                                 *)

\* Each tier once, and only the tiers that have a rung.
ladderOf(cfg, raw) ==
  FoldLeft(LAMBDA out, t :
             IF Contains(out, t) \/ t \notin DOMAIN cfg.tiers THEN out
             ELSE IF cfg.tiers[t].rungs = <<>> THEN out ELSE Append(out, t),
           <<>>, raw)

escalateLadder(cfg) == ladderOf(cfg, cfg.ladder)
tierRankOf(cfg, tier) == At(escalateLadder(cfg), tier)
floorRankOf(cfg) == tierRankOf(cfg, cfg.floorTier)
roleTierOrder(cfg) == ladderOf(cfg, cfg.preset)

CLASS_STATIC_TIER ==
  [c \in {"search", "recon", "mechanical", "implement", "review", "debug", "design", "other"} |->
     CASE c \in {"search", "recon", "mechanical"} -> "fast"
       [] c \in {"implement", "review", "debug"} -> "medium"
       [] c = "design" -> "heavy"
       [] c = "other" -> None]

coversNeeds(grants, needs) == needs \subseteq grants

\* An agent that may not take a dispatch: reserved, a tier of the router, hidden or unknown.
roleAgentExclusion(cfg, id) ==
  \/ id \in DOMAIN cfg.tiers \cup {"build", "plan", "title", "summary", "compaction"}
  \/ id \notin {a \in DOMAIN cfg.agents : cfg.agents[a].usable}

\* variantCovered: the bare model may be anything up to high.
variantCovered(base, reached) ==
  base = reached \/ (reached # 0 /\ (IF base = 0 THEN HIGH ELSE base) <= reached)

\* After k failed, r (the same model, no more effort) is not worth an attempt.
skippedAfter(cfg, k, r) ==
  /\ r.model = k.model
  /\ ~cfg.tiers[k.tier].effort /\ ~cfg.tiers[r.tier].effort
  /\ variantCovered(r.variant, k.variant)

\* The rung the runner starts a tier on: the tier's own model and variant.
tierBaseRung(cfg, tier) ==
  LET t == cfg.tiers[tier]
      own == SelectInSeq(t.rungs, LAMBDA r : SameRung(r, t))
  IN  [tier |-> tier, model |-> t.model, variant |-> t.variant,
       cost |-> t.rungs[Larger(own, 1)].cost]

\* Only the rungs of the tier's own model are candidates.
modelledRungs(cfg, tier) ==
  SelectSeq(cfg.tiers[tier].rungs, LAMBDA r : r.model = cfg.tiers[tier].model)

-----------------------------------------------------------------------------
(* The runner: the attempts it would make if each one failed               *)

\* The attempts of `upcoming` the policy still pays for after `done`.
walk(policy, done, upcoming) ==
  LET Spent(n) == FoldLeft(LAMBDA sum, r : sum + r.cost, 0, done \o SubSeq(upcoming, 1, n))
      First == IF done # <<>> THEN Head(done).cost ELSE Head(upcoming).cost
      Allowed(n) == \/ done = <<>> /\ n = 0
                    \/ /\ Len(done) + n < policy.maxTotal
                       /\ policy.costMultiple = 0 \/ Spent(n) <= First * policy.costMultiple
      stop == {n \in 0..(Len(upcoming) - 1) : ~Allowed(n)}
  IN  IF stop = {} THEN upcoming
      ELSE SubSeq(upcoming, 1, CHOOSE n \in stop : \A m \in stop : n <= m)

\* The base rungs of the tiers above `tier`, each with its plain retries.
BaseRungsAbove(policy, cfg, tier) ==
  FlattenSeq([i \in 1..(Len(policy.ladder) - At(policy.ladder, tier)) |->
    [j \in 1..(1 + policy.perTier) |->
       tierBaseRung(cfg, policy.ladder[At(policy.ladder, tier) + i])]])

\* From `start`, lifted to the policy's floor: its retries, then the tiers above.
simulateRunner(policy, cfg, start) ==
  LET at == Larger(Larger(At(policy.ladder, start.tier), 1), At(policy.ladder, policy.floorTier))
      tier == policy.ladder[at]
      base == tierBaseRung(cfg, tier)
      first == IF tier = start.tier THEN start ELSE base
      retry == [first EXCEPT !.cost = base.cost]
  IN  walk(policy, <<>>, <<first>> \o [j \in 1..policy.perTier |-> retry]
                         \o BaseRungsAbove(policy, cfg, tier))

\* After a host agent's own attempts at `tier`: no retry, only the tiers above.
simulateAfter(policy, cfg, tier, attempts) ==
  walk(policy, attempts, BaseRungsAbove(policy, cfg, tier))

-----------------------------------------------------------------------------
(* The ladder of a tier dispatch                                           *)

Candidate(agent, rung, tier, rank, grants) ==
  [agent |-> agent, model |-> rung.model, variant |-> rung.variant, cost |-> rung.cost,
   tier |-> tier, rank |-> rank, grants |-> grants]

\* indexOfRung: an attempt is the candidate on its tier and rung, else a rung only reachable
\* by escalation.
Indexed(candidates, order, attempts) ==
  [i \in 1..Len(attempts) |->
     LET r == attempts[i]
         at == SelectInSeq(candidates, LAMBDA c : c.tier = r.tier /\ SameRung(c, r))
     IN  IF at > 0 THEN candidates[at] ELSE Candidate(r.tier, r, r.tier, At(order, r.tier), {})]

EscalatePolicy(cfg) ==
  [ladder |-> escalateLadder(cfg), floorTier |-> cfg.floorTier, perTier |-> cfg.perTier,
   maxTotal |-> cfg.maxTotal, costMultiple |-> cfg.costMultiple]

AgentGrants(cfg, id) == IF id \in DOMAIN cfg.agents THEN cfg.agents[id].grants ELSE {}

\* Every rung of every tier with its rank: what capability is measured by.
presetRungs(cfg, order) ==
  FlattenSeq([i \in 1..Len(order) |->
    [j \in 1..Len(cfg.tiers[order[i]].rungs) |->
       Candidate(order[i], cfg.tiers[order[i]].rungs[j], order[i], i, {})]])

\* The router's own candidates: a tier whose agent is hidden or denied has none.
routerCandidates(cfg, order) ==
  LET usable(t) == IF t \in DOMAIN cfg.agents THEN cfg.agents[t].usable ELSE TRUE
  IN  FlattenSeq([i \in 1..Len(order) |->
        LET kept == IF usable(order[i]) THEN modelledRungs(cfg, order[i]) ELSE <<>>
        IN  [j \in 1..Len(kept) |->
              Candidate(order[i], kept[j], order[i], i, AgentGrants(cfg, order[i]))]])

\* A host agent's candidates for the class's tier: its own model first, ranked down to the
\* preset rung it equals when that is a weaker one, then the tier's rungs.
hostChain(cfg, order, id, tier, parentModel) ==
  LET rank == At(order, tier)
      rungs == modelledRungs(cfg, tier)
      info == cfg.agents[id]
      ownModel == IF info.model # NO_MODEL THEN info.model ELSE parentModel
      all == presetRungs(cfg, order)
      match == SelectInSeq(all, LAMBDA r : r.model = ownModel /\ r.variant = info.variant)
      lowered == match > 0 /\ (IF match > 0 THEN all[match].rank < rank ELSE FALSE)
      own == [agent |-> id, model |-> ownModel, variant |-> info.variant,
              cost |-> IF match > 0 THEN all[match].cost ELSE Head(rungs).cost,
              tier |-> IF lowered THEN all[match].tier ELSE tier,
              rank |-> IF lowered THEN all[match].rank ELSE rank, grants |-> info.grants]
      rest == [j \in 1..Len(rungs) |-> Candidate(id, rungs[j], tier, rank, info.grants)]
  IN  IF ownModel = NO_MODEL THEN rest
      ELSE <<own>> \o SelectSeq(rest, LAMBDA r : ~SameRung(own, r))

\* The attempts of a chain from its n-th member on: each one not covered by the last made.
ChainFrom(cfg, chain, n) ==
  FoldLeft(LAMBDA made, r : IF skippedAfter(cfg, Last(made), r) THEN made ELSE Append(made, r),
           <<chain[n]>>, SubSeq(chain, n + 1, Len(chain)))

buildLadder(cfg, facts, parentModel) ==
  LET order == escalateLadder(cfg)
      policy == EscalatePolicy(cfg)
      tier == CLASS_STATIC_TIER[facts.class]
      routers == routerCandidates(cfg, order)
      offered == IF At(order, tier) = 0 \/ facts.class \notin DOMAIN cfg.hosts THEN <<>>
                 ELSE SelectSeq(cfg.hosts[facts.class], LAMBDA id :
                        IF roleAgentExclusion(cfg, id) THEN FALSE
                        ELSE coversNeeds(cfg.agents[id].grants, facts.needs))
      chains == [i \in 1..Len(offered) |-> hostChain(cfg, order, offered[i], tier, parentModel)]
      spent(chain, n) == LET m == ChainFrom(cfg, chain, n)
                         IN  [i \in 1..Len(m) |-> [m[i] EXCEPT !.tier = tier]]
  IN  [candidates |-> routers \o FlattenSeq(chains),
       paths |-> [k \in 1..Len(routers) |->
                    Indexed(routers, order, simulateRunner(policy, cfg, routers[k]))]
                 \o FlattenSeq([i \in 1..Len(chains) |-> [n \in 1..Len(chains[i]) |->
                      ChainFrom(cfg, chains[i], n)
                      \o Indexed(routers, order, simulateAfter(policy, cfg, tier, spent(chains[i], n)))]]),
       classRank |-> At(order, tier),
       order |-> order,
       preset |-> presetRungs(cfg, order)]

-----------------------------------------------------------------------------
(* The ladder of a role dispatch                                           *)

\* The window's places on the order; a ceiling off the order or below the floor is the floor.
windowSpan(order, window) ==
  [floor |-> At(order, window.floor),
   ceiling |-> Larger(At(order, window.ceiling), At(order, window.floor))]

roleEscalatePolicy(cfg, window) ==
  LET order == roleTierOrder(cfg)
      span == windowSpan(order, window)
      ladder == SubSeq(order, span.floor, span.ceiling)
  IN  [ladder |-> ladder, floorTier |-> order[span.floor], perTier |-> 0,
       maxTotal |-> Len(ladder), costMultiple |-> 0]

\* The candidates of the window's tiers, each rung once, at its lowest tier.
roleCandidates(cfg, order, span, role, needs) ==
  FoldLeft(LAMBDA out, c : IF \E i \in DOMAIN out : SameRung(out[i], c) THEN out ELSE Append(out, c),
           <<>>,
           FlattenSeq([i \in 1..(span.ceiling - span.floor + 1) |->
             LET tier == order[span.floor + i - 1]
                 kept == modelledRungs(cfg, tier)
             IN  [j \in 1..Len(kept) |-> Candidate(role, kept[j], tier, span.floor + i - 1, needs)]]))

\* The first candidate of the first tier at or above rank that has one; else the last tier's
\* first candidate (0: there is none).
roleCandidateAt(candidates, rank) ==
  LET up == SelectInSeq(candidates, LAMBDA c : c.rank >= rank)
  IN  IF up > 0 \/ candidates = <<>> THEN up
      ELSE SelectInSeq(candidates, LAMBDA c : c.rank = Last(candidates).rank)

buildRoleLadder(cfg, role, class, needs, window) ==
  LET order == roleTierOrder(cfg)
      span == windowSpan(order, window)
      classRank == At(order, CLASS_STATIC_TIER[class])
      candidates == IF span.floor = 0 THEN <<>>
                    ELSE roleCandidates(cfg, order, span, role, needs)
      target == IF classRank = 0 THEN span.floor ELSE Clamp(classRank, span.floor, span.ceiling)
      pin == At(order, window.pinned)
  IN  [role |-> role, candidates |-> candidates,
       paths |-> [k \in 1..Len(candidates) |->
                    Indexed(candidates, order,
                            simulateRunner(roleEscalatePolicy(cfg, window), cfg, candidates[k]))],
       classRank |-> classRank, floorRank |-> span.floor, ceilingRank |-> span.ceiling,
       staticDefault |-> roleCandidateAt(candidates, target),
       pinnedIndex |-> IF pin = 0 THEN 0
                       ELSE roleCandidateAt(candidates, Clamp(pin, span.floor, span.ceiling)),
       order |-> order,
       preset |-> presetRungs(cfg, order)]

\* resolveChosen: the model the caller's dispatch would run on as written.
resolveChosen(cfg, agent, call, parentModel) ==
  CASE call.model # NO_MODEL -> [agent |-> agent, model |-> call.model, variant |-> call.variant]
    [] call.model = NO_MODEL /\ agent \in DOMAIN cfg.tiers ->
         [agent |-> agent, model |-> cfg.tiers[agent].model, variant |-> cfg.tiers[agent].variant]
    [] OTHER ->
         LET own == IF agent \in DOMAIN cfg.agents THEN cfg.agents[agent].model ELSE NO_MODEL
         IN  [agent |-> agent, model |-> IF own # NO_MODEL THEN own ELSE parentModel,
              variant |-> IF own # NO_MODEL THEN cfg.agents[agent].variant ELSE 0]

-----------------------------------------------------------------------------
(* The decision                                                            *)

GIVE_UP_COST ==
  [frugal   |-> [low |-> 3, medium |-> 8, high |-> 20],
   balanced |-> [low |-> 5, medium |-> 15, high |-> 40],
   safe     |-> [low |-> 10, medium |-> 30, high |-> 100]]
giveUpCost(profile, risk) == GIVE_UP_COST[profile][risk]

MIN_EVIDENCE_TO_SWITCH_DOWN == 5
hasMinEvidence(n) == n >= MIN_EVIDENCE_TO_SWITCH_DOWN

\* priorForRankOffset: 80% at the class's own rank, 5 more per rank above, 25 fewer below.
priorForRankOffset(o) == IF o >= 0 THEN Clamp(80 + 5 * o, 0, 95) ELSE Larger(30, 80 + 25 * o)

\* The strongest rank the preset gives this rung (else its model), and at least the
\* candidate's own rank; 0 when neither is known.
capabilityRank(ladder, dispatch, candidateRank) ==
  LET of(S) == {ladder.preset[i].rank : i \in S}
      exact == of({i \in DOMAIN ladder.preset : SameRung(ladder.preset[i], dispatch)})
      model == of({i \in DOMAIN ladder.preset : ladder.preset[i].model = dispatch.model})
      ranks == (IF exact # {} THEN exact ELSE model) \cup {candidateRank}
  IN  CHOOSE r \in ranks : \A s \in ranks : s <= r

variantPosition(v) == IF v = 0 THEN 2 * HIGH - 1 ELSE 2 * v

lowerEffortOnSameModel(candidate, pick) ==
  /\ candidate.model = pick.model
  /\ variantPosition(candidate.variant) < variantPosition(pick.variant)

rungAbove(a, b) == a.rank > b.rank \/ (a.rank = b.rank /\ lowerEffortOnSameModel(b, a))

\* How likely an attempt on rung r succeeds: recorded outcomes when the class is trusted.
successOf(store, trusted, referenceRank, r) ==
  LET key == <<r.model, r.variant>>
  IN  IF trusted /\ key \in DOMAIN store THEN store[key].mean
      ELSE priorForRankOffset(r.rank - referenceRank)

evidenceOf(store, trusted, r) ==
  LET key == <<r.model, r.variant>>
  IN  IF trusted /\ key \in DOMAIN store THEN store[key].n ELSE 0

\* What starting on a path costs in all, in hundredths: each attempt costs its ratio and
\* fails with 1 - p; a failure is seen with d (then the next attempt follows) or costs U.
cascade(path, d, U, success(_)) ==
  FoldRight(LAMBDA r, after :
              100 * r.cost + ((100 - success(r)) * ((d * after + (100 - d) * U) \div 100)) \div 100,
            path, U)

\* The attempts of a path before the first that cannot be priced.
PricedPrefix(path) ==
  LET bad == SelectInSeq(path, LAMBDA r : r.cost <= 0)
  IN  IF bad = 0 THEN path ELSE SubSeq(path, 1, bad - 1)

\* May candidate c replace the pick at all?  A high risk nobody checks never moves down.
eligible(c, facts, detection, floorRank, pickRank, chosen) ==
  /\ coversNeeds(c.grants, facts.needs)
  /\ c.rank >= floorRank
  /\ ~(/\ facts.risk = "high" /\ detection = "none" /\ pickRank # 0
       /\ \/ c.rank < pickRank
          \/ c.rank = pickRank /\ lowerEffortOnSameModel(c, chosen))

Key(c) == <<c.agent, c.model, c.variant>>

\* The cascade of every candidate that can be priced; a class that is not trusted is
\* measured from the chosen dispatch's own rank.
cascades(in, trusted, chosenRank) ==
  LET l == in.ladder
      reference == IF trusted THEN (IF l.classRank # 0 THEN l.classRank ELSE Larger(chosenRank, 1))
                   ELSE (IF chosenRank # 0 THEN chosenRank ELSE Larger(l.classRank, 1))
      usable == {k \in DOMAIN l.candidates :
                   l.candidates[k].cost > 0 /\ PricedPrefix(l.paths[k]) # <<>>}
  IN  [k \in usable |->
         cascade(PricedPrefix(l.paths[k]), in.routing.detection[in.detection],
                 100 * giveUpCost(in.routing.profile, in.facts.risk),
                 LAMBDA r : successOf(in.store, trusted, reference, r))]

\* The candidates that may replace the chosen dispatch, and of them those that move up or
\* have evidence of their own.
free(in, pickRank, C) ==
  {k \in DOMAIN C : /\ Key(in.ladder.candidates[k]) # Key(in.chosen)
                    /\ eligible(in.ladder.candidates[k], in.facts, in.detection, in.floorRank,
                                pickRank, in.chosen)}

proven(in, trusted, pickRank, S) ==
  {k \in S : LET c == in.ladder.candidates[k]
             IN  \/ hasMinEvidence(evidenceOf(in.store, trusted, c))
                 \/ /\ pickRank # 0 /\ c.rank > pickRank
                    /\ capabilityRank(in.ladder, c, 0) > pickRank}

\* The cheapest of S and the chosen dispatch, the first one of several (0: none is priced).
cheapest(in, C, at, S) ==
  FoldLeft(LAMBDA b, k : IF k \notin S THEN b
                         ELSE IF b = 0 THEN k
                         ELSE IF C[k] < C[b] THEN k ELSE b,
           IF at \in DOMAIN C THEN at ELSE 0, [k \in DOMAIN in.ladder.candidates |-> k])

\* The margin rule: `best` is the cheapest proven candidate, `argmin` the cheapest of all.
settle(in, trusted, at, C, best, argmin) ==
  LET gated == best # 0 /\ best = at /\ argmin # at
      deciding == IF gated THEN argmin ELSE best
  IN  CASE best = 0 -> "kept:no-candidates"
        [] best # 0 /\ in.pin -> "kept:pinned"
        [] best # 0 /\ ~in.pin /\ at \notin DOMAIN C -> "kept:chosen-not-candidate"
        [] best # 0 /\ ~in.pin /\ at \in DOMAIN C /\ best = at /\ ~gated -> "kept:best-is-chosen"
        [] OTHER -> IF ~trusted THEN "kept:class-confidence"
                    ELSE IF 100 * C[deciding] >= (100 - in.routing.margin) * C[at] THEN "kept:margin"
                    ELSE IF gated THEN "kept:evidence" ELSE "switched"

decision(in, trusted, at, pickRank, C, best, argmin) ==
  [best |-> best, pickRank |-> pickRank,
   switched |-> settle(in, trusted, at, C, best, argmin) = "switched"]

weigh(in, trusted, at, pickRank, C, S) ==
  decision(in, trusted, at, pickRank, C, cheapest(in, C, at, proven(in, trusted, pickRank, S)),
           cheapest(in, C, at, S))

compare(in, trusted, at, pickRank, C) ==
  weigh(in, trusted, at, pickRank, C, free(in, pickRank, C))

\* decide: keep the chosen dispatch or switch to the cheapest eligible candidate, when the
\* class is trusted, the margin is beaten, and a move that is not up has evidence.
decide(in) ==
  LET at == SelectInSeq(in.ladder.candidates, LAMBDA c : Key(c) = Key(in.chosen))
      trusted == in.facts.confidence >= in.routing.minConfidence
      chosenRank == IF at > 0 THEN in.ladder.candidates[at].rank ELSE 0
  IN  compare(in, trusted, at,
              IF at > 0 THEN capabilityRank(in.ladder, in.chosen, chosenRank) ELSE 0,
              cascades(in, trusted, chosenRank))

MAX_EXPLORATION_RATE == 20
explorationRate(rate) == Clamp(rate, 0, MAX_EXPLORATION_RATE)

\* Where a resume starts: the running rung when it is above the window's own choice; a rung
\* off the window lifts it to its rank (an unknown rung to the ceiling).
resumeBase(ladder, base, resume) ==
  LET cands == ladder.candidates
      at == SelectInSeq(cands, LAMBDA c : SameRung(c, resume))
      rank == capabilityRank(ladder, resume, 0)
      lifted == roleCandidateAt(cands, IF rank = 0 THEN ladder.ceilingRank ELSE rank)
  IN  IF at > 0 THEN (IF rungAbove(cands[at], cands[base]) THEN at ELSE base)
      ELSE IF cands[lifted].rank > cands[base].rank THEN lifted ELSE base

\* The candidates an exploration may draw: below the default, on a checked dispatch of no
\* high risk.  A resume and a pin never explore.
explorable(in) ==
  LET l == in.ladder
  IN  IF /\ in.routing.engine = "enforce" /\ explorationRate(in.routing.exploration) > 0
         /\ l.pinnedIndex = 0 /\ in.resume.model = NO_MODEL
         /\ in.facts.risk # "high" /\ in.detection = "deterministic"
      THEN {k \in DOMAIN l.candidates : /\ l.candidates[k].rank >= l.floorRank
                                        /\ rungAbove(l.candidates[l.staticDefault], l.candidates[k])}
      ELSE {}

SwitchedFrom(base, d) == IF d.switched THEN d.best ELSE base

\* The dispatch the engine exploits from `base`; a resume stays on it.
exploit(in, base) ==
  IF in.routing.engine # "enforce" \/ in.resume.model # NO_MODEL THEN base
  ELSE SwitchedFrom(base,
         decide([facts |-> in.facts, chosen |-> in.ladder.candidates[base], ladder |-> in.ladder,
                 detection |-> in.detection, pin |-> in.ladder.pinnedIndex # 0,
                 routing |-> in.routing, store |-> in.store, floorRank |-> in.ladder.floorRank]))

\* decideRole, as the set of the dispatches (candidate indexes) it may come to: the seeded
\* draw of an exploration is a choice.
decideRole(in) ==
  LET own == IF in.ladder.pinnedIndex # 0 THEN in.ladder.pinnedIndex ELSE in.ladder.staticDefault
  IN  IF own = 0 THEN {}
      ELSE {exploit(in, IF in.resume.model # NO_MODEL THEN resumeBase(in.ladder, own, in.resume)
                        ELSE own)} \cup explorable(in)

=============================================================================
