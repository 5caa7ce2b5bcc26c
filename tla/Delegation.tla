------------------------------ MODULE Delegation ------------------------------
(***************************************************************************)
(* The `delegate` tool: the loop of src/index.ts that runs a task on child *)
(* sessions until the gate accepts a result, with the escalation ladder of *)
(* src/escalate/ladder.ts (nextAction, advance), the variant algebra of    *)
(* src/escalate/variants.ts and the attempt plans of src/escalate/         *)
(* resume.ts.  One delegation; its host calls and its verdicts are inputs. *)
(*                                                                         *)
(* Tiers are named by their place on the ladder.  A variant is its rank in *)
(* HOST_EFFORT_ORDER; Default stands for the bare model, Odd for an id the *)
(* order does not know.  A variant ladder is strictly rising, so it is the *)
(* set of its ranks.  Prompts, budgets and token counts are reduced to the *)
(* verdicts the code takes from them.                                      *)
(***************************************************************************)
EXTENDS Integers, FiniteSets

CONSTANTS
  N,            \* tiers on the ladder
  Models,
  MaxRank, High,  \* ranks are 1..MaxRank; the rank of "high"
  Policies,     \* the configurations a delegation may run under
  Costs         \* what an attempt may cost

None == -1
Default == 0
Odd == MaxRank + 1
Ranks == 1..MaxRank
Variants == {Default, Odd} \cup Ranks
Ladder == 1..N

Tier == [model : Models, info : BOOLEAN, effortConfigured : BOOLEAN,
         base : Variants, ladder : SUBSET Ranks, bump : Nat]
Policy == [aware : BOOLEAN, tiers : [Ladder -> Tier], producer : 0..N, floor : 0..N,
           maxAttemptsPerTier : Nat, maxTotalAttempts : Nat, costMultiple : Nat]

ASSUME DelegationAssumption ==
  /\ N \in Nat \ {0}
  /\ MaxRank \in Nat /\ High \in Ranks
  /\ Policies \subseteq Policy
  /\ \A p \in Policies, i \in Ladder :  \* one effort delivery per tier (buildVariantPolicy)
       p.tiers[i].effortConfigured => p.tiers[i].ladder = {}
  /\ Costs \subseteq Nat \ {0}

VARIABLES
  policy,
  tier, attempts, total, escalations,  \* LadderState
  first, cost,                         \* firstAttemptCost (0: null), cumulativeCost
  variant, effort, tried,              \* currentVariant, currentEffort, triedByModel
  plan,                                \* the AttemptPlan to run
  phase,                               \* "ready", "ran" or "over"
  end,                                 \* how execute() returned
  child, producerFailed,               \* this attempt's session, and whether it failed
  sessions, made,                      \* live child sessions; how many were created
  mayDefer, root, known,               \* mode is not "required" yet; is the caller a root, is it known?
  visited, failed, gated               \* history: tiers and rungs run, did a gate judge?

ladderVars == <<tier, attempts, total, escalations, first, cost, variant, effort, tried>>
sessionVars == <<child, producerFailed, sessions, made>>
deferVars == <<mayDefer, root, known>>
history == <<visited, failed, gated>>
vars == <<policy, ladderVars, plan, phase, end, sessionVars, deferVars, history>>

-----------------------------------------------------------------------------
(* variants.ts                                                             *)

SetMax(S) == CHOOSE n \in S : \A m \in S : m <= n
SetMin(S) == CHOOSE n \in S : \A m \in S : n <= m

\* variantRange: a ranked id is a point, the default may be anything up to high.
Lower(v) == v
Upper(v) == IF v = Default THEN High ELSE v

\* variantCovered: the tier's base adds nothing once `reached` was tried.
Covered(base, reached) ==
  \/ base = reached
  \/ base # Odd /\ reached # Odd /\ Upper(base) <= Lower(reached)

\* nextVariant: the first ladder entry above v; the default lies just below high.
Above(ladder, v) ==
  {r \in ladder : v # Odd /\ (IF v = Default THEN r >= High ELSE r > v)}
NextVariant(ladder, v) ==
  IF Above(ladder, v) = {} THEN None ELSE SetMin(Above(ladder, v))

\* raiseTried: keeps the rung with the higher guaranteed effort.
RaiseTried(t, m, v) ==
  IF t[m] # None /\ (v = Odd \/ (t[m] # Odd /\ Lower(v) <= Lower(t[m])))
  THEN t ELSE [t EXCEPT ![m] = v]

-----------------------------------------------------------------------------
(* ladder.ts                                                               *)

T(i) == policy.tiers[i]
\* ownTierInfo: only a session-aware policy has any.
Info(i) == policy.aware /\ T(i).info
Tracked(i) == Info(i) /\ ~T(i).effortConfigured

StartTier(p) == SetMax({1, p.producer, p.floor})

Current == IF variant = None THEN T(tier).base ELSE variant

\* Mutated form: the attempt about to run is not counted.
MayStayOffByOne ==
  ~policy.aware \/ policy.maxTotalAttempts - (total + 1) >= N - tier

\* reserveAllows, for the state after recordAttempt: every tier above keeps an
\* attempt.
MayStay == ~policy.aware \/ policy.maxTotalAttempts - (total + 1) - 1 >= N - tier

CanStep == Info(tier) /\ NextVariant(T(tier).ladder, Current) # None
CanRetry == attempts < policy.maxAttemptsPerTier

\* What the failed attempt leaves as tried.
TriedNow == IF Tracked(tier) THEN RaiseTried(tried, T(tier).model, Current) ELSE tried

CoveredTier(i, t) ==
  Tracked(i) /\ t[T(i).model] # None /\ Covered(T(i).base, t[T(i).model])

\* skipCoveredTiers: the first tier above that does not only repeat a rung.
Enterable(i) ==
  ~CoveredTier(i, TriedNow) \/ NextVariant(T(i).ladder, TriedNow[T(i).model]) # None
Targets ==
  IF Info(tier) THEN {i \in Ladder : i > tier /\ Enterable(i)}
                ELSE {i \in Ladder : i = tier + 1}

\* Mutated form: a covered tier is entered at its base.
EntryAtBase(i) == None

\* The rung above the tried one at which a covered tier is entered.
Entry(i) ==
  IF Info(tier) /\ CoveredTier(i, TriedNow)
  THEN NextVariant(T(i).ladder, TriedNow[T(i).model]) ELSE None

-----------------------------------------------------------------------------
Plan(step, t, v, e, s) == [step |-> step, tier |-> t, variant |-> v, effort |-> e, resume |-> s]

\* planFirstAttempt.
PlanFirst == Plan("dispatch", tier, T(tier).base, 0, None)

Init ==
  /\ policy \in Policies
  /\ tier = StartTier(policy)
  /\ attempts = 0 /\ total = 0 /\ escalations = 0 /\ first = 0 /\ cost = 0
  /\ variant = None /\ effort = 0
  /\ tried = [m \in Models |->
                IF Tracked(tier) /\ m = T(tier).model THEN T(tier).base ELSE None]
  /\ plan = PlanFirst
  /\ phase = "ready" /\ end = "none"
  /\ child = None /\ producerFailed = FALSE /\ sessions = {} /\ made = 0
  /\ mayDefer \in BOOLEAN /\ root \in BOOLEAN /\ known = FALSE
  /\ visited = {} /\ failed = {} /\ gated = FALSE

\* execute() returns: its finally disposes of every child it ever registered.
Return(how) ==
  /\ phase' = "over"
  /\ end' = how
  /\ sessions' = {}

-----------------------------------------------------------------------------
(* runProducerAttempt, up to the return of the child                       *)

\* The safety net of the loop: it would end the delegation once total, the
\* number of turns of the loop, is above it (never: SafetyNetUnused).
SafetyMax ==
  SetMax({policy.maxTotalAttempts, N * (policy.maxAttemptsPerTier + 1)}) + 2

\* A turn of the loop begins.
Begin == phase = "ready"

\* The child has answered, failed or run into the time-box.
Ran(s, live) ==
  /\ child' = s
  /\ sessions' = live
  /\ producerFailed' \in BOOLEAN
  /\ phase' = "ran"
  /\ UNCHANGED <<policy, ladderVars, plan, end, deferVars, history>>

RunFresh ==
  /\ Begin /\ plan.resume = None
  /\ made' = made + 1
  /\ Ran(made + 1, sessions \cup {made + 1})

RunResumed ==
  /\ Begin /\ plan.resume # None
  /\ UNCHANGED made
  /\ Ran(plan.resume, sessions)

\* ResumeRejectedError: the old child is disposed of and the same attempt
\* starts on a fresh one.
ResumeRefused ==
  /\ Begin /\ plan.resume # None
  /\ made' = made + 1
  /\ Ran(made + 1, (sessions \ {plan.resume}) \cup {made + 1})

\* The host had let the resume register before it started another child, and
\* then no fresh one came up: a failed attempt of the disposed child.
ResumeLost ==
  /\ Begin /\ plan.resume # None
  /\ child' = plan.resume
  /\ sessions' = sessions \ {plan.resume}
  /\ producerFailed' = TRUE
  /\ phase' = "ran"
  /\ UNCHANGED <<policy, ladderVars, plan, end, made, deferVars, history>>

\* No child session could be created.
NoChild ==
  /\ Begin
  /\ Return("nochild")
  /\ UNCHANGED <<policy, ladderVars, plan, child, producerFailed, made, deferVars, history>>

-----------------------------------------------------------------------------
(* runProducerAttempt, from the return of the child                        *)

\* isProvenRootCaller: a lookup that failed is asked again; an answer is kept.
Lookup(proven) ==
  \/ known /\ UNCHANGED known /\ proven = root
  \/ ~known /\ known' = TRUE /\ proven = root
  \/ ~known /\ UNCHANGED known /\ proven = FALSE

\* Is deferral tried at all?
TriesDefer == ~producerFailed /\ mayDefer

Defer ==
  /\ phase = "ran"
  /\ TriesDefer /\ Lookup(TRUE)
  /\ Return("deferred")
  /\ UNCHANGED <<policy, ladderVars, plan, child, producerFailed, made, mayDefer, root, history>>

\* No deferral: from a finishDeferred that did not defer on, mode is required.
Settle ==
  IF TriesDefer
  THEN \E proven \in BOOLEAN :
         Lookup(proven) /\ mayDefer' = ~proven /\ UNCHANGED root
  ELSE UNCHANGED deferVars

\* prepareVerification or the loop throws: fail closed.
Throws ==
  /\ phase = "ran"
  /\ Return("error")
  /\ Settle
  /\ UNCHANGED <<policy, ladderVars, plan, child, producerFailed, made, history>>

\* The gate judges the result of a producer that did not fail; recordAttempt.
Judged(c) ==
  /\ phase = "ran"
  /\ Settle
  /\ gated' = (gated \/ ~producerFailed)
  /\ total' = total + 1
  /\ cost' = cost + c
  /\ first' = IF first = 0 THEN c ELSE first
  /\ visited' = visited \cup {tier}
  /\ UNCHANGED <<policy, producerFailed, child, made>>

Unchanged == UNCHANGED <<tier, attempts, escalations, variant, effort, tried, plan>>

Accept(c) ==
  /\ ~producerFailed
  /\ Judged(c)
  /\ Return("accepted")
  /\ Unchanged /\ UNCHANGED failed

\* The verdict is strict and unverifiable, or the producer's return incomplete.
Unverifiable(c) ==
  /\ ~producerFailed
  /\ Judged(c)
  /\ Return("unverifiable")
  /\ Unchanged /\ UNCHANGED failed

\* Not accepted: the rung has failed.
Rejected(c) ==
  /\ Judged(c)
  /\ failed' = IF Tracked(tier) THEN failed \cup {<<T(tier).model, plan.variant>>} ELSE failed

OverCost(c) ==
  policy.costMultiple # 0 /\ cost + c > (IF first = 0 THEN c ELSE first) * policy.costMultiple

MaxReached == total + 1 >= policy.maxTotalAttempts

GiveUpMax(c) == Rejected(c) /\ MaxReached /\ Return("max") /\ Unchanged
GiveUpCost(c) == Rejected(c) /\ ~MaxReached /\ OverCost(c) /\ Return("cost") /\ Unchanged

GoesOn(c) == Rejected(c) /\ ~MaxReached /\ ~OverCost(c)

\* Attempts the reserve withholds are spent here when no tier above is left.
Stays == MayStay \/ Targets = {}

GiveUpTop(c) ==
  /\ GoesOn(c)
  /\ ~CanStep /\ ~CanRetry /\ Targets = {}
  /\ Return("top")
  /\ Unchanged

\* Mutated form: a failed producer's context is trusted.
ResumableAnyway(next, v, escalated) == Info(next)

\* resumeDecision and the guards of planNextAttempt: may the child be resumed
\* by an attempt on tier `next` with variant v?
Resumable(next, v, escalated) ==
  /\ Info(next) /\ ~producerFailed
  /\ v = Default => plan.variant = Default
  /\ escalated => /\ ~(Info(tier) /\ T(tier).effortConfigured)
                  /\ ~T(next).effortConfigured

\* Mutated form: the child is left behind when the next attempt starts fresh.
ContinueLeaks(step, next, v, e) ==
  \E resume \in BOOLEAN :
    /\ resume => Resumable(next, v, step = "escalate")
    /\ plan' = Plan(step, next, v, e, IF resume THEN child ELSE None)
    /\ phase' = "ready"
    /\ UNCHANGED <<sessions, end>>

\* planNextAttempt, and the child is disposed of unless it is resumed.
Continue(step, next, v, e) ==
  \E resume \in BOOLEAN :
    /\ resume => Resumable(next, v, step = "escalate")
    /\ plan' = Plan(step, next, v, e, IF resume THEN child ELSE None)
    /\ sessions' = IF resume THEN sessions ELSE sessions \ {child}
    /\ phase' = "ready"
    /\ UNCHANGED end

\* The variant a plain retry is dispatched with: the one reached so far.
Retried == IF Info(tier) THEN Current ELSE T(tier).base

NextRung == NextVariant(T(tier).ladder, Current)

\* applyRung: a tracked tier's model has now been tried up to v.
applyRung(i, v) ==
  tried' = IF Tracked(i) THEN RaiseTried(tried, T(i).model, v) ELSE tried

StepVariant(c) ==
  /\ GoesOn(c)
  /\ Stays /\ CanStep
  /\ variant' = NextRung
  /\ applyRung(tier, NextRung)
  /\ Continue("variant", tier, NextRung, 0)
  /\ UNCHANGED <<tier, attempts, escalations, effort>>

\* plainRetry, with the effort bump of a tier that has one.
Bumped == IF effort < T(tier).bump THEN effort + 1 ELSE effort

PlainRetry(c) ==
  /\ GoesOn(c)
  /\ Stays /\ ~CanStep /\ CanRetry
  /\ attempts' = attempts + 1
  /\ effort' = Bumped
  /\ Continue("retry", tier, Retried, Bumped)
  /\ UNCHANGED <<tier, escalations, variant, tried>>

\* The variant of the first attempt on tier i.
EntryVariant(i) == IF Entry(i) = None THEN T(i).base ELSE Entry(i)

EscalateTo(i, c) ==
  /\ GoesOn(c)
  /\ ~(MayStay /\ (CanStep \/ CanRetry))
  /\ tier' = i
  /\ attempts' = 0
  /\ escalations' = escalations + 1
  /\ effort' = 0
  /\ variant' = Entry(i)
  /\ applyRung(i, EntryVariant(i))
  /\ Continue("escalate", i, EntryVariant(i), 0)

Escalate(c) == Targets # {} /\ EscalateTo(SetMin(Targets), c)

Attempt == RunFresh \/ RunResumed \/ ResumeRefused \/ ResumeLost \/ NoChild

Verdict ==
  \/ Defer \/ Throws
  \/ \E c \in Costs :
       \/ Accept(c) \/ Unverifiable(c)
       \/ GiveUpMax(c) \/ GiveUpCost(c) \/ GiveUpTop(c)
       \/ StepVariant(c) \/ PlainRetry(c) \/ Escalate(c)

Next == Attempt \/ Verdict

Spec == Init /\ [][Next]_vars

-----------------------------------------------------------------------------
(* Properties                                                              *)

Ends == {"none", "nochild", "deferred", "error", "accepted", "unverifiable",
         "max", "cost", "top"}

TypeOK ==
  /\ policy \in Policy
  /\ tier \in Ladder /\ variant \in Variants \cup {None}
  /\ {attempts, total, escalations, first, cost, effort, made} \subseteq Nat
  /\ tried \in [Models -> Variants \cup {None}]
  /\ plan \in [step : {"dispatch", "variant", "retry", "escalate"}, tier : Ladder,
              variant : Variants, effort : Nat, resume : Nat \cup {None}]
  /\ phase \in {"ready", "ran", "over"} /\ end \in Ends
  /\ child \in Nat \cup {None} /\ sessions \subseteq 1..made
  /\ {producerFailed, mayDefer, root, known, gated} \subseteq BOOLEAN
  /\ visited \subseteq Ladder /\ failed \subseteq Models \X Variants

\* On a ladder whose every tier the catalog knows, an attempt presented as
\* progress (a variant step or an escalation, not a plain retry) never runs a
\* ranked effort of a model that already failed, whichever tier ran it (A17a:
\* skipCoveredTiers, triedByModel).
RungNotRepeated ==
  phase = "ready" /\ plan.step \in {"variant", "escalate"}
    /\ Tracked(plan.tier) /\ plan.variant \in Ranks /\ (\A i \in Ladder : Info(i))
  => <<T(plan.tier).model, plan.variant>> \notin failed

\* A session-aware delegation that used up its attempts or its ladder has run
\* every tier from its start tier up, but for a tier whose base a failed rung of
\* the same model covers: variant steps and retries never eat the attempts of
\* the tiers above (reserveAllows).
EveryTierTried ==
  end \in {"max", "top"} /\ policy.aware
    /\ policy.maxTotalAttempts > N - StartTier(policy)
  => \A i \in StartTier(policy)..N :
       \/ i \in visited
       \/ \E r \in failed : r[1] = T(i).model /\ Covered(T(i).base, r[2])

\* The attempt about to run resumes only a child that is still there and whose
\* run did not fail (D11: a failed producer's context is not trusted).
ResumeTrusted ==
  phase = "ready" /\ plan.resume # None => plan.resume \in sessions /\ ~producerFailed

\* A long ladder never accumulates live child sessions: between two attempts at
\* most the child to resume is alive, and none when execute() has returned.
SessionsTidy ==
  /\ phase = "ready" => sessions \subseteq {plan.resume}
  /\ phase = "ran" => sessions \subseteq {child}
  /\ phase = "over" => sessions = {}

\* Only a delegation whose caller the host could not name in time is deferred
\* after an earlier attempt was gated: once it is known whether the caller is a
\* root session, the ladder is gated to its end.
DeferralDecidedOnce == [][end' = "deferred" /\ gated => ~known]_vars

\* The independent safety net of the loop never has to end a delegation: the
\* ladder's own limits end it first.
SafetyNetUnused == phase = "ready" => total <= SafetyMax


\* The ladder keeps its order: no effort that failed is paid for again, and no tier is skipped
\* (skipCoveredTiers and reserveAllows of ladder.ts).
LadderKept == RungNotRepeated /\ EveryTierTried

\* The children of a delegation are all accounted for, and only a trusted one is resumed
\* (resumeDecision, planNextAttempt, the finally of delegate).
ChildrenKept == ResumeTrusted /\ SessionsTidy
=============================================================================
