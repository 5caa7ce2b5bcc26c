--------------------------- MODULE DelegationProofs ---------------------------
(***************************************************************************)
(* A delegation leaves no child session behind, resumes only children that *)
(* are alive and did not fail, stays within its attempts and decides once  *)
(* whether it is deferred; its ladder pays for no failed effort again and  *)
(* skips no tier it need not.  For any ladder, policy and cost.            *)
(***************************************************************************)
EXTENDS Delegation, WellFoundedInduction, TLAPS

-----------------------------------------------------------------------------
(* Child sessions *)

\* The child that was judged is alive when it may be resumed.
ChildAlive ==
  phase = "ran" => child \in Nat /\ (~producerFailed => child \in sessions)

SessionInv ==
  /\ made \in Nat /\ sessions \subseteq 1..made
  /\ phase \in {"ready", "ran", "over"}
  /\ SessionsTidy /\ ResumeTrusted /\ ChildAlive

USE DEF None

\* The fields of a plan.
LEMMA PlanFields ==
  ASSUME NEW step, NEW t, NEW v, NEW e, NEW s
  PROVE  Plan(step, t, v, e, s).resume = s
  BY DEF Plan

\* No session is alive before the first attempt.
LEMMA SessionInit == Init => SessionInv
  BY PlanFields DEF Init, PlanFirst, SessionInv, SessionsTidy, ResumeTrusted, ChildAlive

\* execute() returns with every session disposed of.
LEMMA ReturnTidy ==
  ASSUME SessionInv, NEW how, Return(how), UNCHANGED made
  PROVE  SessionInv'
  BY DEF Return, SessionInv, SessionsTidy, ResumeTrusted, ChildAlive

\* Going on to the next attempt keeps at most the child it resumes.
LEMMA ContinueTidy ==
  ASSUME SessionInv, phase = "ran", UNCHANGED <<made, producerFailed, child>>,
         NEW step, NEW next, NEW v, NEW e, Continue(step, next, v, e)
  PROVE  SessionInv'
<1>1. PICK resume \in BOOLEAN :
        /\ resume => Resumable(next, v, step = "escalate")
        /\ plan' = Plan(step, next, v, e, IF resume THEN child ELSE None)
        /\ sessions' = IF resume THEN sessions ELSE sessions \ {child}
        /\ phase' = "ready"
  BY DEF Continue
<1>2. plan'.resume = IF resume THEN child ELSE None
  BY <1>1, PlanFields
<1>3. resume => ~producerFailed /\ child \in sessions
  BY <1>1 DEF Resumable, SessionInv, ChildAlive
<1>4. sessions \subseteq {child} /\ child \in Nat
  BY DEF SessionInv, SessionsTidy, ChildAlive
<1> QED
  BY <1>1, <1>2, <1>3, <1>4 DEF SessionInv, SessionsTidy, ResumeTrusted, ChildAlive

\* A child that ran is the one live session.
LEMMA RanTidy ==
  ASSUME SessionInv, NEW s \in Nat, NEW live, Ran(s, live),
         made' \in Nat, live \subseteq 1..made', live \subseteq {s}, s \in live
  PROVE  SessionInv'
  BY DEF Ran, SessionInv, SessionsTidy, ResumeTrusted, ChildAlive

\* Running an attempt leaves its own child as the only one.
LEMMA AttemptTidy == SessionInv /\ Attempt => SessionInv'
<1> SUFFICES ASSUME SessionInv, Attempt PROVE SessionInv'
  OBVIOUS
<1> made \in Nat /\ sessions \subseteq 1..made
  BY DEF SessionInv
<1>0. phase = "ready" => /\ sessions \subseteq {plan.resume}
                         /\ plan.resume # None => plan.resume \in sessions
  BY DEF SessionInv, SessionsTidy, ResumeTrusted
<1>1. CASE RunFresh
  <2>1. sessions = {}
    BY <1>0, <1>1 DEF RunFresh, Begin
  <2>2. Ran(made + 1, {made + 1}) /\ made' = made + 1
    BY <1>1, <2>1 DEF RunFresh
  <2> QED
    BY <2>2, RanTidy
<1>2. CASE RunResumed
  <2>1. plan.resume \in 1..made /\ sessions = {plan.resume}
    BY <1>0, <1>2 DEF RunResumed, Begin
  <2>2. Ran(plan.resume, sessions) /\ made' = made
    BY <1>2 DEF RunResumed
  <2> QED
    BY <2>1, <2>2, RanTidy
<1>3. CASE ResumeRefused
  <2>1. sessions \ {plan.resume} = {}
    BY <1>0, <1>3 DEF ResumeRefused, Begin
  <2>2. (sessions \ {plan.resume}) \cup {made + 1} = {made + 1}
    BY <2>1
  <2>3. Ran(made + 1, {made + 1}) /\ made' = made + 1
    BY <1>3, <2>2 DEF ResumeRefused
  <2> QED
    BY <2>3, RanTidy
<1>4. CASE ResumeLost
  <2>1. plan.resume \in 1..made /\ sessions \ {plan.resume} = {}
    BY <1>0, <1>4 DEF ResumeLost, Begin
  <2>2. /\ child' = plan.resume /\ sessions' = {} /\ producerFailed' = TRUE
        /\ phase' = "ran" /\ made' = made
    BY <1>4, <2>1 DEF ResumeLost
  <2> QED
    BY <2>1, <2>2 DEF SessionInv, SessionsTidy, ResumeTrusted, ChildAlive
<1>5. CASE NoChild
  BY <1>5, ReturnTidy DEF NoChild
<1> QED
  BY <1>1, <1>2, <1>3, <1>4, <1>5 DEF Attempt

\* Judging an attempt ends the delegation or goes on to the next one.
LEMMA VerdictTidy == SessionInv /\ Verdict => SessionInv'
<1> SUFFICES ASSUME SessionInv, Verdict PROVE SessionInv'
  OBVIOUS
<1>1. CASE Defer
  BY <1>1, ReturnTidy DEF Defer
<1>2. CASE Throws
  BY <1>2, ReturnTidy DEF Throws
<1>3. ASSUME NEW c \in Costs, Accept(c) \/ Unverifiable(c) PROVE SessionInv'
  BY <1>3, ReturnTidy DEF Accept, Unverifiable, Judged
<1>4. ASSUME NEW c \in Costs, GiveUpMax(c) \/ GiveUpCost(c) \/ GiveUpTop(c)
      PROVE  SessionInv'
  BY <1>4, ReturnTidy DEF GiveUpMax, GiveUpCost, GiveUpTop, GoesOn, Rejected, Judged
<1>5. ASSUME NEW c \in Costs, StepVariant(c) PROVE SessionInv'
  BY <1>5, ContinueTidy DEF StepVariant, applyRung, GoesOn, Rejected, Judged
<1>6. ASSUME NEW c \in Costs, PlainRetry(c) PROVE SessionInv'
  BY <1>6, ContinueTidy DEF PlainRetry, GoesOn, Rejected, Judged
<1>7. ASSUME NEW c \in Costs, Escalate(c) PROVE SessionInv'
  BY <1>7, ContinueTidy DEF Escalate, EscalateTo, applyRung, GoesOn, Rejected, Judged
<1> QED
  BY <1>1, <1>2, <1>3, <1>4, <1>5, <1>6, <1>7 DEF Verdict

\* The session invariant holds throughout.
LEMMA SessionAlways == Spec => []SessionInv
<1>1. SessionInv /\ UNCHANGED vars => SessionInv'
  BY DEF vars, sessionVars, SessionInv, SessionsTidy, ResumeTrusted, ChildAlive
<1>2. SessionInv /\ [Next]_vars => SessionInv'
  BY <1>1, AttemptTidy, VerdictTidy DEF Next
<1> QED
  BY <1>2, SessionInit, PTL DEF Spec

\* However its attempts, resumes and verdicts end, a delegation never has more than one live child
\* session and none when it has returned, and it resumes only a live child whose last run did not
\* fail (resumeDecision, planNextAttempt, the finally of delegate).
THEOREM ChildrenAccounted == Spec => []ChildrenKept
<1>1. SessionInv => ChildrenKept
  BY DEF SessionInv, ChildrenKept
<1> QED
  BY <1>1, SessionAlways, PTL

-----------------------------------------------------------------------------
(* Attempts *)

\* An attempt starts only while attempts are left; the first always starts.
AttemptsInv ==
  /\ policy \in Policies
  /\ total \in Nat
  /\ phase = "ready" => total = 0 \/ total < policy.maxTotalAttempts

\* The larger of two numbers is not below either.
LEMMA SetMaxBound ==
  ASSUME NEW a \in Int, NEW b \in Int
  PROVE  SetMax({a, b}) \in Int /\ a <= SetMax({a, b}) /\ b <= SetMax({a, b})
<1>1. \E n \in {a, b} : \A m \in {a, b} : m <= n
  <2>1. CASE a <= b
    BY <2>1
  <2>2. CASE ~(a <= b)
    BY <2>2
  <2> QED
    BY <2>1, <2>2
<1>2. /\ SetMax({a, b}) \in {a, b}
      /\ \A m \in {a, b} : m <= SetMax({a, b})
  BY <1>1, Zenon DEF SetMax
<1> QED
  BY <1>2

\* The limits of a policy are numbers.
LEMMA PolicyLimits ==
  ASSUME policy \in Policies
  PROVE  /\ policy.maxTotalAttempts \in Nat
         /\ N * (policy.maxAttemptsPerTier + 1) \in Nat
<1>1. policy \in Policy /\ N \in Nat
  BY DelegationAssumption
<1>2. policy.maxTotalAttempts \in Nat /\ policy.maxAttemptsPerTier \in Nat
  BY <1>1 DEF Policy
<1> QED
  BY <1>1, <1>2

\* A step that judges a result counts one attempt and goes on only below the
\* limit.
LEMMA AttemptsStep == AttemptsInv /\ [Next]_vars => AttemptsInv'
<1> SUFFICES ASSUME AttemptsInv, [Next]_vars PROVE AttemptsInv'
  OBVIOUS
<1>0. policy.maxTotalAttempts \in Nat
  BY PolicyLimits DEF AttemptsInv
<1>1. CASE Attempt
  BY <1>1 DEF Attempt, RunFresh, RunResumed, ResumeRefused, ResumeLost, NoChild, Ran,
     Return, ladderVars, AttemptsInv
<1>2. CASE Defer \/ Throws
  BY <1>2 DEF Defer, Throws, Return, ladderVars, AttemptsInv
<1>3. ASSUME NEW c \in Costs,
             Accept(c) \/ Unverifiable(c) \/ GiveUpMax(c) \/ GiveUpCost(c) \/ GiveUpTop(c)
      PROVE  AttemptsInv'
  BY <1>3 DEF Accept, Unverifiable, GiveUpMax, GiveUpCost, GiveUpTop, GoesOn, Rejected,
     Judged, Return, AttemptsInv
<1>4. ASSUME NEW c \in Costs, StepVariant(c) \/ PlainRetry(c) \/ Escalate(c)
      PROVE  AttemptsInv'
  <2>1. policy' = policy /\ total' = total + 1 /\ ~MaxReached
    BY <1>4 DEF StepVariant, applyRung, PlainRetry, Escalate, EscalateTo, GoesOn, Rejected, Judged
  <2> QED
    BY <1>0, <2>1 DEF MaxReached, AttemptsInv
<1>5. CASE UNCHANGED vars
  BY <1>5 DEF vars, ladderVars, AttemptsInv
<1> QED
  BY <1>1, <1>2, <1>3, <1>4, <1>5 DEF Next, Verdict

\* The loop's safety net never has to end a delegation, whatever the ladder,
\* the limits and the verdicts.
THEOREM AttemptsBounded == Spec => []SafetyNetUnused
<1>1. Init => AttemptsInv
  BY DEF Init, AttemptsInv
<1>2. AttemptsInv => SafetyNetUnused
  <2> SUFFICES ASSUME AttemptsInv, phase = "ready" PROVE total <= SafetyMax
    BY DEF SafetyNetUnused
  <2> DEFINE a == policy.maxTotalAttempts
             b == N * (policy.maxAttemptsPerTier + 1)
  <2>1. a \in Nat /\ b \in Nat
    BY PolicyLimits DEF AttemptsInv
  <2>2. total \in Nat /\ (total = 0 \/ total < a)
    BY DEF AttemptsInv
  <2>3. SafetyMax = SetMax({a, b}) + 2
    BY DEF SafetyMax
  <2> HIDE DEF a, b
  <2>4. SetMax({a, b}) \in Int /\ a <= SetMax({a, b})
    BY <2>1, SetMaxBound
  <2> QED
    BY <2>1, <2>2, <2>3, <2>4
<1> QED
  BY <1>1, <1>2, AttemptsStep, PTL DEF Spec

-----------------------------------------------------------------------------
(* Deferral *)

\* Until execute() returns nothing is deferred; and once a gated attempt knows
\* its caller, a root's delegation is required to be gated.
DecidedInv ==
  /\ {mayDefer, root, known, gated} \subseteq BOOLEAN
  /\ phase \in {"ready", "ran", "over"}
  /\ phase # "over" => end = "none"
  /\ phase # "over" /\ known /\ gated => ~(mayDefer /\ root)

\* A result that was not deferred leaves a known root's mode at required.
LEMMA SettleDecides ==
  ASSUME DecidedInv, phase = "ran", Settle
  PROVE  /\ {mayDefer', root', known'} \subseteq BOOLEAN
         /\ known' /\ (gated \/ ~producerFailed) => ~(mayDefer' /\ root')
<1>1. CASE TriesDefer
  <2>1. PICK proven \in BOOLEAN : Lookup(proven) /\ mayDefer' = ~proven /\ UNCHANGED root
    BY <1>1 DEF Settle
  <2>2. known' \in BOOLEAN /\ (known' => known \/ proven = root)
    BY <2>1 DEF Lookup, DecidedInv
  <2>3. known => proven = root
    BY <2>1 DEF Lookup
  <2> QED
    BY <2>1, <2>2, <2>3 DEF DecidedInv
<1>2. CASE ~TriesDefer
  BY <1>2 DEF Settle, TriesDefer, deferVars, DecidedInv
<1> QED
  BY <1>1, <1>2

\* A judged attempt keeps the deferral invariant.
LEMMA JudgedDecides ==
  ASSUME DecidedInv, NEW c, Judged(c),
         \/ phase' = "over"
         \/ phase' = "ready" /\ UNCHANGED end
  PROVE  DecidedInv'
<1>1. phase = "ran" /\ Settle /\ gated' = (gated \/ ~producerFailed) /\ UNCHANGED producerFailed
  BY DEF Judged
<1>2. /\ {mayDefer', root', known'} \subseteq BOOLEAN
      /\ known' /\ gated' => ~(mayDefer' /\ root')
  BY <1>1, SettleDecides
<1> QED
  BY <1>1, <1>2 DEF DecidedInv

\* The deferral invariant is preserved.
LEMMA DecidedStep == DecidedInv /\ [Next]_vars => DecidedInv'
<1> SUFFICES ASSUME DecidedInv, [Next]_vars PROVE DecidedInv'
  OBVIOUS
<1>1. CASE Attempt
  <2>1. /\ phase = "ready"
        /\ phase' = "over" \/ (phase' = "ran" /\ UNCHANGED end)
        /\ UNCHANGED <<mayDefer, root, known, gated>>
    BY <1>1 DEF Attempt, RunFresh, RunResumed, ResumeRefused, ResumeLost, NoChild, Ran,
       Return, Begin, deferVars, history
  <2> QED
    BY <2>1 DEF DecidedInv
<1>2. CASE Throws
  <2>1. phase = "ran" /\ Settle /\ phase' = "over" /\ UNCHANGED <<producerFailed, gated>>
    BY <1>2 DEF Throws, Return, history
  <2>2. /\ {mayDefer', root', known'} \subseteq BOOLEAN
        /\ known' /\ (gated \/ ~producerFailed) => ~(mayDefer' /\ root')
    BY <2>1, SettleDecides
  <2> QED
    BY <2>1, <2>2 DEF DecidedInv
<1>3. CASE Defer
  <2>1. /\ phase' = "over" /\ mayDefer
        /\ UNCHANGED <<gated, mayDefer, root>>
        /\ Lookup(TRUE)
    BY <1>3 DEF Defer, Return, TriesDefer, history
  <2>2. known' \in BOOLEAN
    BY <2>1 DEF DecidedInv, Lookup
  <2> QED
    BY <2>1, <2>2 DEF DecidedInv
<1>4. ASSUME NEW c \in Costs,
             Accept(c) \/ Unverifiable(c) \/ GiveUpMax(c) \/ GiveUpCost(c) \/ GiveUpTop(c)
      PROVE  DecidedInv'
  <2>1. Judged(c) /\ phase' = "over"
    BY <1>4 DEF Accept, Unverifiable, GiveUpMax, GiveUpCost, GiveUpTop, GoesOn, Rejected, Return
  <2> QED
    BY <2>1, JudgedDecides
<1>5. ASSUME NEW c \in Costs, StepVariant(c) \/ PlainRetry(c) \/ Escalate(c)
      PROVE  DecidedInv'
  <2>1. Judged(c) /\ phase' = "ready" /\ UNCHANGED end
    BY <1>5 DEF StepVariant, applyRung, PlainRetry, Escalate, EscalateTo, GoesOn, Rejected, Continue
  <2> QED
    BY <2>1, JudgedDecides
<1>6. CASE UNCHANGED vars
  BY <1>6 DEF vars, sessionVars, deferVars, history, DecidedInv
<1> QED
  BY <1>1, <1>2, <1>3, <1>4, <1>5, <1>6 DEF Next, Verdict

\* Once it is known whether the caller is a root session, a delegation whose
\* result was gated is gated to its end.
THEOREM GatedOnceKnown == Spec => DeferralDecidedOnce
<1>1. Init => DecidedInv
  BY DEF Init, DecidedInv
<1>2. ASSUME DecidedInv, [Next]_vars
      PROVE  [end' = "deferred" /\ gated => ~known]_vars
  <2> SUFFICES ASSUME Next, end' = "deferred", gated, known PROVE FALSE
    BY <1>2 DEF vars
  <2>1. CASE Defer
    <3>1. phase = "ran" /\ mayDefer /\ Lookup(TRUE)
      BY <2>1 DEF Defer, TriesDefer
    <3>2. root = TRUE
      BY <3>1 DEF Lookup
    <3> QED
      BY <1>2, <3>1, <3>2 DEF DecidedInv
  <2>2. CASE Attempt
    BY <1>2, <2>2 DEF Attempt, RunFresh, RunResumed, ResumeRefused, ResumeLost, NoChild, Ran,
       Return, Begin, DecidedInv
  <2>3. CASE Throws
    BY <2>3 DEF Throws, Return
  <2>4. ASSUME NEW c \in Costs,
               Accept(c) \/ Unverifiable(c) \/ GiveUpMax(c) \/ GiveUpCost(c) \/ GiveUpTop(c)
        PROVE  FALSE
    BY <2>4 DEF Accept, Unverifiable, GiveUpMax, GiveUpCost, GiveUpTop, Return
  <2>5. ASSUME NEW c \in Costs, StepVariant(c) \/ PlainRetry(c) \/ Escalate(c)
        PROVE  FALSE
    <3>1. end' = end /\ phase = "ran"
      BY <2>5 DEF StepVariant, applyRung, PlainRetry, Escalate, EscalateTo, Continue, GoesOn, Rejected,
         Judged
    <3> QED
      BY <1>2, <3>1 DEF DecidedInv
  <2> QED
    BY <2>1, <2>2, <2>3, <2>4, <2>5 DEF Next, Verdict
<1> QED
  BY <1>1, <1>2, DecidedStep, PTL DEF Spec, DeferralDecidedOnce

-----------------------------------------------------------------------------
(* The order of the ladder *)

\* A set of numbers that is not empty has a least one.
LEMMA Least ==
  ASSUME NEW S \in SUBSET Nat, S # {}
  PROVE  SetMin(S) \in S /\ \A n \in S : SetMin(S) <= n
<1>1. PICK x \in S : \A y \in S : ~(<<y, x>> \in OpToRel(<, Nat))
  BY WFMin, NatLessThanWellFounded, Zenon
<1>2. \A y \in S : x <= y
  <2> TAKE y \in S
  <2>1. ~(y < x)
    BY <1>1 DEF OpToRel
  <2> QED BY <2>1
<1> QED BY <1>2, Zenon DEF SetMin


LadderShape ==
  /\ policy \in Policies
  /\ tier \in Ladder /\ tier >= StartTier(policy)
  /\ total \in Nat /\ attempts \in Nat
  /\ variant \in Variants \cup {None}
  /\ tried \in [Models -> Variants \cup {None}]
  /\ plan.variant \in Variants

\* A tier whose base a failed rung of its model covers.
PaidFor(i) == \E r \in failed : r[1] = T(i).model /\ Covered(T(i).base, r[2])

\* The plan is for the tier the ladder is on, at the effort it has reached.
PlanFits ==
  /\ plan.tier = tier
  /\ Info(tier) => plan.variant = Current

\* What counts as tried of a model has failed, or is about to run.
TriedIsTrue ==
  \A m \in Models : tried[m] # None =>
    \/ <<m, tried[m]>> \in failed
    \/ Tracked(tier) /\ m = T(tier).model /\ tried[m] = plan.variant

\* The tiers below the current one have run or need not.
BelowTried ==
  policy.aware => \A i \in StartTier(policy)..(tier - 1) : i \in visited \/ PaidFor(i)

\* There is an attempt left for every tier from the current one up, unless those above need none.
Reserved ==
  policy.aware /\ policy.maxTotalAttempts > N - StartTier(policy) =>
    \/ policy.maxTotalAttempts - total > N - tier
    \/ \A i \in (tier + 1)..N : PaidFor(i)

\* A model has been tried up to the highest rank of it that failed.
FailedBelow ==
  \A m \in Models, v \in Ranks : <<m, v>> \in failed => tried[m] \in Ranks /\ v <= tried[m]

\* The current effort is the highest of its model that was tried, unless it is the bare model
\* or an unknown effort, which no rung of the ladder repeats.
CurrentIsTop ==
  Tracked(tier) =>
    LET t == tried[T(tier).model] IN
      /\ t # None
      /\ Current = t \/ Current = Odd \/ (Current = Default /\ t \in Ranks /\ t < High)

LadderInv ==
  /\ LadderShape
  /\ phase # "over" => /\ end = "none" /\ PlanFits /\ TriedIsTrue /\ BelowTried /\ Reserved
                       /\ (\A i \in Ladder : Info(i)) => FailedBelow /\ CurrentIsTop
  /\ LadderKept

-----------------------------------------------------------------------------
(* Lemmas about tiers and variants. *)

\* What a policy says of a tier.
LEMMA TierFields ==
  ASSUME policy \in Policies, NEW i \in Ladder
  PROVE  /\ T(i).model \in Models /\ T(i).base \in Variants /\ T(i).ladder \in SUBSET Ranks
         /\ T(i).effortConfigured => T(i).ladder = {}
         /\ T(i).info \in BOOLEAN /\ T(i).effortConfigured \in BOOLEAN
         /\ policy.aware \in BOOLEAN /\ policy.maxTotalAttempts \in Nat
<1>1. policy \in Policy
  BY DelegationAssumption
<1>2. T(i) \in Tier /\ policy.aware \in BOOLEAN /\ policy.maxTotalAttempts \in Nat
  BY <1>1 DEF T, Policy
<1> QED BY <1>2, DelegationAssumption DEF Tier, T

\* Variants are numbers, and the order of them.
LEMMA VariantOrder ==
  /\ MaxRank \in Nat /\ High \in Ranks /\ Ranks \subseteq Nat \ {0}
  /\ \A v \in Variants : v \in Nat /\ (v = Odd \/ v = Default \/ v \in Ranks)
  /\ Odd \notin Ranks /\ Odd # Default /\ Default \notin Ranks /\ Default = 0
  /\ None \notin Variants
BY DelegationAssumption DEF Ranks, Variants, Odd, Default

\* The next variant is above the one given.
LEMMA NextAbove ==
  ASSUME NEW l \in SUBSET Ranks, NEW v \in Variants, NextVariant(l, v) # None
  PROVE  /\ NextVariant(l, v) \in Ranks /\ NextVariant(l, v) > v /\ v # Odd
         /\ v = Default => NextVariant(l, v) >= High
<1>1. Above(l, v) # {} /\ NextVariant(l, v) = SetMin(Above(l, v))
  BY DEF NextVariant
<1>2. Above(l, v) \in SUBSET Nat
  BY VariantOrder DEF Above
<1>3. SetMin(Above(l, v)) \in Above(l, v)
  BY <1>1, <1>2, Least
<1>4. v \in Nat /\ SetMin(Above(l, v)) \in Nat
  BY <1>2, <1>3, VariantOrder
<1> QED BY <1>1, <1>3, <1>4, VariantOrder DEF Above

TriedType == [Models -> Variants \cup {None}]

\* Raising keeps what is higher, and says so of every other model.
LEMMA RaiseFacts ==
  ASSUME NEW t \in TriedType, NEW m \in Models, NEW v \in Variants
  PROVE  /\ RaiseTried(t, m, v) \in TriedType
         /\ \A x \in Models : x # m => RaiseTried(t, m, v)[x] = t[x]
         /\ RaiseTried(t, m, v)[m] = IF t[m] # None /\ (v = Odd \/ (t[m] # Odd /\ v <= t[m])) THEN t[m] ELSE v
BY DEF RaiseTried, TriedType, Lower


-----------------------------------------------------------------------------
(* What a failed attempt leaves. *)

\* The attempt that is judged and not accepted.
LEMMA RejectedFields ==
  ASSUME NEW c, Rejected(c)
  PROVE  /\ phase = "ran" /\ policy' = policy /\ total' = total + 1 /\ visited' = visited \cup {tier}
         /\ failed' = IF Tracked(tier) THEN failed \cup {<<T(tier).model, plan.variant>>} ELSE failed
         /\ failed \subseteq failed'
         /\ \A i \in Ladder : PaidFor(i) => PaidFor(i)'
<1>1. /\ phase = "ran" /\ policy' = policy /\ total' = total + 1 /\ visited' = visited \cup {tier}
      /\ failed' = IF Tracked(tier) THEN failed \cup {<<T(tier).model, plan.variant>>} ELSE failed
  BY DEF Rejected, Judged
<1>2. failed \subseteq failed'
  BY <1>1
<1>3. \A i \in Ladder : T(i)' = T(i)
  BY <1>1 DEF T
<1> QED BY <1>1, <1>2, <1>3 DEF PaidFor

\* The current effort is one.
LEMMA CurrentType ==
  ASSUME LadderShape
  PROVE  Current \in Variants
BY TierFields DEF LadderShape, Current

\* Whatever is tried of a model after the attempt has failed.
LEMMA NowFailed ==
  ASSUME LadderShape, PlanFits, TriedIsTrue, NEW c, Rejected(c)
  PROVE  /\ TriedNow \in TriedType
         /\ \A m \in Models : tried[m] # None => <<m, tried[m]>> \in failed'
         /\ \A m \in Models : TriedNow[m] # None => <<m, TriedNow[m]>> \in failed'
<1>1. \A m \in Models : tried[m] # None => <<m, tried[m]>> \in failed'
  BY RejectedFields DEF TriedIsTrue
<1>2. CASE Tracked(tier)
  <2>1. plan.variant = Current /\ <<T(tier).model, Current>> \in failed'
    BY <1>2, RejectedFields DEF PlanFits, Tracked
  <2>2. Current \in Variants /\ T(tier).model \in Models /\ tried \in TriedType
    BY CurrentType, TierFields DEF LadderShape, TriedType
  <2>3. /\ TriedNow \in TriedType
        /\ \A x \in Models : x # T(tier).model => TriedNow[x] = tried[x]
        /\ TriedNow[T(tier).model] \in {tried[T(tier).model], Current}
    BY <1>2, <2>2, RaiseFacts DEF TriedNow
  <2> QED BY <1>1, <2>1, <2>2, <2>3
<1>3. CASE ~Tracked(tier)
  BY <1>1, <1>3 DEF TriedNow, LadderShape, TriedType
<1> QED BY <1>2, <1>3

\* A tier that is left out because it only repeats what was tried is paid for.
LEMMA LeftOut ==
  ASSUME LadderShape, PlanFits, TriedIsTrue, NEW c, Rejected(c), NEW i \in Ladder, i > tier, i \notin Targets,
         Info(tier)
  PROVE  PaidFor(i)'
<1>1. CoveredTier(i, TriedNow)
  BY DEF Targets, Enterable
<1>2. T(i).model \in Models /\ T(i)' = T(i)
  BY TierFields, RejectedFields DEF LadderShape, T
<1>3. <<T(i).model, TriedNow[T(i).model]>> \in failed' /\ Covered(T(i).base, TriedNow[T(i).model])
  BY <1>1, <1>2, NowFailed DEF CoveredTier
<1> QED BY <1>2, <1>3 DEF PaidFor

\* No tier is left to escalate to: those above are paid for.
LEMMA NoneLeft ==
  ASSUME LadderShape, PlanFits, TriedIsTrue, NEW c, Rejected(c), Targets = {}
  PROVE  \A i \in (tier + 1)..N : PaidFor(i)'
<1>1. N \in Nat /\ tier \in Ladder
  BY DelegationAssumption DEF LadderShape
<1>2. CASE Info(tier)
  <2> TAKE i \in (tier + 1)..N
  <2>1. i \in Ladder /\ i > tier
    BY <1>1 DEF Ladder
  <2> QED BY <1>2, <2>1, LeftOut
<1>3. CASE ~Info(tier)
  <2>1. tier + 1 \notin Ladder
    BY <1>3 DEF Targets
  <2> QED BY <1>1, <2>1 DEF Ladder
<1> QED BY <1>2, <1>3

\* The tier that is escalated to is the first one that is not left out.
LEMMA FirstTarget ==
  ASSUME LadderShape, PlanFits, TriedIsTrue, NEW c, Rejected(c), Targets # {}
  PROVE  /\ SetMin(Targets) \in Targets /\ SetMin(Targets) \in Ladder /\ SetMin(Targets) > tier
         /\ \A i \in (tier + 1)..(SetMin(Targets) - 1) : PaidFor(i)'
<1>1. N \in Nat /\ tier \in Ladder
  BY DelegationAssumption DEF LadderShape
<1>2. Targets \in SUBSET Ladder /\ \A i \in Targets : i > tier
  BY <1>1 DEF Targets, Ladder
<1>3. Targets \in SUBSET Nat
  BY <1>1, <1>2 DEF Ladder
<1>4. PICK i0 : i0 = SetMin(Targets)
  OBVIOUS
<1>5. i0 \in Targets /\ \A i \in Targets : i0 <= i
  BY <1>3, <1>4, Least
<1>6. i0 \in Ladder /\ i0 > tier
  BY <1>2, <1>5
<1>7. ASSUME NEW i \in (tier + 1)..(i0 - 1) PROVE PaidFor(i)'
  <2>1. i \in Ladder /\ i > tier /\ i < i0
    BY <1>1, <1>6, <1>7 DEF Ladder
  <2>2. i \notin Targets
    BY <1>1, <1>5, <1>6, <2>1 DEF Ladder
  <2>3. Info(tier)
    <3> SUFFICES ASSUME ~Info(tier) PROVE FALSE
      OBVIOUS
    <3>1. i0 = tier + 1
      BY <1>5 DEF Targets
    <3> QED BY <1>1, <2>1, <3>1 DEF Ladder
  <2> QED BY <2>1, <2>2, <2>3, LeftOut
<1> QED BY <1>4, <1>5, <1>6, <1>7

-----------------------------------------------------------------------------
(* No effort that failed is run again as progress. *)

\* An effort that is new for a model of which t was tried.
NewEffort(v, t) ==
  \/ t = None \/ v = Odd \/ t = Odd \/ v > t
  \/ v = Default /\ (t = Default \/ (t \in Ranks /\ t < High))

\* Trying the current effort again changes nothing.
LEMMA NowIsTried ==
  ASSUME LadderShape, CurrentIsTop, NEW m \in Models
  PROVE  TriedNow[m] = tried[m]
<1>1. CASE Tracked(tier)
  <2>1. Current \in Variants /\ T(tier).model \in Models /\ tried \in TriedType
    BY CurrentType, TierFields DEF LadderShape, TriedType
  <2>2. PICK x : x = T(tier).model
    OBVIOUS
  <2>3. PICK t : t = tried[x]
    OBVIOUS
  <2>4. /\ t # None
        /\ Current = t \/ Current = Odd \/ (Current = Default /\ t \in Ranks /\ t < High)
    BY <1>1, <2>2, <2>3 DEF CurrentIsTop
  <2>5. TriedNow[x] = IF t # None /\ (Current = Odd \/ (t # Odd /\ Current <= t)) THEN t ELSE Current
    BY <1>1, <2>1, <2>2, <2>3, RaiseFacts DEF TriedNow
  <2>6. TriedNow[x] = t
    <3>1. CASE Current = Odd
      BY <2>4, <2>5, <3>1
    <3>2. CASE Current = t /\ Current # Odd
      <4>1. Current <= t
        BY <2>1, <3>2, VariantOrder
      <4> QED BY <2>4, <2>5, <3>2, <4>1
    <3>3. CASE Current = Default /\ t \in Ranks
      <4>1. t # Odd /\ Current <= t
        BY <3>3, VariantOrder
      <4> QED BY <2>4, <2>5, <4>1
    <3> QED BY <2>4, <3>1, <3>2, <3>3
  <2>7. m # x => TriedNow[m] = tried[m]
    BY <1>1, <2>1, <2>2, RaiseFacts DEF TriedNow
  <2> QED BY <2>3, <2>6, <2>7
<1>2. CASE ~Tracked(tier)
  BY <1>2 DEF TriedNow
<1> QED BY <1>1, <1>2

\* What failed, this attempt included, is not above what was tried.
LEMMA FailedNow ==
  ASSUME LadderShape, PlanFits, FailedBelow, CurrentIsTop, NEW c, Rejected(c),
         NEW m \in Models, NEW v \in Ranks, <<m, v>> \in failed'
  PROVE  tried[m] \in Ranks /\ v <= tried[m]
<1>1. CASE <<m, v>> \in failed
  BY <1>1 DEF FailedBelow
<1>2. CASE Tracked(tier) /\ m = T(tier).model /\ v = plan.variant
  <2>1. v = Current
    BY <1>2 DEF PlanFits, Tracked
  <2>2. v # Odd /\ v # Default /\ v \in Nat
    BY VariantOrder
  <2>3. v = tried[m]
    BY <1>2, <2>1, <2>2 DEF CurrentIsTop
  <2> QED BY <2>2, <2>3
<1> QED BY <1>1, <1>2, RejectedFields

\* Raising keeps what failed below what was tried.
LEMMA RaiseKeeps ==
  ASSUME NEW t \in TriedType, NEW x \in Models, NEW w \in Variants, NEW m \in Models, NEW v \in Ranks,
         t[m] \in Ranks, v <= t[m]
  PROVE  RaiseTried(t, x, w)[m] \in Ranks /\ v <= RaiseTried(t, x, w)[m]
<1>1. CASE m # x
  BY <1>1, RaiseFacts
<1>2. CASE m = x
  <2>1. PICK a, b : a = t[m] /\ b = RaiseTried(t, x, w)[m]
    OBVIOUS
  <2>2. b = IF a # None /\ (w = Odd \/ (a # Odd /\ w <= a)) THEN a ELSE w
    BY <1>2, <2>1, RaiseFacts
  <2>3. a \in Ranks /\ v <= a /\ a \in Nat /\ w \in Nat /\ v \in Nat
    BY <2>1, VariantOrder
  <2>4. b = a \/ (b = w /\ w # Odd /\ w > a)
    BY <2>2, <2>3, VariantOrder
  <2>5. b \in Ranks /\ v <= b
    BY <2>3, <2>4, VariantOrder
  <2> QED BY <2>1, <2>5
<1> QED BY <1>1, <1>2

\* A tier that is entered, or a variant that is stepped to, at a new effort.
LEMMA NewEffortIs ==
  ASSUME NEW t \in TriedType, NEW m \in Models, NEW v \in Variants, NewEffort(v, t[m])
  PROVE  LET now == RaiseTried(t, m, v)[m] IN
           now # None /\ (v = now \/ v = Odd \/ (v = Default /\ now \in Ranks /\ now < High))
<1>1. PICK a, b : a = t[m] /\ b = RaiseTried(t, m, v)[m]
  OBVIOUS
<1>2. b = IF a # None /\ (v = Odd \/ (a # Odd /\ v <= a)) THEN a ELSE v
  BY <1>1, RaiseFacts
<1>3. a \in Variants \cup {None} /\ v \in Nat /\ v # None
  BY <1>1, VariantOrder DEF TriedType
<1>4. b # None /\ (v = b \/ v = Odd \/ (v = Default /\ b \in Ranks /\ b < High))
  BY <1>1, <1>2, <1>3, VariantOrder DEF NewEffort
<1> QED BY <1>1, <1>4

\* Such an effort, if it is ranked, did not fail before.
LEMMA NewEffortUnfailed ==
  ASSUME LadderShape, PlanFits, FailedBelow, CurrentIsTop, NEW c, Rejected(c),
         NEW m \in Models, NEW v \in Ranks, NewEffort(v, tried[m])
  PROVE  <<m, v>> \notin failed'
<1> SUFFICES ASSUME <<m, v>> \in failed' PROVE FALSE
  OBVIOUS
<1>1. PICK t : t = tried[m] /\ t \in Ranks /\ v <= t
  BY FailedNow
<1>2. v # Odd /\ v # Default /\ v \in Nat /\ t # Odd /\ t # None /\ t \in Nat
  BY <1>1, VariantOrder
<1>3. NewEffort(v, t)
  BY <1>1
<1> QED BY <1>1, <1>2, <1>3 DEF NewEffort

\* The next variant of the tier is new.
LEMMA StepIsNew ==
  ASSUME LadderShape, CurrentIsTop, CanStep
  PROVE  Tracked(tier) /\ NextRung \in Ranks /\ NewEffort(NextRung, tried[T(tier).model])
<1>1. /\ Current \in Variants /\ T(tier).ladder \in SUBSET Ranks /\ NextRung # None /\ Info(tier)
      /\ T(tier).effortConfigured => T(tier).ladder = {}
  BY CurrentType, TierFields DEF LadderShape, CanStep, NextRung
<1>2. /\ NextRung \in Ranks /\ NextRung > Current /\ Current # Odd
      /\ Current = Default => NextRung >= High
  BY <1>1, NextAbove DEF NextRung
<1>3. Tracked(tier)
  BY <1>1 DEF Tracked, NextRung, NextVariant, Above
<1>4. PICK t : t = tried[T(tier).model]
  OBVIOUS
<1>5. t # None /\ (Current = t \/ (Current = Default /\ t \in Ranks /\ t < High))
  BY <1>2, <1>3, <1>4 DEF CurrentIsTop
<1>6. NextRung > t
  <2>1. CASE Current = t
    BY <1>2, <2>1
  <2>2. CASE Current = Default /\ t \in Ranks /\ t < High
    BY <1>2, <2>2, VariantOrder
  <2> QED BY <1>5, <2>1, <2>2
<1> QED BY <1>2, <1>3, <1>4, <1>6 DEF NewEffort

\* The effort a tier is entered at is new.
LEMMA EntryIsNew ==
  ASSUME LadderShape, CurrentIsTop, Info(tier), NEW i \in Targets, i \in Ladder, Tracked(i)
  PROVE  EntryVariant(i) \in Variants /\ NewEffort(EntryVariant(i), tried[T(i).model])
<1>1. /\ T(i).model \in Models /\ T(i).base \in Variants /\ T(i).ladder \in SUBSET Ranks
  BY TierFields DEF LadderShape
<1>2. PICK t : t = tried[T(i).model] /\ t = TriedNow[T(i).model] /\ t \in Variants \cup {None}
  BY <1>1, NowIsTried DEF LadderShape
<1>3. CASE CoveredTier(i, TriedNow)
  <2>1. NextVariant(T(i).ladder, t) # None /\ t \in Variants
    BY <1>2, <1>3 DEF Targets, Enterable, CoveredTier
  <2>2. EntryVariant(i) = NextVariant(T(i).ladder, t)
    BY <1>2, <1>3, <2>1 DEF EntryVariant, Entry
  <2>3. EntryVariant(i) \in Ranks /\ EntryVariant(i) > t
    BY <1>1, <2>1, <2>2, NextAbove
  <2> QED BY <1>2, <2>3 DEF NewEffort, Variants
<1>4. CASE ~CoveredTier(i, TriedNow)
  <2>1. EntryVariant(i) = T(i).base
    BY <1>4 DEF EntryVariant, Entry
  <2>2. t = None \/ ~Covered(T(i).base, t)
    BY <1>2, <1>4 DEF CoveredTier
  <2>3. NewEffort(T(i).base, t)
    BY <1>1, <1>2, <2>2, VariantOrder DEF Covered, NewEffort, Upper, Lower
  <2> QED BY <1>1, <1>2, <2>1, <2>3
<1> QED BY <1>3, <1>4

\* The tier a delegation starts on.
LEMMA StartType ==
  ASSUME policy \in Policies
  PROVE  StartTier(policy) \in Ladder
<1>1. policy \in Policy /\ N \in Nat \ {0}
  BY DelegationAssumption
<1>2. PICK a, b : a = policy.producer /\ b = policy.floor /\ a \in 0..N /\ b \in 0..N
  BY <1>1 DEF Policy
<1>3. \E n \in {1, a, b} : \A k \in {1, a, b} : k <= n
  <2>1. CASE a <= b /\ 1 <= b
    BY <1>1, <1>2, <2>1
  <2>2. CASE b <= a /\ 1 <= a
    BY <1>1, <1>2, <2>2
  <2>3. CASE a <= 1 /\ b <= 1
    BY <1>1, <1>2, <2>3
  <2> QED BY <1>1, <1>2, <2>1, <2>2, <2>3
<1>4. /\ SetMax({1, a, b}) \in {1, a, b}
      /\ \A k \in {1, a, b} : k <= SetMax({1, a, b})
  BY <1>3, Zenon DEF SetMax
<1> QED BY <1>1, <1>2, <1>4 DEF StartTier, Ladder

-----------------------------------------------------------------------------
(* Every step keeps the order. *)

AllKnown == \A i \in Ladder : Info(i)

\* What the next attempt runs at.
LEMMA ContinueFields ==
  ASSUME NEW step, NEW next, NEW v, NEW e, Continue(step, next, v, e)
  PROVE  /\ plan'.step = step /\ plan'.tier = next /\ plan'.variant = v
         /\ phase' = "ready" /\ end' = end
BY DEF Continue, Plan

\* A policy that stays says the same of every tier.
LEMMA SamePolicy ==
  ASSUME policy' = policy
  PROVE  /\ StartTier(policy)' = StartTier(policy)
         /\ \A i \in Ladder : T(i)' = T(i) /\ Info(i)' = Info(i) /\ Tracked(i)' = Tracked(i)
         /\ AllKnown' = AllKnown
BY DEF T, Info, Tracked, AllKnown

\* The delegation goes on with an attempt on tier i at variant v.
LEMMA GoesOnInOrder ==
  ASSUME LadderInv, NEW c, GoesOn(c), NEW i \in Ladder, NEW v \in Variants,
         tier' = i, i >= tier, plan'.tier = i, plan'.variant = v, phase' = "ready", end' = end,
         attempts' \in Nat, variant' \in Variants \cup {None}, Info(i) => Current' = v,
         tried' = IF Tracked(i) /\ plan'.step # "retry" THEN RaiseTried(tried, T(i).model, v) ELSE tried,
         i = tier => Stays,
         \A j \in (tier + 1)..(i - 1) : PaidFor(j)',
         plan'.step = "retry" => i = tier /\ (Info(i) => v = Current),
         AllKnown /\ plan'.step # "retry" /\ Tracked(i) => NewEffort(v, tried[T(i).model])
  PROVE  LadderInv'
<1>1. /\ Rejected(c) /\ phase = "ran" /\ policy' = policy /\ total' = total + 1
      /\ visited' = visited \cup {tier} /\ failed \subseteq failed'
      /\ \A j \in Ladder : PaidFor(j) => PaidFor(j)'
  BY RejectedFields DEF GoesOn
<1>2. /\ LadderShape /\ end = "none" /\ PlanFits /\ TriedIsTrue /\ BelowTried /\ Reserved
      /\ AllKnown => FailedBelow /\ CurrentIsTop
  BY <1>1 DEF LadderInv, AllKnown
<1>3. /\ StartTier(policy)' = StartTier(policy)
      /\ \A j \in Ladder : T(j)' = T(j) /\ Info(j)' = Info(j) /\ Tracked(j)' = Tracked(j)
      /\ AllKnown' = AllKnown
  BY <1>1, SamePolicy
<1>4. /\ tried \in TriedType /\ T(i).model \in Models /\ N \in Nat /\ tier \in Ladder
      /\ total \in Nat /\ policy.maxTotalAttempts \in Nat
  BY <1>2, TierFields, DelegationAssumption DEF LadderShape, TriedType
<1>5. PICK m \in Models : m = T(i).model
  BY <1>4
<1>6. tried' \in TriedType
  BY <1>4, <1>5, RaiseFacts
<1>7. LadderShape'
  <2>1. i >= StartTier(policy)
    <3>1. StartTier(policy) <= tier
      BY <1>2 DEF LadderShape
    <3>2. StartTier(policy) \in Int
      <4>1. policy \in Policies
        BY <1>2 DEF LadderShape
      <4>2. StartTier(policy) \in Ladder
        BY <4>1, StartType
      <4> QED BY <4>2 DEF Ladder
    <3> QED BY <1>4, <3>1, <3>2 DEF Ladder
  <2> QED BY <1>1, <1>2, <1>3, <1>4, <1>6, <2>1 DEF LadderShape, TriedType
<1>8. PlanFits'
  BY <1>3 DEF PlanFits
<1>9. TriedIsTrue'
  <2> SUFFICES ASSUME NEW x \in Models, tried'[x] # None
               PROVE  <<x, tried'[x]>> \in failed' \/ (Tracked(i) /\ x = m /\ tried'[x] = v)
    BY <1>3, <1>5 DEF TriedIsTrue
  <2>1. tried[x] # None => <<x, tried[x]>> \in failed'
    BY <1>1, <1>2, NowFailed
  <2>2. tried'[x] = tried[x] \/ (Tracked(i) /\ x = m /\ tried'[x] = v)
    BY <1>4, <1>5, RaiseFacts
  <2> QED BY <2>1, <2>2
<1>10. BelowTried'
  <2> SUFFICES ASSUME policy.aware, NEW j \in StartTier(policy)..(i - 1) PROVE j \in visited' \/ PaidFor(j)'
    BY <1>1, <1>3 DEF BelowTried
  <2>1. j \in StartTier(policy)..(tier - 1) \/ j = tier \/ j \in (tier + 1)..(i - 1)
    BY <1>2, <1>4, StartType DEF Ladder, LadderShape
  <2>2. j \in Ladder
    BY <1>2, <1>4, StartType DEF Ladder, LadderShape
  <2> QED BY <1>1, <1>2, <2>1, <2>2 DEF BelowTried
<1>11. Reserved'
  <2> SUFFICES ASSUME policy.aware, policy.maxTotalAttempts > N - StartTier(policy)
               PROVE  policy.maxTotalAttempts - total' > N - i \/ \A j \in (i + 1)..N : PaidFor(j)'
    BY <1>1, <1>3 DEF Reserved
  <2>1. CASE i = tier
    <3>1. MayStay => policy.maxTotalAttempts - total' > N - i
      BY <1>1, <1>4, <2>1 DEF MayStay, Ladder
    <3> QED BY <1>1, <1>2, <2>1, <3>1, NoneLeft DEF Stays
  <2>2. CASE i > tier
    <3>1. policy.maxTotalAttempts - total > N - tier => policy.maxTotalAttempts - total' > N - i
      BY <1>1, <1>4, <2>2 DEF Ladder
    <3>2. \A j \in (i + 1)..N : j \in Ladder /\ j \in (tier + 1)..N
      BY <1>4, <2>2 DEF Ladder
    <3> QED BY <1>1, <1>2, <3>1, <3>2 DEF Reserved
  <2> QED BY <1>4, <2>1, <2>2 DEF Ladder
<1>12. ASSUME AllKnown PROVE FailedBelow' /\ CurrentIsTop'
  <2>1. FailedBelow'
    <3> SUFFICES ASSUME NEW x \in Models, NEW r \in Ranks, <<x, r>> \in failed'
                 PROVE  tried'[x] \in Ranks /\ r <= tried'[x]
      BY DEF FailedBelow
    <3>1. tried[x] \in Ranks /\ r <= tried[x]
      BY <1>1, <1>2, <1>12, FailedNow
    <3>2. CASE tried' = tried
      BY <3>1, <3>2
    <3>3. CASE tried' = RaiseTried(tried, T(i).model, v)
      <4>1. T(i).model \in Models /\ tried \in TriedType
        BY <1>4
      <4>2. RaiseTried(tried, T(i).model, v)[x] \in Ranks /\ r <= RaiseTried(tried, T(i).model, v)[x]
        BY <3>1, <4>1, RaiseKeeps
      <4> QED BY <3>3, <4>2
    <3> QED BY <3>2, <3>3
  <2>2. CASE plan'.step = "retry"
    <3>1. tried' = tried /\ i = tier
      BY <2>2
    <3>2. Info(i) /\ Current' = Current /\ tier' = tier
      <4>1. Info(i)
        BY <1>12 DEF AllKnown
      <4>2. v = Current
        BY <2>2, <4>1
      <4>3. Current' = v
        BY <4>1
      <4> QED BY <3>1, <4>1, <4>2, <4>3
    <3>3. Tracked(tier)' = Tracked(tier) /\ T(tier)' = T(tier)
      BY <1>1, <3>2 DEF Tracked, Info, T
    <3>4. CurrentIsTop
      BY <1>2, <1>12
    <3>5. T(tier)' = T(tier) /\ tried' = tried
      BY <3>1, <3>3
    <3> QED BY <2>1, <3>2, <3>3, <3>4, <3>5 DEF CurrentIsTop
  <2>3. CASE plan'.step # "retry"
    <3> SUFFICES ASSUME Tracked(i)
                 PROVE  /\ tried'[m] # None
                        /\ v = tried'[m] \/ v = Odd \/ (v = Default /\ tried'[m] \in Ranks /\ tried'[m] < High)
      BY <1>3, <1>5, <1>12, <2>1 DEF CurrentIsTop, Tracked, AllKnown
    <3>1. NewEffort(v, tried[m]) /\ tried' = RaiseTried(tried, m, v)
      BY <1>5, <1>12, <2>3
    <3> QED BY <1>4, <3>1, NewEffortIs
  <2> QED BY <2>1, <2>2, <2>3
<1>13. RungNotRepeated'
  <2> SUFFICES ASSUME plan'.step # "retry", Tracked(i), v \in Ranks, AllKnown PROVE <<m, v>> \notin failed'
    BY <1>3, <1>5 DEF RungNotRepeated, AllKnown
  <2>1. NewEffort(v, tried[m])
    BY <1>5
  <2> QED BY <1>1, <1>2, <2>1, NewEffortUnfailed
<1>14. EveryTierTried'
  BY <1>2 DEF EveryTierTried
<1> QED BY <1>2, <1>3, <1>7, <1>8, <1>9, <1>10, <1>11, <1>12, <1>13, <1>14 DEF LadderInv, LadderKept, AllKnown

\* What the steps of the loop find.
LEMMA RunningInv ==
  ASSUME LadderInv, phase # "over"
  PROVE  /\ LadderShape /\ end = "none" /\ PlanFits /\ TriedIsTrue /\ BelowTried /\ Reserved
         /\ AllKnown => FailedBelow /\ CurrentIsTop
BY DEF LadderInv, AllKnown

\* The delegation is over.
LEMMA OverInOrder ==
  ASSUME LadderInv, phase' = "over", UNCHANGED <<policy, tier, attempts, variant, tried, plan>>,
         total' \in Nat, EveryTierTried'
  PROVE  LadderInv'
<1>1. LadderShape
  BY DEF LadderInv
<1>2. StartTier(policy)' = StartTier(policy)
  BY SamePolicy
<1>3. LadderShape'
  BY <1>1, <1>2 DEF LadderShape
<1>4. RungNotRepeated'
  BY DEF RungNotRepeated
<1> QED BY <1>3, <1>4 DEF LadderInv, LadderKept

\* An attempt runs.
LEMMA RanInOrder ==
  ASSUME LadderInv, phase = "ready", phase' = "ran",
         UNCHANGED <<policy, ladderVars, plan, end, visited, failed>>
  PROVE  LadderInv'
<1>1. /\ LadderShape /\ end = "none" /\ PlanFits /\ TriedIsTrue /\ BelowTried /\ Reserved
      /\ AllKnown => FailedBelow /\ CurrentIsTop
  BY RunningInv
<1>2. /\ policy' = policy /\ tier' = tier /\ total' = total /\ attempts' = attempts
      /\ variant' = variant /\ tried' = tried /\ plan' = plan /\ end' = end
      /\ visited' = visited /\ failed' = failed
  BY DEF ladderVars
<1>3. /\ StartTier(policy)' = StartTier(policy)
      /\ \A j \in Ladder : T(j)' = T(j) /\ Info(j)' = Info(j) /\ Tracked(j)' = Tracked(j)
      /\ AllKnown' = AllKnown
  BY <1>2, SamePolicy
<1>4. /\ Current' = Current /\ Tracked(tier)' = Tracked(tier) /\ T(tier)' = T(tier)
      /\ Info(tier)' = Info(tier) /\ \A j : PaidFor(j)' = PaidFor(j)
  BY <1>2 DEF Current, Tracked, Info, T, PaidFor
<1>5. LadderShape'
  BY <1>1, <1>2, <1>3 DEF LadderShape
<1>6. PlanFits' /\ TriedIsTrue'
  BY <1>1, <1>2, <1>4 DEF PlanFits, TriedIsTrue
<1>7. BelowTried' /\ Reserved'
  BY <1>1, <1>2, <1>3, <1>4 DEF BelowTried, Reserved
<1>8. FailedBelow' = FailedBelow /\ CurrentIsTop' = CurrentIsTop
  BY <1>2, <1>4 DEF FailedBelow, CurrentIsTop
<1>9. RungNotRepeated' /\ EveryTierTried'
  BY <1>1, <1>2 DEF RungNotRepeated, EveryTierTried
<1> QED BY <1>1, <1>2, <1>3, <1>5, <1>6, <1>7, <1>8, <1>9 DEF LadderInv, LadderKept, AllKnown

\* Running an attempt keeps the order.
LEMMA AttemptInOrder ==
  ASSUME LadderInv, Attempt
  PROVE  LadderInv'
<1>1. CASE NoChild
  <2>1. total \in Nat /\ phase = "ready"
    BY <1>1 DEF LadderInv, LadderShape, NoChild, Begin
  <2>2. /\ phase' = "over" /\ end' = "nochild" /\ total' = total
        /\ UNCHANGED <<policy, tier, attempts, variant, tried, plan>>
    BY <1>1 DEF NoChild, Return, ladderVars
  <2>3. EveryTierTried'
    BY <2>2 DEF EveryTierTried
  <2> QED BY <2>1, <2>2, <2>3, OverInOrder
<1>2. CASE RunFresh \/ RunResumed \/ ResumeRefused \/ ResumeLost
  <2>1. /\ phase = "ready" /\ phase' = "ran"
        /\ UNCHANGED <<policy, ladderVars, plan, end, visited, failed>>
    BY <1>2 DEF RunFresh, RunResumed, ResumeRefused, ResumeLost, Ran, Begin, history
  <2> QED BY <2>1, RanInOrder
<1> QED BY <1>1, <1>2 DEF Attempt

\* The delegation ends with the ladder or its attempts used up.
LEMMA GivenUpInOrder ==
  ASSUME LadderInv, NEW c, NEW how, Rejected(c), Return(how), Unchanged, MaxReached \/ Targets = {}
  PROVE  LadderInv'
<1>1. /\ phase = "ran" /\ policy' = policy /\ total' = total + 1
      /\ visited' = visited \cup {tier} /\ failed \subseteq failed'
      /\ \A j \in Ladder : PaidFor(j) => PaidFor(j)'
  BY RejectedFields
<1>2. /\ LadderShape /\ PlanFits /\ TriedIsTrue /\ BelowTried /\ Reserved
  BY <1>1, RunningInv
<1>3. /\ StartTier(policy)' = StartTier(policy) /\ StartTier(policy) \in Ladder
      /\ N \in Nat /\ tier \in Ladder /\ total \in Nat /\ policy.maxTotalAttempts \in Nat
  BY <1>1, <1>2, SamePolicy, StartType, TierFields, DelegationAssumption DEF LadderShape
<1>4. ASSUME policy.aware, policy.maxTotalAttempts > N - StartTier(policy)
      PROVE  \A j \in (tier + 1)..N : PaidFor(j)'
  <2>1. CASE MaxReached
    <3> SUFFICES ASSUME NEW j \in (tier + 1)..N PROVE PaidFor(j)'
      OBVIOUS
    <3>1. j \in Ladder /\ N > tier
      BY <1>3 DEF Ladder
    <3>2. ~(policy.maxTotalAttempts - total > N - tier)
      BY <1>3, <2>1, <3>1 DEF MaxReached, Ladder
    <3> QED BY <1>1, <1>2, <1>4, <3>1, <3>2 DEF Reserved
  <2>2. CASE Targets = {}
    BY <1>2, <2>2, NoneLeft
  <2> QED BY <2>1, <2>2
<1>5. EveryTierTried'
  <2> SUFFICES ASSUME policy.aware, policy.maxTotalAttempts > N - StartTier(policy),
                      NEW j \in StartTier(policy)..N
               PROVE  j \in visited' \/ PaidFor(j)'
    BY <1>1, <1>3 DEF EveryTierTried, PaidFor
  <2>1. /\ j \in Ladder
        /\ j \in StartTier(policy)..(tier - 1) \/ j = tier \/ j \in (tier + 1)..N
    BY <1>3 DEF Ladder
  <2> QED BY <1>1, <1>2, <1>4, <2>1 DEF BelowTried
<1>6. phase' = "over" /\ UNCHANGED <<policy, tier, attempts, variant, tried, plan>> /\ total' \in Nat
  BY <1>1, <1>3 DEF Return, Unchanged
<1> QED BY <1>5, <1>6, OverInOrder

\* What an attempt that is rejected, but not the last one, finds.
LEMMA GoesOnFields ==
  ASSUME LadderInv, NEW c, GoesOn(c)
  PROVE  /\ Rejected(c) /\ phase = "ran" /\ policy' = policy /\ end = "none"
         /\ LadderShape /\ PlanFits /\ TriedIsTrue
         /\ AllKnown => CurrentIsTop
         /\ tier \in Ladder /\ N \in Nat /\ tier >= tier /\ attempts \in Nat
         /\ variant \in Variants \cup {None} /\ Current \in Variants
         /\ \A j \in (tier + 1)..(tier - 1) : PaidFor(j)'
<1>1. Rejected(c) /\ phase = "ran" /\ policy' = policy
  BY RejectedFields DEF GoesOn
<1>2. /\ LadderShape /\ end = "none" /\ PlanFits /\ TriedIsTrue
      /\ AllKnown => CurrentIsTop
  BY <1>1, RunningInv
<1>3. /\ tier \in Ladder /\ N \in Nat /\ attempts \in Nat /\ variant \in Variants \cup {None}
      /\ Current \in Variants
  BY <1>2, CurrentType, DelegationAssumption DEF LadderShape
<1>4. tier >= tier /\ \A j \in (tier + 1)..(tier - 1) : PaidFor(j)'
  BY <1>3 DEF Ladder
<1> QED BY <1>1, <1>2, <1>3, <1>4

\* A variant step keeps the order.
LEMMA StepInOrder ==
  ASSUME LadderInv, NEW c, StepVariant(c)
  PROVE  LadderInv'
<1>1. /\ GoesOn(c) /\ Stays /\ CanStep /\ variant' = NextRung
      /\ tried' = IF Tracked(tier) THEN RaiseTried(tried, T(tier).model, NextRung) ELSE tried
      /\ Continue("variant", tier, NextRung, 0) /\ tier' = tier /\ attempts' = attempts
  BY DEF StepVariant, applyRung
<1>2. /\ policy' = policy /\ end = "none" /\ LadderShape /\ tier \in Ladder /\ tier >= tier
      /\ attempts \in Nat /\ Current \in Variants
      /\ AllKnown => CurrentIsTop
      /\ \A j \in (tier + 1)..(tier - 1) : PaidFor(j)'
  BY <1>1, GoesOnFields
<1>3. /\ plan'.step = "variant" /\ plan'.tier = tier /\ plan'.variant = NextRung
      /\ phase' = "ready" /\ end' = end
  BY <1>1, ContinueFields
<1>4. PICK v : v = NextRung
  OBVIOUS
<1>5. v \in Ranks
  <2>1. T(tier).ladder \in SUBSET Ranks /\ NextVariant(T(tier).ladder, Current) # None
    BY <1>1, <1>2, TierFields DEF CanStep, LadderShape
  <2> QED BY <1>2, <1>4, <2>1, NextAbove DEF NextRung
<1>6. v \in Variants /\ v # None
  BY <1>5, VariantOrder DEF Variants
<1>7. Current' = v
  BY <1>1, <1>4, <1>6 DEF Current
<1>8. AllKnown => NewEffort(v, tried[T(tier).model])
  BY <1>1, <1>2, <1>4, StepIsNew
<1> QED
  BY <1>1, <1>2, <1>3, <1>4, <1>6, <1>7, <1>8, GoesOnInOrder

\* A plain retry keeps the order.
LEMMA RetryInOrder ==
  ASSUME LadderInv, NEW c, PlainRetry(c)
  PROVE  LadderInv'
<1>1. /\ GoesOn(c) /\ Stays /\ attempts' = attempts + 1 /\ Continue("retry", tier, Retried, Bumped)
      /\ tier' = tier /\ variant' = variant /\ tried' = tried
  BY DEF PlainRetry
<1>2. /\ policy' = policy /\ end = "none" /\ LadderShape /\ tier \in Ladder /\ tier >= tier
      /\ attempts \in Nat /\ variant \in Variants \cup {None} /\ Current \in Variants
      /\ \A j \in (tier + 1)..(tier - 1) : PaidFor(j)'
  BY <1>1, GoesOnFields
<1>3. /\ plan'.step = "retry" /\ plan'.tier = tier /\ plan'.variant = Retried
      /\ phase' = "ready" /\ end' = end
  BY <1>1, ContinueFields
<1>4. PICK v : v = Retried
  OBVIOUS
<1>5. v \in Variants /\ (Info(tier) => v = Current)
  BY <1>2, <1>4, TierFields DEF Retried, LadderShape
<1>6. Current' = Current
  BY <1>1, <1>2 DEF Current, T
<1>7. attempts' \in Nat /\ variant' \in Variants \cup {None}
  BY <1>1, <1>2
<1> QED
  BY <1>1, <1>2, <1>3, <1>4, <1>5, <1>6, <1>7, GoesOnInOrder

\* An escalation keeps the order.
LEMMA EscalateInOrder ==
  ASSUME LadderInv, NEW c, Escalate(c)
  PROVE  LadderInv'
<1>1. PICK i : i = SetMin(Targets)
  OBVIOUS
<1>2. /\ Targets # {} /\ GoesOn(c) /\ tier' = i /\ attempts' = 0 /\ variant' = Entry(i)
      /\ tried' = IF Tracked(i) THEN RaiseTried(tried, T(i).model, EntryVariant(i)) ELSE tried
      /\ Continue("escalate", i, EntryVariant(i), 0)
  BY <1>1 DEF Escalate, EscalateTo, applyRung
<1>3. /\ Rejected(c) /\ policy' = policy /\ end = "none" /\ LadderShape /\ PlanFits /\ TriedIsTrue
      /\ tier \in Ladder /\ N \in Nat
      /\ AllKnown => CurrentIsTop
  BY <1>2, GoesOnFields
<1>4. /\ i \in Targets /\ i \in Ladder /\ i > tier
      /\ \A j \in (tier + 1)..(i - 1) : PaidFor(j)'
  BY <1>1, <1>2, <1>3, FirstTarget
<1>5. /\ plan'.step = "escalate" /\ plan'.tier = i /\ plan'.variant = EntryVariant(i)
      /\ phase' = "ready" /\ end' = end
  BY <1>2, ContinueFields
<1>6. /\ T(i).model \in Models /\ T(i).base \in Variants /\ T(i).ladder \in SUBSET Ranks
      /\ T(i)' = T(i)
  BY <1>3, <1>4, TierFields DEF LadderShape, T
<1>7. Entry(i) \in Variants \cup {None} /\ EntryVariant(i) \in Variants
  <2>1. CASE Entry(i) = None
    BY <1>6, <2>1 DEF EntryVariant
  <2>2. CASE Entry(i) # None
    <3>1. /\ CoveredTier(i, TriedNow) /\ Entry(i) = NextVariant(T(i).ladder, TriedNow[T(i).model])
      BY <2>2 DEF Entry
    <3>2. TriedNow[T(i).model] \in Variants
      BY <1>3, <1>6, <3>1, NowFailed DEF CoveredTier, TriedType
    <3>3. Entry(i) \in Ranks
      BY <1>6, <2>2, <3>1, <3>2, NextAbove
    <3> QED BY <2>2, <3>3 DEF EntryVariant, Variants
  <2> QED BY <2>1, <2>2
<1>8. PICK v : v = EntryVariant(i)
  OBVIOUS
<1>9. Current' = v
  BY <1>2, <1>6, <1>8 DEF Current, EntryVariant
<1>10. AllKnown /\ Tracked(i) => NewEffort(v, tried[T(i).model])
  BY <1>3, <1>4, <1>8, EntryIsNew DEF AllKnown
<1>11. i >= tier /\ i # tier /\ attempts' \in Nat /\ v \in Variants
  BY <1>2, <1>3, <1>4, <1>7, <1>8 DEF Ladder
<1> QED
  BY <1>2, <1>3, <1>4, <1>5, <1>7, <1>8, <1>9, <1>10, <1>11, GoesOnInOrder

\* Judging an attempt keeps the order.
LEMMA VerdictInOrder ==
  ASSUME LadderInv, Verdict
  PROVE  LadderInv'
<1>1. phase = "ran" => total \in Nat
  BY DEF LadderInv, LadderShape
<1>2. CASE Defer \/ Throws
  <2>1. /\ phase' = "over" /\ end' \in {"deferred", "error"} /\ total' = total /\ phase = "ran"
        /\ UNCHANGED <<policy, tier, attempts, variant, tried, plan>>
    BY <1>2 DEF Defer, Throws, Return, ladderVars
  <2>2. EveryTierTried'
    BY <2>1 DEF EveryTierTried
  <2> QED BY <1>1, <2>1, <2>2, OverInOrder
<1>3. ASSUME NEW c \in Costs, Accept(c) \/ Unverifiable(c) \/ GiveUpCost(c)
      PROVE  LadderInv'
  <2>1. /\ phase' = "over" /\ end' \in {"accepted", "unverifiable", "cost"} /\ total' = total + 1
        /\ phase = "ran" /\ UNCHANGED <<policy, tier, attempts, variant, tried, plan>>
    BY <1>3 DEF Accept, Unverifiable, GiveUpCost, Rejected, Judged, Return, Unchanged
  <2>2. EveryTierTried'
    BY <2>1 DEF EveryTierTried
  <2> QED BY <1>1, <2>1, <2>2, OverInOrder
<1>4. ASSUME NEW c \in Costs, GiveUpMax(c) PROVE LadderInv'
  BY <1>4, GivenUpInOrder DEF GiveUpMax
<1>5. ASSUME NEW c \in Costs, GiveUpTop(c) PROVE LadderInv'
  BY <1>5, GivenUpInOrder DEF GiveUpTop, GoesOn
<1>6. ASSUME NEW c \in Costs, StepVariant(c) \/ PlainRetry(c) \/ Escalate(c) PROVE LadderInv'
  BY <1>6, StepInOrder, RetryInOrder, EscalateInOrder
<1> QED BY <1>2, <1>3, <1>4, <1>5, <1>6 DEF Verdict

\* The order holds before the first attempt.
LEMMA StartInOrder == Init => LadderInv
<1> SUFFICES ASSUME Init PROVE LadderInv
  OBVIOUS
<1>1. /\ policy \in Policies /\ tier = StartTier(policy) /\ attempts = 0 /\ total = 0
      /\ variant = None /\ phase = "ready" /\ end = "none" /\ failed = {} /\ plan = PlanFirst
      /\ tried = [m \in Models |-> IF Tracked(tier) /\ m = T(tier).model THEN T(tier).base ELSE None]
  BY DEF Init
<1>2. tier \in Ladder /\ N \in Nat
  BY <1>1, StartType, DelegationAssumption
<1>3. T(tier).model \in Models /\ T(tier).base \in Variants /\ policy.maxTotalAttempts \in Nat
  BY <1>1, <1>2, TierFields
<1>4. plan.tier = tier /\ plan.variant = T(tier).base /\ plan.step = "dispatch"
  BY <1>1 DEF PlanFirst, Plan
<1>5. Current = T(tier).base
  BY <1>1 DEF Current
<1>6. LadderShape
  BY <1>1, <1>2, <1>3, <1>4 DEF LadderShape, Ladder
<1>7. PlanFits /\ TriedIsTrue
  BY <1>1, <1>3, <1>4, <1>5 DEF PlanFits, TriedIsTrue
<1>8. BelowTried /\ Reserved
  BY <1>1, <1>2, <1>3 DEF BelowTried, Reserved, Ladder
<1>9. FailedBelow
  BY <1>1 DEF FailedBelow
<1>10. CurrentIsTop
  BY <1>1, <1>3, <1>5, VariantOrder DEF CurrentIsTop
<1>11. LadderKept
  BY <1>1, <1>4 DEF LadderKept, RungNotRepeated, EveryTierTried
<1> QED BY <1>1, <1>6, <1>7, <1>8, <1>9, <1>10, <1>11 DEF LadderInv

\* A delegation that is not judged keeps the order.
LEMMA StutterInOrder ==
  ASSUME LadderInv, UNCHANGED vars
  PROVE  LadderInv'
<1>1. UNCHANGED <<policy, tier, attempts, total, variant, tried, plan, phase, end, visited, failed>>
  BY DEF vars, ladderVars, history
<1> QED
  BY <1>1 DEF LadderInv, LadderShape, PlanFits, TriedIsTrue, BelowTried, Reserved, FailedBelow, CurrentIsTop,
              LadderKept, RungNotRepeated, EveryTierTried, Current, Tracked, Info, T, PaidFor

\* The ladder keeps its order: on any ladder whose every tier the catalog knows no ranked
\* effort that failed is paid for again as progress (skipCoveredTiers), and a session-aware
\* delegation that gives up at the end of its ladder or of its attempts has run every tier, but
\* for those a failed rung of their model covers (reserveAllows).
THEOREM LadderOrder == Spec => []LadderKept
<1>1. Init => LadderInv
  BY StartInOrder
<1>2. LadderInv /\ [Next]_vars => LadderInv'
  BY AttemptInOrder, VerdictInOrder, StutterInOrder DEF Next
<1>3. LadderInv => LadderKept
  BY DEF LadderInv
<1> QED BY <1>1, <1>2, <1>3, PTL DEF Spec

=============================================================================
