-------------------------------- MODULE Guards --------------------------------
(***************************************************************************)
(* The tool-call guard of a subagent (src/guard/guards.ts, store.ts,       *)
(* enforce.ts) and the budget of a role child (src/router/guard-profile.ts *)
(* and src/index.ts), as operations on the guard state of one session.     *)
(*                                                                         *)
(* A state is [born, budget, calls, total, dispatches, quiet, seen, done,  *)
(* denied, budgetRound, stopped]: `born` is false before ensure made it,   *)
(* quiet is consecutiveNonProducing, seen the set of reads made (the       *)
(* default retry cap is 1), done is deliverableExecuted, denied is [round, *)
(* count] and stopped the round of the last stop (0: never).  A call is    *)
(* [kind, fp]: "finish", "self_script", "read", "mutation" or "other", and *)
(* the fingerprint of a read.  A policy is [budget, cumulative,            *)
(* readDraftCap, blockSelfScript, signal, reader].                         *)
(***************************************************************************)
EXTENDS Integers, FiniteSets

REFUSAL_CAP == 10
TIER_GUARD_BUDGET == 25
ROUTE_BUDGET_RAISE_MAX == 2
GUARD_CUMULATIVE_MULTIPLIER == 3

Greater(m, n) == IF m >= n THEN m ELSE n
Lesser(m, n) == IF m <= n THEN m ELSE n

-----------------------------------------------------------------------------
(* Budgets                                                                 *)

\* raisedBudget: a route line's budget raises, to twice the base at most (0: none asked).
raisedBudget(base, asked) ==
  IF asked < 1 THEN base ELSE Lesser(Greater(base, asked), base * ROUTE_BUDGET_RAISE_MAX)

\* ownBudget: the role's budget of a tier; 0 when it has none.
ownBudget(role, tier) == IF tier \in DOMAIN role.budget THEN role.budget[tier] ELSE 0

roleGuardProfile(role, tier, routeBudget) ==
  LET own == ownBudget(role, tier)
      base == IF own > 0 THEN own ELSE Greater(ownBudget(role, role.ceiling), TIER_GUARD_BUDGET)
      budget == raisedBudget(base, routeBudget)
  IN  [kind |-> role.guard, budget |-> budget, cumulative |-> budget * GUARD_CUMULATIVE_MULTIPLIER]

READER_CLASSES == {"review", "recon", "search"}

\* A reader is not pushed to produce: a role by its profile, a tier by what it may do, by its
\* class or because its cap was lifted.
readerReason(hasProfile, profileKind, readOnlyTier, class, uncapped) ==
  IF hasProfile THEN profileKind = "reader"
  ELSE readOnlyTier \/ class \in READER_CLASSES \/ uncapped

\* buildGuardPolicy, and isReaderDispatch for a role child.
buildGuardPolicy(guard, profile) ==
  [budget |-> profile.budget,
   cumulative |-> Greater(profile.budget, profile.cumulative),
   readDraftCap |-> guard.readDraftCap,
   blockSelfScript |-> guard.blockSelfScript,
   signal |-> guard.signal,
   reader |-> readerReason(TRUE, profile.kind, FALSE, "other", FALSE)]

\* callMode: a trivial task is only advised, unless the configuration keeps it enforced.
callMode(guard, trivial) ==
  IF guard.mode = "enforced" /\ trivial /\ guard.trivialBypass THEN "advisory" ELSE guard.mode

-----------------------------------------------------------------------------
(* The state                                                               *)

NoState == [born |-> FALSE, budget |-> 0, calls |-> 0, total |-> 0, dispatches |-> 1, quiet |-> 0,
            seen |-> {}, done |-> FALSE, denied |-> [round |-> 0, count |-> 0],
            budgetRound |-> 0, stopped |-> 0]

newGuardState(policy) == [NoState EXCEPT !.born = TRUE, !.budget = policy.budget]

\* ensure: a later dispatch takes its own budget, once.
ensure(g, policy) ==
  IF ~g.born THEN newGuardState(policy)
  ELSE IF g.dispatches > 1 /\ g.budgetRound # g.dispatches
       THEN [g EXCEPT !.budget = policy.budget, !.budgetRound = g.dispatches]
  ELSE g

beginDispatch(g) == IF g.born THEN [g EXCEPT !.calls = 0, !.dispatches = @ + 1] ELSE g

deniedThisDispatch(g) == IF g.denied.round = g.dispatches THEN g.denied.count ELSE 0
refusalCap(g) == Lesser(g.budget, REFUSAL_CAP)
refusalsSpent(g) ==
  /\ deniedThisDispatch(g) >= refusalCap(g)
  /\ g.calls + deniedThisDispatch(g) >= g.budget
budgetSpent(g, policy) == g.calls >= g.budget \/ g.total >= policy.cumulative
guardStopped(g, policy) == budgetSpent(g, policy) \/ refusalsSpent(g)

STOP_GUARDS == {"iteration_cap", "cumulative_iteration_cap", "denied_cap"}

\* evaluateGuards: the first guard that refuses the call, "none" when it may run.
evaluateGuards(g, call, policy) ==
  LET kind == IF call.kind = "self_script" /\ ~policy.blockSelfScript THEN "mutation" ELSE call.kind
  IN  CASE kind = "finish" -> "none"
        [] kind = "self_script" -> "anti_self_script"
        [] OTHER ->
             IF g.calls >= g.budget THEN "iteration_cap"
             ELSE IF g.total >= policy.cumulative THEN "cumulative_iteration_cap"
             ELSE IF refusalsSpent(g) THEN "denied_cap"
             ELSE IF kind = "read" /\ call.fp \in g.seen THEN "redundant_read"
             ELSE IF kind = "read" /\ ~policy.reader /\ g.quiet >= policy.readDraftCap THEN "read_budget"
             ELSE IF policy.signal /\ ~g.done /\ kind \in {"read", "other"} THEN "deliverable_first"
             ELSE "none"

recordDenied(g) ==
  [g EXCEPT !.denied = [round |-> g.dispatches, count |-> deniedThisDispatch(g) + 1]]

\* updateState: what a finished call adds.
updateState(g, call, ok) ==
  LET counted == [g EXCEPT !.calls = @ + 1, !.total = @ + 1]
  IN  CASE call.kind = "finish" -> g
        [] call.kind = "mutation" -> [counted EXCEPT !.quiet = 0, !.done = @ \/ ok]
        [] call.kind = "read" -> [counted EXCEPT !.quiet = @ + 1, !.seen = @ \cup {call.fp}]
        [] OTHER -> [counted EXCEPT !.quiet = @ + 1]

-----------------------------------------------------------------------------
(* The hooks                                                               *)

\* guardBeforeCall: the state after it, and the guard that blocks the call ("none": it runs).
guardBeforeCall(g, mode, call, policy) ==
  LET s == ensure(g, policy)
      guard == evaluateGuards(s, call, policy)
      d == recordDenied(s)
  IN  IF mode = "off" THEN [state |-> g, guard |-> "none"]
      ELSE IF mode = "advisory" \/ guard = "none" THEN [state |-> s, guard |-> "none"]
      ELSE [state |-> IF guard \in STOP_GUARDS THEN [d EXCEPT !.stopped = d.dispatches] ELSE d,
            guard |-> guard]

\* guardRefusedCall: a call some other check refused counts against the refusals.
guardRefusedCall(g, mode, policy) ==
  LET d == recordDenied(ensure(g, policy))
  IN  IF mode = "off" THEN g
      ELSE IF refusalsSpent(d) /\ mode = "enforced" THEN [d EXCEPT !.stopped = d.dispatches]
      ELSE d

guardAfterCall(g, call, ok) == IF g.born THEN updateState(g, call, ok) ELSE g

\* Mutated form: the stop of an earlier attempt is reported again.
budgetExhaustedEver(g) == g.born /\ g.stopped # 0

\* budgetExhausted: a stop guard refused a call of the running round.
budgetExhausted(g) == g.born /\ g.stopped = g.dispatches

\* captureBudget with budgetClaimObserved: a claim counts when the budget is really used up.
budgetNotice(g, policy, claimed) == budgetExhausted(g) \/ (g.born /\ claimed /\ guardStopped(g, policy))

=============================================================================
