----------------------------- MODULE RolesProofs -----------------------------
(***************************************************************************)
(* Proofs about the life of a dispatch in roles mode, for any scenario:    *)
(* any configuration, any calls and resumes and any number of tool calls.  *)
(***************************************************************************)
EXTENDS Roles, FiniteSetTheorems, TLAPS

-----------------------------------------------------------------------------
(* The host's side: which sessions there are, and which calls run in them. *)

SessionShape(s) ==
  s \in [parent : {s.parent}, agent : {s.agent}, model : {s.model}, variant : {s.variant},
         title : {s.title}, prompt : {s.prompt}, facts : {s.facts}, detection : {s.detection}]

Event == [type : {"created", "deleted"}, id : Children \cup sc.parents]

\* A session of a fresh call is there from its start; a running call's child is not deleted.
HostIsSound ==
  /\ sc \in Scenarios
  /\ stage = [k \in DOMAIN sc.calls |-> stage[k]]
  /\ work = [k \in DOMAIN sc.calls |-> work[k]]
  /\ session = [c \in DOMAIN session |-> session[c]]
  /\ DOMAIN session \subseteq Children
  /\ \A c \in DOMAIN session : SessionShape(session[c])
  /\ gone \subseteq DOMAIN session \cup (sc.parents \ Children)
  /\ \A k \in DOMAIN sc.calls \cap DOMAIN session :
       ~Resumes(k) /\ stage[k] \in {"running", "after", "over"}
  /\ \A k \in DOMAIN sc.calls : stage[k] = "running" => Live(ChildOf(k))
  /\ events \in Seq(Event)
  /\ \A i \in DOMAIN events : events[i].type = "deleted" => events[i].id \in gone
  /\ \A i \in DOMAIN events : events[i].type = "created" => events[i].id \in DOMAIN session

-----------------------------------------------------------------------------
(* The guards: what a stop rests on. *)

\* Whatever it has seen and done.
GuardState(seen, done) ==
  [born : BOOLEAN, budget : Nat, calls : Nat, total : Nat, dispatches : Nat \ {0}, quiet : Nat,
   seen : {seen}, done : {done}, denied : [round : Nat, count : Nat],
   budgetRound : Nat, stopped : Nat]

\* In its first round a child's calls are all there are; a stop is of this round or before.
GuardSound(g) ==
  /\ g \in GuardState(g.seen, g.done)
  /\ ~g.born => g = NoState
  /\ g.stopped <= g.dispatches
  /\ g.dispatches = 1 => g.total = g.calls

\* A round after the first has a noted tier and budget; no budget was above the peak.
ProfileSound(p) ==
  /\ p \in [g : {p.g}, noted : {p.noted}, peak : Nat]
  /\ p.g.born => p.g.budget <= p.peak
  /\ p.g.dispatches > 1 => p.noted # <<>>
  /\ p.noted # <<>> => Head(p.noted).asked \in Nat

GuardsAreSound ==
  /\ guard = [c \in Children |-> guard[c]]
  /\ \A c \in Children : GuardSound(guard[c].g) /\ ProfileSound(guard[c])

\* Nothing the rest of the round can do makes the stopped child's next call legal.
Spent(c) ==
  LET g == guard[c].g
  IN  /\ g.born
      /\ g.dispatches > 1 => g.budgetRound = g.dispatches
      /\ \/ g.calls >= g.budget
         \/ refusalsSpent(g)
         \/ g.dispatches > 1 /\ g.total >= GuardPolicy(c).policy.cumulative

HaltsAreSpent ==
  /\ halted \subseteq {c \in DOMAIN session : session[c].agent \in DOMAIN sc.roles}
  /\ halted # {} => sc.guard.mode \notin {"off", "advisory"}
  /\ \A c \in Children \ gone : c \in halted <=> guard[c].g.stopped = guard[c].g.dispatches
  /\ \A c \in halted \ gone : Spent(c)

StopInv == HostIsSound /\ GuardsAreSound /\ HaltsAreSpent

-----------------------------------------------------------------------------
(* Guards: what the operations on a guard state do. *)

LEMMA NoStateSound == GuardSound(NoState)
BY DEF GuardSound, GuardState, NoState

LEMMA ProfileIsNumber ==
  ASSUME NEW role, role.budget \in [DOMAIN role.budget -> Nat], NEW tier, NEW asked \in Nat
  PROVE  roleGuardProfile(role, tier, asked).budget \in Nat
<1>1. PICK own : own = ownBudget(role, tier)
  OBVIOUS
<1>2. PICK top : top = ownBudget(role, role.ceiling)
  OBVIOUS
<1>3. own \in Nat /\ top \in Nat
  BY <1>1, <1>2 DEF ownBudget
<1>4. PICK base : base = IF own > 0 THEN own ELSE Greater(top, TIER_GUARD_BUDGET)
  OBVIOUS
<1>5. base \in Nat
  BY <1>3, <1>4 DEF Greater, TIER_GUARD_BUDGET
<1>6. raisedBudget(base, asked) \in Nat
  BY <1>5 DEF raisedBudget, Lesser, Greater, ROUTE_BUDGET_RAISE_MAX
<1> QED BY <1>1, <1>2, <1>4, <1>6 DEF roleGuardProfile

LEMMA EnsureIs ==
  ASSUME NEW g, GuardSound(g), NEW policy, policy.budget \in Nat, NEW s, s = ensure(g, policy)
  PROVE  /\ GuardSound(s) /\ s.born
         /\ s.dispatches = g.dispatches /\ s.stopped = g.stopped
         /\ s.dispatches > 1 => s.budgetRound = s.dispatches
         /\ s.budget = policy.budget \/ (g.born /\ s.budget = g.budget)
         /\ g.born /\ (g.dispatches > 1 => g.budgetRound = g.dispatches) => s = g
<1>1. CASE ~g.born
  <2>1. s = [born |-> TRUE, budget |-> policy.budget, calls |-> 0, total |-> 0, dispatches |-> 1,
             quiet |-> 0, seen |-> {}, done |-> FALSE, denied |-> [round |-> 0, count |-> 0],
             budgetRound |-> 0, stopped |-> 0]
    BY <1>1 DEF ensure, newGuardState, NoState
  <2>2. g.dispatches = 1 /\ g.stopped = 0
    BY <1>1 DEF GuardSound, NoState
  <2> QED BY <1>1, <2>1, <2>2 DEF GuardSound, GuardState
<1>2. CASE g.born /\ g.dispatches > 1 /\ g.budgetRound # g.dispatches
  <2>1. s = [born |-> g.born, budget |-> policy.budget, calls |-> g.calls, total |-> g.total,
             dispatches |-> g.dispatches, quiet |-> g.quiet, seen |-> g.seen, done |-> g.done,
             denied |-> [round |-> g.denied.round, count |-> g.denied.count],
             budgetRound |-> g.dispatches, stopped |-> g.stopped]
    BY <1>2 DEF ensure, GuardSound, GuardState
  <2> QED BY <1>2, <2>1 DEF GuardSound, GuardState
<1>3. CASE g.born /\ ~(g.dispatches > 1 /\ g.budgetRound # g.dispatches)
  <2>1. s = g
    BY <1>3 DEF ensure
  <2> QED BY <1>3, <2>1
<1> QED BY <1>1, <1>2, <1>3

LEMMA DeniedIs ==
  ASSUME NEW s, GuardSound(s), s.born, NEW d, d = recordDenied(s)
  PROVE  /\ GuardSound(d) /\ d.born
         /\ d.dispatches = s.dispatches /\ d.stopped = s.stopped /\ d.budget = s.budget
         /\ d.calls = s.calls /\ d.total = s.total /\ d.budgetRound = s.budgetRound
         /\ refusalsSpent(s) => refusalsSpent(d)
<1>1. d = [born |-> s.born, budget |-> s.budget, calls |-> s.calls, total |-> s.total,
           dispatches |-> s.dispatches, quiet |-> s.quiet, seen |-> s.seen, done |-> s.done,
           denied |-> [round |-> s.dispatches, count |-> deniedThisDispatch(s) + 1],
           budgetRound |-> s.budgetRound, stopped |-> s.stopped]
  BY DEF recordDenied, GuardSound, GuardState
<1>2. deniedThisDispatch(s) \in Nat /\ deniedThisDispatch(d) = deniedThisDispatch(s) + 1
  BY <1>1 DEF deniedThisDispatch, GuardSound, GuardState
<1>3. GuardSound(d)
  BY <1>1, <1>2 DEF GuardSound, GuardState
<1>4. refusalsSpent(s) => refusalsSpent(d)
  <2>1. s.budget \in Nat /\ s.calls \in Nat /\ d.budget = s.budget /\ d.calls = s.calls
    BY <1>1 DEF GuardSound, GuardState
  <2> QED BY <1>2, <2>1 DEF refusalsSpent, refusalCap, Lesser, REFUSAL_CAP
<1> QED BY <1>1, <1>3, <1>4

LEMMA StopIs ==
  ASSUME NEW d, GuardSound(d), d.born, NEW s, s = [d EXCEPT !.stopped = d.dispatches]
  PROVE  /\ GuardSound(s) /\ s.born
         /\ s.dispatches = d.dispatches /\ s.stopped = s.dispatches /\ s.budget = d.budget
         /\ s.calls = d.calls /\ s.total = d.total /\ s.budgetRound = d.budgetRound
         /\ refusalsSpent(s) <=> refusalsSpent(d)
<1>1. s = [born |-> d.born, budget |-> d.budget, calls |-> d.calls, total |-> d.total,
           dispatches |-> d.dispatches, quiet |-> d.quiet, seen |-> d.seen, done |-> d.done,
           denied |-> [round |-> d.denied.round, count |-> d.denied.count],
           budgetRound |-> d.budgetRound, stopped |-> d.dispatches]
  BY DEF GuardSound, GuardState
<1>2. GuardSound(s)
  BY <1>1 DEF GuardSound, GuardState
<1>3. refusalsSpent(s) <=> refusalsSpent(d)
  <2>1. s.budget = d.budget /\ s.calls = d.calls /\ s.dispatches = d.dispatches
        /\ s.denied.round = d.denied.round /\ s.denied.count = d.denied.count
    BY <1>1
  <2> QED BY <2>1 DEF refusalsSpent, refusalCap, deniedThisDispatch
<1> QED BY <1>1, <1>2, <1>3

LEMMA BeginIs ==
  ASSUME NEW g, GuardSound(g), NEW s, s = beginDispatch(g)
  PROVE  /\ GuardSound(s) /\ s.stopped # s.dispatches /\ (s.born <=> g.born)
         /\ s.budget = g.budget
<1>1. CASE g.born
  <2>1. s = [born |-> g.born, budget |-> g.budget, calls |-> 0, total |-> g.total,
             dispatches |-> g.dispatches + 1, quiet |-> g.quiet, seen |-> g.seen, done |-> g.done,
             denied |-> [round |-> g.denied.round, count |-> g.denied.count],
             budgetRound |-> g.budgetRound, stopped |-> g.stopped]
    BY <1>1 DEF beginDispatch, GuardSound, GuardState
  <2> QED BY <1>1, <2>1 DEF GuardSound, GuardState
<1>2. CASE ~g.born
  BY <1>2 DEF beginDispatch, GuardSound, NoState
<1> QED BY <1>1, <1>2 DEF GuardSound, GuardState

\* A finished call only adds to what is used up.
LEMMA AfterIs ==
  ASSUME NEW g, GuardSound(g), NEW call, NEW ok, NEW s, s = guardAfterCall(g, call, ok)
  PROVE  /\ GuardSound(s) /\ (s.born <=> g.born)
         /\ s.dispatches = g.dispatches /\ s.stopped = g.stopped /\ s.budget = g.budget
         /\ s.calls >= g.calls /\ s.total >= g.total /\ s.budgetRound = g.budgetRound
         /\ refusalsSpent(g) => refusalsSpent(s)
<1>1. CASE ~g.born \/ call.kind = "finish"
  <2>1. s = g
    BY <1>1 DEF guardAfterCall, updateState
  <2> QED BY <2>1 DEF GuardSound, GuardState
<1>2. CASE g.born /\ call.kind # "finish"
  <2>1. \E quiet, seen, done : quiet \in Nat /\
          s = [born |-> g.born, budget |-> g.budget, calls |-> g.calls + 1, total |-> g.total + 1,
               dispatches |-> g.dispatches, quiet |-> quiet, seen |-> seen, done |-> done,
               denied |-> [round |-> g.denied.round, count |-> g.denied.count],
               budgetRound |-> g.budgetRound, stopped |-> g.stopped]
    <3>1. PICK counted : counted = [g EXCEPT !.calls = @ + 1, !.total = @ + 1]
      OBVIOUS
    <3>2. counted = [born |-> g.born, budget |-> g.budget, calls |-> g.calls + 1,
               total |-> g.total + 1,
               dispatches |-> g.dispatches, quiet |-> g.quiet, seen |-> g.seen, done |-> g.done,
               denied |-> [round |-> g.denied.round, count |-> g.denied.count],
               budgetRound |-> g.budgetRound, stopped |-> g.stopped]
      BY <3>1 DEF GuardSound, GuardState
    <3>3. g.quiet \in Nat /\ g.quiet + 1 \in Nat
      BY DEF GuardSound, GuardState
    <3>4. CASE call.kind = "mutation"
      <4>1. s = [counted EXCEPT !.quiet = 0, !.done = @ \/ ok]
        BY <1>2, <3>1, <3>4 DEF guardAfterCall, updateState
      <4>2. PICK made : made = (counted.done \/ ok)
        OBVIOUS
      <4>3. s = [counted EXCEPT !.quiet = 0, !.done = made]
        BY <4>1, <4>2
      <4>4. s = [born |-> g.born, budget |-> g.budget, calls |-> g.calls + 1, total |-> g.total + 1,
                 dispatches |-> g.dispatches, quiet |-> 0, seen |-> g.seen, done |-> made,
                 denied |-> [round |-> g.denied.round, count |-> g.denied.count],
                 budgetRound |-> g.budgetRound, stopped |-> g.stopped]
        BY <3>2, <4>3
      <4> QED BY <4>4
    <3>5. CASE call.kind = "read"
      <4>1. s = [counted EXCEPT !.quiet = @ + 1, !.seen = @ \cup {call.fp}]
        BY <1>2, <3>1, <3>5 DEF guardAfterCall, updateState
      <4>2. PICK quiet : quiet = counted.quiet + 1
        OBVIOUS
      <4>3. PICK seen : seen = (counted.seen \cup {call.fp})
        OBVIOUS
      <4>4. s = [counted EXCEPT !.quiet = quiet, !.seen = seen]
        BY <4>1, <4>2, <4>3
      <4>5. s = [born |-> g.born, budget |-> g.budget, calls |-> g.calls + 1, total |-> g.total + 1,
                 dispatches |-> g.dispatches, quiet |-> quiet, seen |-> seen, done |-> g.done,
                 denied |-> [round |-> g.denied.round, count |-> g.denied.count],
                 budgetRound |-> g.budgetRound, stopped |-> g.stopped]
        BY <3>2, <4>4
      <4>6. quiet \in Nat
        BY <3>2, <3>3, <4>2
      <4> QED BY <4>5, <4>6
    <3>6. CASE call.kind \notin {"finish", "mutation", "read"}
      <4>1. s = [counted EXCEPT !.quiet = @ + 1]
        BY <1>2, <3>1, <3>6 DEF guardAfterCall, updateState
      <4> QED BY <3>2, <3>3, <4>1
    <3> QED BY <1>2, <3>4, <3>5, <3>6
  <2>2. PICK quiet, seen, done : quiet \in Nat /\
          s = [born |-> g.born, budget |-> g.budget, calls |-> g.calls + 1, total |-> g.total + 1,
               dispatches |-> g.dispatches, quiet |-> quiet, seen |-> seen, done |-> done,
               denied |-> [round |-> g.denied.round, count |-> g.denied.count],
               budgetRound |-> g.budgetRound, stopped |-> g.stopped]
    BY <2>1
  <2>3. GuardSound(s)
    BY <1>2, <2>2 DEF GuardSound, GuardState
  <2>4. refusalsSpent(g) => refusalsSpent(s)
    <3>1. /\ s.budget = g.budget /\ s.calls = g.calls + 1 /\ s.dispatches = g.dispatches
          /\ s.denied.round = g.denied.round /\ s.denied.count = g.denied.count
      BY <2>2
    <3>2. deniedThisDispatch(s) = deniedThisDispatch(g) /\ refusalCap(s) = refusalCap(g)
      BY <3>1 DEF deniedThisDispatch, refusalCap
    <3>3. g.calls \in Nat /\ g.budget \in Nat /\ deniedThisDispatch(g) \in Nat
      BY DEF deniedThisDispatch, GuardSound, GuardState
    <3> QED BY <3>1, <3>2, <3>3 DEF refusalsSpent
  <2> QED BY <1>2, <2>2, <2>3, <2>4 DEF GuardSound, GuardState
<1> QED BY <1>1, <1>2

\* A call that is not the child's finish is refused when the round is used up.
LEMMA RefusalIs ==
  ASSUME NEW s, NEW call, call.kind \in {"read", "mutation", "other"}, NEW policy,
         NEW e, e = evaluateGuards(s, call, policy)
  PROVE  /\ e \in STOP_GUARDS => guardStopped(s, policy)
         /\ guardStopped(s, policy) => e # "none"
<1>1. PICK kind : kind = IF call.kind = "self_script" /\ ~policy.blockSelfScript
                         THEN "mutation" ELSE call.kind
  OBVIOUS
<1>2. kind \in {"read", "mutation", "other"}
  BY <1>1
<1>3. e = IF s.calls >= s.budget THEN "iteration_cap"
          ELSE IF s.total >= policy.cumulative THEN "cumulative_iteration_cap"
          ELSE IF refusalsSpent(s) THEN "denied_cap"
          ELSE IF kind = "read" /\ call.fp \in s.seen THEN "redundant_read"
          ELSE IF kind = "read" /\ ~policy.reader /\ s.quiet >= policy.readDraftCap THEN "read_budget"
          ELSE IF policy.signal /\ ~s.done /\ kind \in {"read", "other"} THEN "deliverable_first"
          ELSE "none"
  BY <1>1, <1>2 DEF evaluateGuards
<1> QED BY <1>3 DEF STOP_GUARDS, guardStopped, budgetSpent

\* The child is at its round's own budget.
AtRound(g) == g.born /\ (g.dispatches > 1 => g.budgetRound = g.dispatches)

LEMMA GuardedIs ==
  ASSUME NEW c, NEW g, g = guard[c].g, GuardSound(g),
         NEW policy, policy.budget \in Nat, NEW call, call.kind \in {"read", "mutation", "other"},
         NEW mode, mode # "off", NEW ok,
         NEW r, r = Guarded(c, mode, call, policy, ok), NEW s, s = r.state
  PROVE  /\ GuardSound(s) /\ AtRound(s) /\ s.dispatches = g.dispatches
         /\ s.budget = policy.budget \/ (g.born /\ s.budget = g.budget)
         /\ \/ s.stopped = g.stopped
            \/ /\ s.stopped = s.dispatches /\ r.guard # "none" /\ mode # "advisory"
               /\ guardStopped(s, policy)
         /\ AtRound(g) => /\ s.calls = g.calls /\ s.total = g.total /\ s.budget = g.budget
                          /\ s.budgetRound = g.budgetRound
                          /\ refusalsSpent(g) => refusalsSpent(s)
         /\ AtRound(g) /\ r.guard = "none" /\ mode # "advisory" => ~guardStopped(g, policy)
<1>1. PICK n : n = ensure(g, policy)
  OBVIOUS
<1>2. PICK d : d = recordDenied(n)
  OBVIOUS
<1>3. PICK p : p = [d EXCEPT !.stopped = d.dispatches]
  OBVIOUS
<1>4. /\ GuardSound(n) /\ n.born
      /\ n.dispatches = g.dispatches /\ n.stopped = g.stopped
      /\ n.dispatches > 1 => n.budgetRound = n.dispatches
      /\ n.budget = policy.budget \/ (g.born /\ n.budget = g.budget)
      /\ AtRound(g) => n = g
  BY <1>1, EnsureIs DEF AtRound
<1>5. /\ GuardSound(d) /\ d.born
      /\ d.dispatches = n.dispatches /\ d.stopped = n.stopped /\ d.budget = n.budget
      /\ d.calls = n.calls /\ d.total = n.total /\ d.budgetRound = n.budgetRound
      /\ refusalsSpent(n) => refusalsSpent(d)
  BY <1>2, <1>4, DeniedIs
<1>6. /\ GuardSound(p) /\ p.born
      /\ p.dispatches = d.dispatches /\ p.stopped = p.dispatches /\ p.budget = d.budget
      /\ p.calls = d.calls /\ p.total = d.total /\ p.budgetRound = d.budgetRound
      /\ refusalsSpent(p) <=> refusalsSpent(d)
  BY <1>3, <1>5, StopIs
<1>7. PICK e : e = evaluateGuards(n, call, policy)
  OBVIOUS
<1>8. /\ e \in STOP_GUARDS => guardStopped(n, policy)
      /\ guardStopped(n, policy) => e # "none"
  BY <1>7, RefusalIs
<1>9. guardStopped(n, policy) => guardStopped(p, policy)
  BY <1>5, <1>6 DEF guardStopped, budgetSpent
<1>10. CASE s = n /\ r.guard = "none" /\ (mode = "advisory" \/ e = "none")
  BY <1>4, <1>8, <1>10 DEF AtRound
<1>11. CASE s = d /\ r.guard # "none"
  BY <1>4, <1>5, <1>11 DEF AtRound
<1>12. CASE s = p /\ r.guard # "none" /\ mode # "advisory" /\ guardStopped(p, policy)
  BY <1>4, <1>5, <1>6, <1>12 DEF AtRound
<1>13. \/ s = n /\ r.guard = "none" /\ (mode = "advisory" \/ e = "none")
       \/ s = d /\ r.guard # "none"
       \/ s = p /\ r.guard # "none" /\ mode # "advisory" /\ guardStopped(p, policy)
  <2>1. CASE ok /\ (mode = "advisory" \/ e = "none")
    <3>1. r = [state |-> n, guard |-> "none"]
      BY <1>1, <1>7, <2>1 DEF Guarded, guardBeforeCall
    <3>2. s = n /\ r.guard = "none"
      BY <3>1
    <3> QED BY <2>1, <3>2, Zenon
  <2>2. CASE ok /\ ~(mode = "advisory" \/ e = "none")
    <3>1. r = [state |-> IF e \in STOP_GUARDS THEN p ELSE d, guard |-> e]
      BY <1>1, <1>2, <1>3, <1>7, <2>2 DEF Guarded, guardBeforeCall
    <3>2. CASE e \in STOP_GUARDS
      <4>1. s = p /\ r.guard = e
        BY <3>1, <3>2
      <4> QED BY <1>8, <1>9, <2>2, <3>2, <4>1, Zenon
    <3>3. CASE e \notin STOP_GUARDS
      <4>1. s = d /\ r.guard = e
        BY <3>1, <3>3
      <4> QED BY <2>2, <4>1, Zenon
    <3> QED BY <3>2, <3>3
  <2>3. CASE ~ok
    <3>1. r = [state |-> IF refusalsSpent(d) /\ mode = "enforced" THEN p ELSE d,
               guard |-> "authority"]
      BY <1>1, <1>2, <1>3, <2>3 DEF Guarded, guardRefusedCall
    <3>2. CASE refusalsSpent(d) /\ mode = "enforced"
      <4>1. guardStopped(p, policy)
        BY <1>6, <3>2 DEF guardStopped
      <4>2. s = p /\ r.guard = "authority"
        BY <3>1, <3>2
      <4> QED BY <3>2, <4>1, <4>2
    <3>3. CASE ~(refusalsSpent(d) /\ mode = "enforced")
      <4>1. s = d /\ r.guard = "authority"
        BY <3>1, <3>3
      <4> QED BY <4>1
    <3> QED BY <3>2, <3>3
  <2> QED BY <2>1, <2>2, <2>3
<1> QED BY <1>10, <1>11, <1>12, <1>13

\* GuardPolicy of a profile.
PolicyOf(of, profile, before) ==
  LET peak == Greater(before, profile.budget)
  IN  [policy |-> buildGuardPolicy(of, [profile EXCEPT !.cumulative =
                    Greater(@, peak * GUARD_CUMULATIVE_MULTIPLIER)]),
       peak |-> peak]

LEMMA PolicyOfIs ==
  ASSUME NEW of, NEW role, role.budget \in [DOMAIN role.budget -> Nat], NEW tier, NEW asked \in Nat,
         NEW before \in Nat, NEW profile, profile = roleGuardProfile(role, tier, asked),
         NEW p, p = PolicyOf(of, profile, before)
  PROVE  /\ profile.budget \in Nat /\ p.policy.budget = profile.budget
         /\ p.peak \in Nat /\ p.peak >= before /\ p.peak >= profile.budget
         /\ p.peak = before \/ p.peak = profile.budget
         /\ p.policy.cumulative = 3 * p.peak
<1>1. profile.budget \in Nat
  BY ProfileIsNumber
<1>2. PICK b \in Nat : b = profile.budget
  BY <1>1
<1>3. \E kind : profile = [kind |-> kind, budget |-> b, cumulative |-> b * 3]
  BY <1>2 DEF roleGuardProfile, GUARD_CUMULATIVE_MULTIPLIER
<1>4. PICK peak : peak = Greater(before, b)
  OBVIOUS
<1>5. peak \in Nat /\ peak >= before /\ peak >= b /\ (peak = before \/ peak = b)
  BY <1>2, <1>4 DEF Greater
<1>6. PICK top : top = [profile EXCEPT !.cumulative = Greater(@, peak * GUARD_CUMULATIVE_MULTIPLIER)]
  OBVIOUS
<1>7. top.budget = b /\ top.cumulative = Greater(b * 3, peak * 3)
  BY <1>3, <1>6 DEF GUARD_CUMULATIVE_MULTIPLIER
<1>8. Greater(b * 3, peak * 3) = 3 * peak /\ Greater(b, 3 * peak) = 3 * peak
  BY <1>2, <1>5 DEF Greater
<1>9. p = [policy |-> buildGuardPolicy(of, top), peak |-> peak]
  BY <1>2, <1>4, <1>6, Zenon DEF PolicyOf
<1>10. p.peak = peak /\ p.policy.budget = b /\ p.policy.cumulative = 3 * peak
  BY <1>7, <1>8, <1>9 DEF buildGuardPolicy
<1> QED BY <1>1, <1>2, <1>5, <1>10

\* The profile of a child of a role.
ProfileOf(c) == roleGuardProfile(sc.roles[session[c].agent], GuardTier(c), RouteBudget(c))

LEMMA AskedIsNumber ==
  ASSUME HostIsSound, GuardsAreSound, NEW c \in Children
  PROVE  RouteBudget(c) \in Nat
<1>1. CASE guard[c].noted # <<>>
  BY <1>1 DEF RouteBudget, GuardsAreSound, ProfileSound
<1>2. CASE guard[c].noted = <<>> /\ IsExact(currentBinding(c)) /\ c \in DOMAIN work
  <2>1. c \in DOMAIN sc.calls
    BY <1>2 DEF HostIsSound
  <2>2. sc.calls[c].routeBudget \in Nat
    BY <2>1, ScenariosAssumption DEF HostIsSound
  <2>3. RouteBudget(c) = sc.calls[c].routeBudget
    BY <1>2, Zenon DEF RouteBudget
  <2> QED BY <2>2, <2>3
<1>3. CASE guard[c].noted = <<>> /\ ~(IsExact(currentBinding(c)) /\ c \in DOMAIN work)
  <2>1. RouteBudget(c) = 0
    BY <1>3, Zenon DEF RouteBudget
  <2> QED BY <2>1
<1> QED BY <1>1, <1>2, <1>3

LEMMA PolicyIs ==
  ASSUME HostIsSound, GuardsAreSound, NEW c \in Children, session[c].agent \in DOMAIN sc.roles,
         NEW p, p = GuardPolicy(c)
  PROVE  /\ p.policy.budget \in Nat
         /\ p.peak \in Nat /\ p.peak >= guard[c].peak /\ p.peak >= p.policy.budget
         /\ p.peak = guard[c].peak \/ p.peak = p.policy.budget
         /\ p.policy.cumulative = 3 * p.peak
         /\ p = PolicyOf(sc.guard, ProfileOf(c), guard[c].peak)
         /\ p.policy.budget = ProfileOf(c).budget
<1>1. PICK role : role = sc.roles[session[c].agent]
  OBVIOUS
<1>2. role.budget \in [DOMAIN role.budget -> Nat]
  BY <1>1, ScenariosAssumption DEF HostIsSound
<1>3. p = PolicyOf(sc.guard, ProfileOf(c), guard[c].peak)
  BY Zenon DEF GuardPolicy, PolicyOf, ProfileOf
<1>4. PICK tier : tier = GuardTier(c)
  OBVIOUS
<1>5. PICK asked \in Nat : asked = RouteBudget(c)
  BY AskedIsNumber
<1>6. ProfileOf(c) = roleGuardProfile(role, tier, asked)
  BY <1>1, <1>4, <1>5 DEF ProfileOf
<1>7. guard[c].peak \in Nat
  BY DEF GuardsAreSound, ProfileSound
<1> QED BY <1>2, <1>3, <1>6, <1>7, PolicyOfIs

\* In a round with a noted budget the cumulative limit stays where it is.
LEMMA PolicyStays ==
  ASSUME HostIsSound, GuardsAreSound, NEW c \in Children, session[c].agent \in DOMAIN sc.roles,
         guard[c].noted # <<>>, guard'[c].noted = guard[c].noted,
         guard'[c].peak \in {guard[c].peak, GuardPolicy(c).peak},
         sc' = sc, session'[c].agent = session[c].agent
  PROVE  GuardPolicy(c)'.policy.cumulative = GuardPolicy(c).policy.cumulative
<1>1. PICK role : role = sc.roles[session[c].agent]
  OBVIOUS
<1>2. role.budget \in [DOMAIN role.budget -> Nat]
  BY <1>1, ScenariosAssumption DEF HostIsSound
<1>3. PICK tier, asked : tier = Head(guard[c].noted).tier /\ asked = Head(guard[c].noted).asked
  OBVIOUS
<1>4. asked \in Nat /\ guard[c].peak \in Nat
  BY <1>3 DEF GuardsAreSound, ProfileSound
<1>5. PICK profile : profile = roleGuardProfile(role, tier, asked)
  OBVIOUS
<1>6. GuardPolicy(c) = PolicyOf(sc.guard, profile, guard[c].peak)
  BY <1>1, <1>3, <1>5, Zenon DEF GuardPolicy, PolicyOf, GuardTier, RouteBudget
<1>7. GuardPolicy(c)' = PolicyOf(sc.guard, profile, guard'[c].peak)
  BY <1>1, <1>3, <1>5, Zenon DEF GuardPolicy, PolicyOf, GuardTier, RouteBudget
<1>8. PICK m : m = GuardPolicy(c).peak
  OBVIOUS
<1>9. /\ m \in Nat /\ m >= guard[c].peak /\ m >= profile.budget
      /\ m = guard[c].peak \/ m = profile.budget
      /\ GuardPolicy(c).policy.cumulative = 3 * m
  BY <1>2, <1>4, <1>5, <1>6, <1>8, PolicyOfIs
<1>10. PICK n : n = GuardPolicy(c)'.peak
  OBVIOUS
<1>11. guard'[c].peak \in Nat
  BY <1>4, <1>8, <1>9
<1>12. /\ n \in Nat /\ n >= guard'[c].peak /\ n >= profile.budget
       /\ n = guard'[c].peak \/ n = profile.budget
       /\ GuardPolicy(c)'.policy.cumulative = 3 * n
  BY <1>2, <1>4, <1>5, <1>7, <1>10, <1>11, PolicyOfIs
<1>13. profile.budget \in Nat
  BY <1>2, <1>4, <1>5, ProfileIsNumber
<1>14. n = m
  BY <1>4, <1>8, <1>9, <1>11, <1>12, <1>13
<1> QED BY <1>9, <1>12, <1>14

-----------------------------------------------------------------------------
(* What keeps the host's side sound. *)

LEMMA StageMoves ==
  ASSUME HostIsSound, NEW k \in DOMAIN sc.calls, NEW v, stage' = [stage EXCEPT ![k] = v],
         v # "running", stage[k] \in {"running", "after", "over"} => v \in {"after", "over"},
         work' = [j \in DOMAIN sc.calls |-> work'[j]], UNCHANGED <<sc, session, gone, events>>
  PROVE  HostIsSound'
<1>1. /\ stage' = [j \in DOMAIN sc.calls |-> stage'[j]]
      /\ \A j \in DOMAIN sc.calls : stage'[j] = IF j = k THEN v ELSE stage[j]
  BY DEF HostIsSound
<1>2. \A j \in DOMAIN sc.calls \cap DOMAIN session :
        ~Resumes(j)' /\ stage'[j] \in {"running", "after", "over"}
  BY <1>1 DEF HostIsSound, Resumes
<1>3. \A j \in DOMAIN sc.calls : stage'[j] = "running" => Live(ChildOf(j))'
  BY <1>1 DEF HostIsSound, Live, ChildOf
<1> QED BY <1>1, <1>2, <1>3 DEF HostIsSound, Children, Event

LEMMA HostStays ==
  ASSUME HostIsSound, UNCHANGED <<sc, stage, work, session, gone, events>>
  PROVE  HostIsSound'
<1>1. \A j \in DOMAIN sc.calls \cap DOMAIN session :
        ~Resumes(j)' /\ stage'[j] \in {"running", "after", "over"}
  BY DEF HostIsSound, Resumes
<1>2. \A j \in DOMAIN sc.calls : stage'[j] = "running" => Live(ChildOf(j))'
  BY DEF HostIsSound, Live, ChildOf
<1> QED BY <1>1, <1>2 DEF HostIsSound, Children, Event

LEMMA EventAppended ==
  ASSUME NEW s \in Seq(Event), NEW e \in Event
  PROVE  /\ Append(s, e) \in Seq(Event) /\ Append(s, e)[Len(s) + 1] = e
         /\ DOMAIN s = 1..Len(s) /\ DOMAIN Append(s, e) = 1..Len(s) + 1 /\ Len(s) \in Nat
         /\ \A i \in DOMAIN s : Append(s, e)[i] = s[i]
OBVIOUS

\* A new session: of a fresh call that starts to run, or a fork.
LEMMA SessionAdded ==
  ASSUME HostIsSound, NEW c \in Children \ DOMAIN session, NEW s, SessionShape(s),
         session' = Put(session, c, s), events' = Append(events, [type |-> "created", id |-> c]),
         \/ UNCHANGED stage /\ c \notin DOMAIN sc.calls
         \/ /\ stage' = [stage EXCEPT ![c] = "running"] /\ ~Resumes(c) /\ ChildOf(c) = c
            /\ c \in DOMAIN sc.calls,
         UNCHANGED <<sc, work, gone>>
  PROVE  /\ HostIsSound'
         /\ \A x \in DOMAIN session : x \in DOMAIN session' /\ session'[x] = session[x]
<1>1. /\ DOMAIN session' = DOMAIN session \cup {c} /\ session'[c] = s
      /\ \A x \in DOMAIN session : session'[x] = session[x]
      /\ session' = [x \in DOMAIN session' |-> session'[x]]
  BY DEF Put, remember
<1>2. stage' = [j \in DOMAIN sc.calls |-> stage'[j]]
      /\ \A j \in DOMAIN sc.calls : j # c => stage'[j] = stage[j]
  BY DEF HostIsSound
<1>3. c \in DOMAIN sc.calls => stage'[c] = "running" /\ ~Resumes(c) /\ ChildOf(c) = c
  BY DEF HostIsSound
<1>4. \A j \in DOMAIN sc.calls \cap DOMAIN session' :
        ~Resumes(j)' /\ stage'[j] \in {"running", "after", "over"}
  BY <1>1, <1>2, <1>3 DEF HostIsSound, Resumes
<1>5. c \notin gone
  BY DEF HostIsSound
<1>6. \A j \in DOMAIN sc.calls : stage'[j] = "running" => Live(ChildOf(j))'
  <2> SUFFICES ASSUME NEW j \in DOMAIN sc.calls, stage'[j] = "running"
               PROVE  ChildOf(j) \in DOMAIN session' \ gone
    BY DEF Live, ChildOf
  <2>1. CASE j = c
    BY <1>1, <1>3, <1>5, <2>1
  <2>2. CASE j # c
    BY <1>1, <1>2, <2>2 DEF HostIsSound, Live
  <2> QED BY <2>1, <2>2
<1>7. /\ events' \in Seq(Event)
      /\ \A i \in DOMAIN events' :
           /\ events'[i].type = "deleted" => events'[i].id \in gone
           /\ events'[i].type = "created" => events'[i].id \in DOMAIN session'
  <2>1. PICK e : e = [type |-> "created", id |-> c]
    OBVIOUS
  <2>2. /\ e \in Event /\ e.type = "created" /\ e.id = c
        /\ events' = Append(events, e) /\ events \in Seq(Event)
    BY <2>1 DEF Event, HostIsSound
  <2> QED BY <1>1, <2>2, EventAppended DEF HostIsSound
<1>8. \A x \in DOMAIN session' : SessionShape(session'[x])
  BY <1>1 DEF HostIsSound
<1> QED BY <1>1, <1>2, <1>4, <1>6, <1>7, <1>8 DEF HostIsSound, Children, Event, SessionShape

LEMMA SetToSeqIs ==
  ASSUME NEW S, IsFiniteSet(S)
  PROVE  SetToSeq(S) \in Seq(S)
<1>1. Cardinality(S) \in Nat /\ ExistsBijection(1..Cardinality(S), S)
  BY FS_CardinalityType
<1>2. PICK f \in [1..Cardinality(S) -> S] : IsInjective(f)
  BY <1>1 DEF ExistsBijection, Bijection, Injection, IsInjective
<1>3. SetToSeq(S) \in [1..Cardinality(S) -> S]
  BY <1>2, Zenon DEF SetToSeq
<1> QED BY <1>1, <1>3

LEMMA DeleteHost ==
  ASSUME HostIsSound, NEW s \in Children \cup sc.parents, Delete(s)
  PROVE  HostIsSound' /\ gone \subseteq gone'
<1>1. PICK below : below = IF s \in DOMAIN session THEN {}
                           ELSE {c \in DOMAIN session \ gone : session[c].parent = s}
  OBVIOUS
<1>2. /\ s \in (DOMAIN session \cup (sc.parents \ Children)) \ gone
      /\ \A c \in below \cup {s} : ~Runs(c)
      /\ gone' = gone \cup {s} \cup below
      /\ events' = events \o SetToSeq({[type |-> "deleted", id |-> c] : c \in below \cup {s}})
      /\ UNCHANGED <<sc, stage, work, session>>
  BY <1>1 DEF Delete
<1>3. below \subseteq DOMAIN session /\ below \subseteq Children
  BY <1>1 DEF HostIsSound
<1>4. PICK D : D = {[type |-> "deleted", id |-> c] : c \in below \cup {s}}
  OBVIOUS
<1>5. IsFiniteSet(D)
  <2>1. IsFiniteSet(Children)
    <3>1. IsFiniteSet(DOMAIN sc.calls)
      BY ScenariosAssumption DEF HostIsSound
    <3> QED BY <3>1, FS_AddElement DEF Children
  <2>2. IsFiniteSet(below \cup {s})
    <3>1. IsFiniteSet(below)
      BY <1>3, <2>1, FS_Subset
    <3> QED BY <3>1, FS_AddElement
  <2>3. PICK B : B = below \cup {s}
    OBVIOUS
  <2>4. PICK f : f = [c \in B |-> [type |-> "deleted", id |-> c]]
    OBVIOUS
  <2>5. f \in [B -> D] /\ \A e \in D : \E c \in B : f[c] = e
    BY <1>4, <2>3, <2>4
  <2>6. f \in Surjection(B, D)
    BY <2>5 DEF Surjection
  <2> QED BY <2>2, <2>3, <2>6, FS_Surjection
<1>6. PICK q : q = SetToSeq(D)
  OBVIOUS
<1>7. q \in Seq(D) /\ \A e \in D : e \in Event /\ e.type = "deleted" /\ e.id \in gone'
  <2>1. q \in Seq(D)
    BY <1>5, <1>6, SetToSeqIs
  <2>2. \A e \in D : e \in Event /\ e.type = "deleted" /\ e.id \in gone'
    BY <1>2, <1>3, <1>4 DEF Event
  <2> QED BY <2>1, <2>2
<1>8. events' = events \o q /\ events \in Seq(Event) /\ q \in Seq(Event)
  <2>1. q \in [1..Len(q) -> D] /\ Len(q) \in Nat
    BY <1>7
  <2>2. q \in [1..Len(q) -> Event]
    BY <1>7, <2>1
  <2> QED BY <1>2, <1>4, <1>6, <2>1, <2>2 DEF HostIsSound
<1>9. /\ events' \in Seq(Event) /\ DOMAIN events' = 1..Len(events) + Len(q)
      /\ \A i \in 1..Len(events) : events'[i] = events[i]
      /\ \A i \in Len(events) + 1..Len(events) + Len(q) : events'[i] = q[i - Len(events)]
  BY <1>8
<1>10. \A i \in DOMAIN events' :
         /\ events'[i].type = "deleted" => events'[i].id \in gone'
         /\ events'[i].type = "created" => events'[i].id \in DOMAIN session
  <2> TAKE i \in DOMAIN events'
  <2>1. CASE i \in 1..Len(events)
    <3>1. i \in DOMAIN events
      BY <1>8, <2>1
    <3> QED BY <1>2, <1>9, <2>1, <3>1 DEF HostIsSound
  <2>2. CASE i \notin 1..Len(events)
    <3>1. /\ i \in Len(events) + 1..Len(events) + Len(q)
          /\ i - Len(events) \in 1..Len(q)
      BY <1>8, <1>9, <2>2
    <3>2. q[i - Len(events)] \in D
      BY <1>7, <3>1
    <3> QED BY <1>7, <1>9, <3>1, <3>2
  <2> QED BY <2>1, <2>2
<1>11. \A j \in DOMAIN sc.calls \cap DOMAIN session :
        ~Resumes(j)' /\ stage'[j] \in {"running", "after", "over"}
  BY <1>2 DEF HostIsSound, Resumes
<1>12. \A j \in DOMAIN sc.calls : stage'[j] = "running" => Live(ChildOf(j))'
  <2> SUFFICES ASSUME NEW j \in DOMAIN sc.calls, stage[j] = "running"
               PROVE  ChildOf(j) \in DOMAIN session \ gone'
    BY <1>2 DEF Live, ChildOf
  <2>1. ChildOf(j) \in DOMAIN session \ gone
    BY DEF HostIsSound, Live
  <2>2. Runs(ChildOf(j))
    BY DEF Runs, HostIsSound
  <2> QED BY <1>2, <2>1, <2>2
<1>13. gone' \subseteq DOMAIN session \cup (sc.parents \ Children)
  BY <1>2, <1>3 DEF HostIsSound
<1>14. /\ sc' \in Scenarios /\ Children' = Children /\ Event' = Event
       /\ stage' = [k \in DOMAIN sc'.calls |-> stage'[k]]
       /\ work' = [k \in DOMAIN sc'.calls |-> work'[k]]
       /\ session' = [c \in DOMAIN session' |-> session'[c]]
       /\ \A c \in DOMAIN session' : SessionShape(session'[c])
  BY <1>2 DEF HostIsSound, Children, Event
<1>15. HostIsSound'
  BY <1>2, <1>9, <1>10, <1>11, <1>12, <1>13, <1>14 DEF HostIsSound
<1> QED BY <1>2, <1>15

-----------------------------------------------------------------------------
(* What keeps the guards and the stops sound. *)

\* What is used up stays used up while the round goes on.
LEMMA SpentStays ==
  ASSUME HostIsSound, GuardsAreSound, NEW c \in Children, session[c].agent \in DOMAIN sc.roles,
         Spent(c), NEW h, h = guard'[c].g, GuardSound(h), h.born,
         h.dispatches = guard[c].g.dispatches, h.budget = guard[c].g.budget,
         h.calls >= guard[c].g.calls, h.total >= guard[c].g.total,
         h.budgetRound = guard[c].g.budgetRound,
         refusalsSpent(guard[c].g) => refusalsSpent(h),
         guard'[c].noted = guard[c].noted,
         guard'[c].peak \in {guard[c].peak, GuardPolicy(c).peak},
         sc' = sc, session'[c].agent = session[c].agent
  PROVE  Spent(c)'
<1>1. PICK g : g = guard[c].g
  OBVIOUS
<1>2. GuardSound(g) /\ ProfileSound(guard[c])
  BY <1>1 DEF GuardsAreSound
<1>3. /\ g.calls \in Nat /\ g.total \in Nat /\ g.budget \in Nat /\ g.dispatches \in Nat
      /\ h.calls \in Nat /\ h.total \in Nat
  BY <1>2 DEF GuardSound, GuardState
<1>4. CASE g.dispatches > 1
  <2>1. guard[c].noted # <<>>
    BY <1>1, <1>2, <1>4 DEF ProfileSound
  <2>2. GuardPolicy(c)'.policy.cumulative = GuardPolicy(c).policy.cumulative
    BY <2>1, PolicyStays
  <2>3. PICK most : most = GuardPolicy(c).policy.cumulative
    OBVIOUS
  <2>4. most \in Nat
    <3>1. PICK p : p = GuardPolicy(c)
      OBVIOUS
    <3>2. p.peak \in Nat /\ p.policy.cumulative = 3 * p.peak
      BY <3>1, PolicyIs
    <3> QED BY <2>3, <3>1, <3>2
  <2>5. /\ g.budgetRound = g.dispatches
        /\ g.calls >= g.budget \/ refusalsSpent(g) \/ g.total >= most
    BY <1>1, <1>4, <2>3 DEF Spent
  <2>6. h.calls >= h.budget \/ refusalsSpent(h) \/ h.total >= most
    BY <1>1, <1>3, <2>4, <2>5
  <2> QED BY <1>1, <1>4, <2>2, <2>3, <2>5, <2>6 DEF Spent
<1>5. CASE ~(g.dispatches > 1)
  <2>1. g.calls >= g.budget \/ refusalsSpent(g)
    BY <1>1, <1>5 DEF Spent
  <2>2. h.calls >= h.budget \/ refusalsSpent(h)
    BY <1>1, <1>3, <2>1
  <2> QED BY <1>1, <1>5, <2>2 DEF Spent
<1> QED BY <1>4, <1>5

LEMMA GuardsStay ==
  ASSUME GuardsAreSound, sc' = sc, guard' = guard
  PROVE  GuardsAreSound'
BY DEF GuardsAreSound, Children

LEMMA GuardSet ==
  ASSUME GuardsAreSound, sc' = sc, NEW c \in Children, NEW p,
         guard' = [guard EXCEPT ![c] = p], GuardSound(p.g), ProfileSound(p)
  PROVE  GuardsAreSound' /\ guard'[c] = p /\ \A x \in Children : x # c => guard'[x] = guard[x]
<1>1. /\ guard' = [x \in Children |-> guard'[x]]
      /\ guard'[c] = p /\ \A x \in Children : x # c => guard'[x] = guard[x]
  BY DEF GuardsAreSound
<1>2. \A x \in Children : GuardSound(guard'[x].g) /\ ProfileSound(guard'[x])
  BY <1>1 DEF GuardsAreSound
<1> QED BY <1>1, <1>2 DEF GuardsAreSound, Children

\* A child whose guard is left alone stays stopped, or not.
LEMMA HaltStays ==
  ASSUME HostIsSound, GuardsAreSound, HaltsAreSpent, NEW c \in Children, sc' = sc,
         guard'[c] = guard[c],
         c \in halted' <=> c \in halted,
         c \in DOMAIN session => c \in DOMAIN session' /\ session'[c].agent = session[c].agent,
         gone \subseteq gone'
  PROVE  /\ c \in halted' => c \in DOMAIN session' /\ session'[c].agent \in DOMAIN sc.roles
         /\ c \notin gone' => (c \in halted' <=> guard'[c].g.stopped = guard'[c].g.dispatches)
         /\ c \notin gone' /\ c \in halted' => Spent(c)'
<1>1. c \in halted => c \in DOMAIN session /\ session[c].agent \in DOMAIN sc.roles
  BY DEF HaltsAreSpent
<1>2. c \notin gone' => (c \in halted' <=> guard'[c].g.stopped = guard'[c].g.dispatches)
  BY DEF HaltsAreSpent
<1>3. c \notin gone' /\ c \in halted' => Spent(c)'
  <2> HAVE c \notin gone' /\ c \in halted'
  <2>1. Spent(c) /\ guard[c].g.born
    BY DEF HaltsAreSpent, Spent
  <2>2. GuardSound(guard[c].g)
    BY DEF GuardsAreSound
  <2>3. /\ guard[c].g.calls \in Int /\ guard[c].g.total \in Int
    BY <2>2 DEF GuardSound, GuardState
  <2>4. PICK h : h = guard'[c].g
    OBVIOUS
  <2>5. /\ GuardSound(h) /\ h.born /\ h.calls >= guard[c].g.calls /\ h.total >= guard[c].g.total
        /\ h = guard[c].g
    BY <2>1, <2>2, <2>3, <2>4
  <2> QED BY <1>1, <2>1, <2>4, <2>5, SpentStays
<1> QED BY <1>1, <1>2, <1>3

LEMMA HaltsFromEach ==
  ASSUME sc' = sc, halted' \subseteq Children,
         halted' # {} => sc.guard.mode \notin {"off", "advisory"},
         \A c \in Children :
           /\ c \in halted' => c \in DOMAIN session' /\ session'[c].agent \in DOMAIN sc.roles
           /\ c \notin gone' => (c \in halted' <=> guard'[c].g.stopped = guard'[c].g.dispatches)
           /\ c \notin gone' /\ c \in halted' => Spent(c)'
  PROVE  HaltsAreSpent'
BY DEF HaltsAreSpent, Children

LEMMA HaltsStay ==
  ASSUME HostIsSound, GuardsAreSound, HaltsAreSpent, sc' = sc, guard' = guard,
         halted' = halted, gone \subseteq gone',
         \A c \in DOMAIN session :
           c \in DOMAIN session' /\ session'[c].agent = session[c].agent
  PROVE  HaltsAreSpent' /\ GuardsAreSound'
<1>1. halted' \subseteq Children /\ (halted' # {} => sc.guard.mode \notin {"off", "advisory"})
  BY DEF HaltsAreSpent, HostIsSound
<1>2. \A c \in Children :
        /\ c \in halted' => c \in DOMAIN session' /\ session'[c].agent \in DOMAIN sc.roles
        /\ c \notin gone' => (c \in halted' <=> guard'[c].g.stopped = guard'[c].g.dispatches)
        /\ c \notin gone' /\ c \in halted' => Spent(c)'
  <2> TAKE c \in Children
  <2> QED BY HaltStays
<1>3. HaltsAreSpent'
  BY <1>1, <1>2, HaltsFromEach
<1> QED BY <1>3, GuardsStay

-----------------------------------------------------------------------------
(* The first state, and the steps in which no guard is asked. *)

LEMMA StopInitial == Init => StopInv /\ StopIsFinal
<1> SUFFICES ASSUME Init PROVE StopInv /\ StopIsFinal
  OBVIOUS
<1>1. HostIsSound
  <2>1. events \in Seq(Event) /\ DOMAIN events = {} /\ DOMAIN session = {}
    BY DEF Init
  <2> QED BY <2>1 DEF Init, HostIsSound, Live
<1>2. GuardsAreSound
  <2>1. \A c \in Children : guard[c] = NoGuard
    BY DEF Init
  <2>2. GuardSound(NoGuard.g) /\ ProfileSound(NoGuard)
    BY NoStateSound DEF NoGuard, NoState, ProfileSound
  <2> QED BY <2>1, <2>2 DEF Init, GuardsAreSound
<1>3. HaltsAreSpent
  <2>1. \A c \in Children : guard[c].g = NoState
    BY DEF Init, NoGuard
  <2> QED BY <2>1 DEF Init, HaltsAreSpent, NoState
<1>4. StopIsFinal
  BY DEF Init, StopIsFinal, Quiet
<1> QED BY <1>1, <1>2, <1>3, <1>4 DEF StopInv

LEMMA QuietIsFinal ==
  ASSUME last' = Quiet
  PROVE  StopIsFinal'
BY DEF StopIsFinal, Quiet

\* The hooks of a call only move the call on.
LEMMA CallMoves ==
  ASSUME StopInv, NEW k \in DOMAIN sc.calls, NEW v, stage' = [stage EXCEPT ![k] = v],
         v # "running", stage[k] \in {"running", "after", "over"} => v \in {"after", "over"},
         work' = [j \in DOMAIN sc.calls |-> work'[j]],
         UNCHANGED <<sc, session, gone, events, guard, halted>>
  PROVE  StopInv'
<1>1. HostIsSound'
  BY StageMoves DEF StopInv
<1>2. HaltsAreSpent' /\ GuardsAreSound'
  BY HaltsStay DEF StopInv
<1> QED BY <1>1, <1>2 DEF StopInv

LEMMA WorkSet ==
  ASSUME HostIsSound, NEW k, NEW w, work' = work \/ work' = [work EXCEPT ![k] = w]
  PROVE  work' = [j \in DOMAIN sc.calls |-> work'[j]]
BY DEF HostIsSound

LEMMA BeforeStops ==
  ASSUME StopInv, NEW k \in DOMAIN sc.calls, Before(k)
  PROVE  StopInv' /\ StopIsFinal'
<1>1. \E v \in {"over", "routing"} : \E w :
        /\ stage[k] = "idle" /\ stage' = [stage EXCEPT ![k] = v]
        /\ work' = work \/ work' = [work EXCEPT ![k] = w]
  BY Zenon DEF Before
<1>2. work' = [j \in DOMAIN sc.calls |-> work'[j]]
  BY <1>1, WorkSet DEF StopInv
<1>3. UNCHANGED <<sc, session, gone, events, guard, halted>> /\ last' = Quiet
  BY DEF Before, host, history
<1> QED BY <1>1, <1>2, <1>3, CallMoves, QuietIsFinal

LEMMA RouteRefusedStops ==
  ASSUME StopInv, NEW k \in DOMAIN sc.calls, RouteRefused(k)
  PROVE  StopInv' /\ StopIsFinal'
<1>1. work' = [j \in DOMAIN sc.calls |-> work'[j]]
  BY DEF RouteRefused, StopInv, HostIsSound
<1>2. UNCHANGED <<sc, session, gone, events, guard, halted>> /\ last' = Quiet
  BY DEF RouteRefused, host, history
<1> QED BY <1>1, <1>2, CallMoves, QuietIsFinal DEF RouteRefused

LEMMA RouteStartStops ==
  ASSUME StopInv, NEW k \in DOMAIN sc.calls, RouteStart(k)
  PROVE  StopInv' /\ StopIsFinal'
<1>1. work' = [j \in DOMAIN sc.calls |-> work'[j]]
  BY DEF RouteStart, StopInv, HostIsSound
<1>2. UNCHANGED <<sc, session, gone, events, guard, halted>> /\ last' = Quiet
  BY DEF RouteStart, host, history
<1> QED BY <1>1, <1>2, CallMoves, QuietIsFinal DEF RouteStart

LEMMA RouteDecideStops ==
  ASSUME StopInv, NEW k \in DOMAIN sc.calls, RouteDecide(k)
  PROVE  StopInv' /\ StopIsFinal'
<1>1. /\ stage[k] = "classifying" /\ last' = Quiet
      /\ UNCHANGED <<sc, session, gone, events, guard, halted>>
      /\ \/ stage' = [stage EXCEPT ![k] = "over"] /\ work' = work
         \/ \E out : stage' = [stage EXCEPT ![k] = "hooked"] /\ work' = [work EXCEPT ![k].out = <<out>>]
  <2>1. stage[k] = "classifying" /\ last' = Quiet /\ UNCHANGED <<sc, guard, halted>> /\ UNCHANGED host
    BY Zenon DEF RouteDecide
  <2>2. UNCHANGED <<session, gone, events>>
    BY <2>1 DEF host
  <2>3. \/ stage' = [stage EXCEPT ![k] = "over"] /\ UNCHANGED work
        \/ \E out : Routed(k, out)
    BY Zenon DEF RouteDecide
  <2>4. ASSUME NEW out, Routed(k, out)
        PROVE  stage' = [stage EXCEPT ![k] = "hooked"] /\ work' = [work EXCEPT ![k].out = <<out>>]
    BY <2>4, Zenon DEF Routed
  <2> QED BY <2>1, <2>2, <2>3, <2>4
<1>2. work' = [j \in DOMAIN sc.calls |-> work'[j]]
  BY <1>1 DEF StopInv, HostIsSound
<1> QED BY <1>1, <1>2, CallMoves, QuietIsFinal

LEMMA RouteDelegateStops ==
  ASSUME StopInv, NEW k \in DOMAIN sc.calls, RouteDelegate(k)
  PROVE  StopInv' /\ StopIsFinal'
<1>1. /\ stage[k] = "routing" /\ last' = Quiet
      /\ UNCHANGED <<sc, session, gone, events, guard, halted>>
      /\ \/ stage' = [stage EXCEPT ![k] = "over"] /\ work' = work
         \/ \E out : stage' = [stage EXCEPT ![k] = "hooked"] /\ work' = [work EXCEPT ![k].out = <<out>>]
  BY Zenon DEF RouteDelegate, host, history
<1>2. work' = [j \in DOMAIN sc.calls |-> work'[j]]
  BY <1>1 DEF StopInv, HostIsSound
<1> QED BY <1>1, <1>2, CallMoves, QuietIsFinal

LEMMA RouteTierStops ==
  ASSUME StopInv, NEW k \in DOMAIN sc.calls, RouteTier(k)
  PROVE  StopInv' /\ StopIsFinal'
<1>1. /\ stage[k] = "routing" /\ last' = Quiet /\ stage' = [stage EXCEPT ![k] = "hooked"]
      /\ UNCHANGED <<sc, session, gone, events, guard, halted>>
      /\ \E out : work' = [work EXCEPT ![k].out = <<out>>]
  BY Zenon DEF RouteTier, host, history
<1>2. work' = [j \in DOMAIN sc.calls |-> work'[j]]
  BY <1>1 DEF StopInv, HostIsSound
<1> QED BY <1>1, <1>2, CallMoves, QuietIsFinal

LEMMA LegacyRejectStops ==
  ASSUME StopInv, NEW k \in DOMAIN sc.calls, LegacyReject(k)
  PROVE  StopInv' /\ StopIsFinal'
<1>1. work' = [j \in DOMAIN sc.calls |-> work'[j]]
  BY DEF LegacyReject, StopInv, HostIsSound
<1>2. UNCHANGED <<sc, session, gone, events, guard, halted>> /\ last' = Quiet
  BY DEF LegacyReject, host, history
<1> QED BY <1>1, <1>2, CallMoves, QuietIsFinal DEF LegacyReject

LEMMA NoResultStops ==
  ASSUME StopInv, NEW k \in DOMAIN sc.calls, NoResult(k)
  PROVE  StopInv' /\ StopIsFinal'
<1>1. work' = [j \in DOMAIN sc.calls |-> work'[j]]
  BY DEF NoResult, StopInv, HostIsSound
<1>2. UNCHANGED <<sc, session, gone, events, guard, halted>> /\ last' = Quiet
  BY DEF NoResult, host, history
<1> QED BY <1>1, <1>2, CallMoves, QuietIsFinal DEF NoResult

LEMMA FinishStops ==
  ASSUME StopInv, NEW k \in DOMAIN sc.calls, NEW failed, Finish(k, failed)
  PROVE  StopInv' /\ StopIsFinal'
<1>1. work' = [j \in DOMAIN sc.calls |-> work'[j]]
  BY DEF Finish, StopInv, HostIsSound
<1>2. UNCHANGED <<sc, session, gone, events, guard, halted>> /\ last' = Quiet
  BY DEF Finish, host, history
<1> QED BY <1>1, <1>2, CallMoves, QuietIsFinal DEF Finish

\* The return of a running call finds its child there: its guard says whether it was stopped.
LEMMA ReturnStops ==
  ASSUME StopInv, NEW k \in DOMAIN sc.calls, NEW escalated, NEW claimed, Return(k, escalated, claimed)
  PROVE  StopInv' /\ StopIsFinal'
<1>1. work' = [j \in DOMAIN sc.calls |-> work'[j]]
  BY DEF Return, StopInv, HostIsSound
<1>2. UNCHANGED <<sc, session, gone, events, guard, halted>> /\ stage[k] = "running"
  BY DEF Return, host
<1>3. StopInv'
  BY <1>1, <1>2, CallMoves DEF Return
<1>4. PICK c : c = ChildOf(k)
  OBVIOUS
<1>5. c \in Children /\ c \in DOMAIN session \ gone
  BY <1>2, <1>4 DEF StopInv, HostIsSound, Live
<1>6. c \in halted <=> guard[c].g.stopped = guard[c].g.dispatches
  BY <1>5 DEF StopInv, HaltsAreSpent
<1>7. c \in halted => guard[c].g.born
  BY <1>5 DEF StopInv, HaltsAreSpent, Spent
<1>8. PICK notice : notice = budgetNotice(guard[c].g, GuardPolicy(c).policy, claimed)
  OBVIOUS
<1>9. (c \in halted => notice) /\ (notice /\ ~claimed => c \in halted)
  BY <1>6, <1>7, <1>8, Zenon DEF budgetNotice, budgetExhausted
<1>10. \/ last' = Quiet
       \/ last' = [Quiet EXCEPT !.kind = "return", !.who = c, !.claimed = claimed, !.notice = notice]
  BY <1>4, <1>8, Zenon DEF Return
<1>11. StopIsFinal'
  <2>1. CASE last' = Quiet
    BY <2>1, QuietIsFinal
  <2>2. CASE last' # Quiet
    <3>1. last' = [kind |-> "return", who |-> c, action |-> None, path |-> <<>>,
                   notice |-> notice, claimed |-> claimed]
      BY <1>10, <2>2 DEF Quiet
    <3>2. /\ last'.kind = "return" /\ last'.who = c
          /\ last'.notice = notice /\ last'.claimed = claimed
      BY <3>1
    <3>3. halted' = halted
      BY <1>2
    <3> QED BY <1>9, <3>2, <3>3, Zenon DEF StopIsFinal
  <2> QED BY <2>1, <2>2
<1> QED BY <1>3, <1>11

-----------------------------------------------------------------------------
(* The steps of the host, and those of the registry. *)

LEMMA StillStops ==
  ASSUME StopInv, UNCHANGED <<sc, stage, work, session, gone, events, guard, halted>>, last' = Quiet
  PROVE  StopInv' /\ StopIsFinal'
<1>1. HostIsSound'
  BY HostStays DEF StopInv
<1>2. HaltsAreSpent' /\ GuardsAreSound'
  BY HaltsStay DEF StopInv
<1> QED BY <1>1, <1>2, QuietIsFinal DEF StopInv

LEMMA ExpirePendingStops ==
  ASSUME StopInv, ExpirePending
  PROVE  StopInv' /\ StopIsFinal'
<1>1. UNCHANGED <<sc, stage, work, session, gone, events, guard, halted>> /\ last' = Quiet
  BY DEF ExpirePending, host, history
<1> QED BY <1>1, StillStops

LEMMA NextStepStops ==
  ASSUME StopInv, NextStep
  PROVE  StopInv' /\ StopIsFinal'
<1>1. UNCHANGED <<sc, stage, work, session, gone, events, guard, halted>> /\ last' = Quiet
  BY DEF NextStep, host, history
<1> QED BY <1>1, StillStops

LEMMA BindStartStops ==
  ASSUME StopInv, NEW c, BindStart(c)
  PROVE  StopInv' /\ StopIsFinal'
<1>1. UNCHANGED <<sc, stage, work, session, gone, events, guard, halted>> /\ last' = Quiet
  BY DEF BindStart, host, history
<1> QED BY <1>1, StillStops

LEMMA BindEndStops ==
  ASSUME StopInv, NEW c, NEW how, BindEnd(c, how)
  PROVE  StopInv' /\ StopIsFinal'
<1>1. UNCHANGED <<sc, stage, work, session, gone, events, guard, halted>> /\ last' = Quiet
  BY Zenon DEF BindEnd, host
<1> QED BY <1>1, StillStops

LEMMA RequestStops ==
  ASSUME StopInv, NEW c, Request(c)
  PROVE  StopInv' /\ StopIsFinal'
<1>1. UNCHANGED <<sc, stage, work, session, gone, events, guard, halted>> /\ last' = Quiet
  BY Zenon DEF Request, host, history
<1> QED BY <1>1, StillStops

LEMMA DeleteStops ==
  ASSUME StopInv, NEW s \in Children \cup sc.parents, Delete(s)
  PROVE  StopInv' /\ StopIsFinal'
<1>1. HostIsSound' /\ gone \subseteq gone'
  BY DeleteHost DEF StopInv
<1>2. UNCHANGED <<sc, session, guard, halted>> /\ last' = Quiet
  BY Zenon DEF Delete, history
<1>3. HaltsAreSpent' /\ GuardsAreSound'
  BY <1>1, <1>2, HaltsStay DEF StopInv
<1> QED BY <1>1, <1>2, <1>3, QuietIsFinal DEF StopInv

LEMMA ForkStops ==
  ASSUME StopInv, NEW c, Fork(c)
  PROVE  StopInv' /\ StopIsFinal'
<1>1. /\ c \in DOMAIN session /\ "fork" \notin DOMAIN session
      /\ session' = Put(session, "fork", session[c])
      /\ events' = Append(events, [type |-> "created", id |-> "fork"])
      /\ UNCHANGED <<sc, stage, work, gone, guard, halted>> /\ last' = Quiet
  BY Zenon DEF Fork, Live
<1>2. "fork" \in Children \ DOMAIN session /\ "fork" \notin DOMAIN sc.calls
  BY <1>1, ScenariosAssumption DEF StopInv, HostIsSound, Children
<1>3. SessionShape(session[c])
  BY <1>1 DEF StopInv, HostIsSound
<1>4. /\ HostIsSound'
      /\ \A x \in DOMAIN session : x \in DOMAIN session' /\ session'[x] = session[x]
  BY <1>1, <1>2, <1>3, SessionAdded DEF StopInv
<1>5. HaltsAreSpent' /\ GuardsAreSound'
  BY <1>1, <1>4, HaltsStay DEF StopInv
<1> QED BY <1>1, <1>4, <1>5, QuietIsFinal DEF StopInv

LEMMA HostCreateStops ==
  ASSUME StopInv, NEW k \in DOMAIN sc.calls, HostCreate(k)
  PROVE  StopInv' /\ StopIsFinal'
<1>1. PICK s : /\ SessionShape(s) /\ session' = Put(session, k, s)
               /\ stage[k] = "sent" /\ ~Resumes(k) /\ stage' = [stage EXCEPT ![k] = "running"]
               /\ events' = Append(events, [type |-> "created", id |-> k])
               /\ UNCHANGED <<sc, work, gone, guard, halted>> /\ last' = Quiet
  BY DEF HostCreate, SessionShape
<1>2. k \in Children \ DOMAIN session
  BY <1>1 DEF StopInv, HostIsSound, Children
<1>3. ChildOf(k) = k
  BY <1>1 DEF ChildOf, Resumes
<1>4. /\ HostIsSound'
      /\ \A x \in DOMAIN session : x \in DOMAIN session' /\ session'[x] = session[x]
  BY <1>1, <1>2, <1>3, SessionAdded DEF StopInv
<1>5. HaltsAreSpent' /\ GuardsAreSound'
  BY <1>1, <1>4, HaltsStay DEF StopInv
<1> QED BY <1>1, <1>4, <1>5, QuietIsFinal DEF StopInv

LEMMA HostResumeStops ==
  ASSUME StopInv, NEW k \in DOMAIN sc.calls, HostResume(k)
  PROVE  StopInv' /\ StopIsFinal'
<1>1. PICK c : c = ChildOf(k)
  OBVIOUS
<1>2. /\ stage[k] = "sent" /\ Resumes(k) /\ c \in DOMAIN session \ gone
      /\ stage' = [stage EXCEPT ![k] = "running"]
      /\ UNCHANGED <<sc, work, gone, events, guard, halted>> /\ last' = Quiet
  BY <1>1 DEF HostResume, Live, history
<1>3. /\ DOMAIN session' = DOMAIN session /\ session' = [x \in DOMAIN session' |-> session'[x]]
      /\ \A x \in DOMAIN session :
           session'[x].agent = session[x].agent /\ SessionShape(session'[x])
  <2>1. PICK m, v, f, d : session' = [session EXCEPT ![c] =
                            [@ EXCEPT !.model = m, !.variant = v, !.facts = f, !.detection = d]]
    BY <1>1, Zenon DEF HostResume
  <2>2. PICK n : n = [session[c] EXCEPT !.model = m, !.variant = v, !.facts = f, !.detection = d]
    OBVIOUS
  <2>3. SessionShape(session[c])
    BY <1>2 DEF StopInv, HostIsSound
  <2>4. n = [parent |-> session[c].parent, agent |-> session[c].agent, model |-> m, variant |-> v,
             title |-> session[c].title, prompt |-> session[c].prompt, facts |-> f, detection |-> d]
    BY <2>2, <2>3 DEF SessionShape
  <2>5. SessionShape(n) /\ n.agent = session[c].agent
    BY <2>4 DEF SessionShape
  <2>6. session' = [session EXCEPT ![c] = n]
    BY <2>1, <2>2
  <2>7. /\ session' = [x \in DOMAIN session |-> IF x = c THEN n ELSE session[x]]
        /\ DOMAIN session' = DOMAIN session
    BY <2>6 DEF StopInv, HostIsSound
  <2> QED BY <1>2, <2>5, <2>7 DEF StopInv, HostIsSound
<1>4. /\ stage' = [j \in DOMAIN sc.calls |-> stage'[j]]
      /\ \A j \in DOMAIN sc.calls : stage'[j] = IF j = k THEN "running" ELSE stage[j]
  BY <1>2 DEF StopInv, HostIsSound
<1>5. HostIsSound'
  <2>1. \A j \in DOMAIN sc.calls \cap DOMAIN session' :
          ~Resumes(j)' /\ stage'[j] \in {"running", "after", "over"}
    BY <1>2, <1>3, <1>4 DEF StopInv, HostIsSound, Resumes
  <2>2. \A j \in DOMAIN sc.calls : stage'[j] = "running" => Live(ChildOf(j))'
    BY <1>1, <1>2, <1>3, <1>4 DEF StopInv, HostIsSound, Live, ChildOf
  <2> QED BY <1>2, <1>3, <1>4, <2>1, <2>2 DEF StopInv, HostIsSound, Children, Event
<1>6. HaltsAreSpent' /\ GuardsAreSound'
  BY <1>2, <1>3, HaltsStay DEF StopInv
<1> QED BY <1>2, <1>5, <1>6, QuietIsFinal DEF StopInv

\* The plugin forgets the guard of a session only after the host deleted it.
LEMMA DeliverStops ==
  ASSUME StopInv, Deliver
  PROVE  StopInv' /\ StopIsFinal'
<1>1. PICK e : e = Head(events)
  OBVIOUS
<1>2. /\ events # <<>> /\ events' = Tail(events) /\ last' = Quiet
      /\ UNCHANGED <<sc, stage, work, session, gone, halted>>
      /\ \/ guard' = guard
         \/ /\ e.type # "created" /\ SessionDeleted(e.id)
  BY <1>1, Zenon DEF Deliver
<1>3. events \in Seq(Event) /\ 1 \in DOMAIN events /\ e = events[1] /\ e \in Event
  BY <1>1, <1>2 DEF StopInv, HostIsSound
<1>4. HostIsSound'
  <2>1. events' \in Seq(Event) /\ \A i \in DOMAIN events' : i + 1 \in DOMAIN events /\ events'[i] = events[i + 1]
    BY <1>2, <1>3
  <2>2. \A i \in DOMAIN events' :
          /\ events'[i].type = "deleted" => events'[i].id \in gone
          /\ events'[i].type = "created" => events'[i].id \in DOMAIN session
    BY <2>1 DEF StopInv, HostIsSound
  <2>3. \A j \in DOMAIN sc.calls \cap DOMAIN session :
          ~Resumes(j)' /\ stage'[j] \in {"running", "after", "over"}
    BY <1>2 DEF StopInv, HostIsSound, Resumes
  <2>4. \A j \in DOMAIN sc.calls : stage'[j] = "running" => Live(ChildOf(j))'
    BY <1>2 DEF StopInv, HostIsSound, Live, ChildOf
  <2>5. /\ sc' \in Scenarios
        /\ stage' = [j \in DOMAIN sc'.calls |-> stage'[j]]
        /\ work' = [j \in DOMAIN sc'.calls |-> work'[j]]
    BY <1>2 DEF StopInv, HostIsSound
  <2>6. /\ session' = [c \in DOMAIN session' |-> session'[c]]
        /\ DOMAIN session' \subseteq Children'
        /\ \A c \in DOMAIN session' : SessionShape(session'[c])
        /\ gone' \subseteq DOMAIN session' \cup (sc'.parents \ Children')
    BY <1>2 DEF StopInv, HostIsSound, Children
  <2>7. events' \in Seq(Event')
    BY <1>2, <2>1 DEF Event, Children
  <2> HIDE DEF Event
  <2> QED BY <1>2, <2>2, <2>3, <2>4, <2>5, <2>6, <2>7 DEF HostIsSound
<1>5. CASE guard' = guard
  <2>1. HaltsAreSpent' /\ GuardsAreSound'
    BY <1>2, <1>5, HaltsStay DEF StopInv
  <2> QED BY <1>2, <1>4, <2>1, QuietIsFinal DEF StopInv
<1>6. CASE guard' # guard
  <2>1. PICK s : s = e.id
    OBVIOUS
  <2>2. s \in Children /\ guard' = [guard EXCEPT ![s] = NoGuard]
    BY <1>2, <1>6, <2>1 DEF SessionDeleted
  <2>3. s \in gone
    BY <1>2, <1>3, <1>6, <2>1 DEF Event, StopInv, HostIsSound
  <2>4. GuardSound(NoGuard.g) /\ ProfileSound(NoGuard)
    BY NoStateSound DEF NoGuard, NoState, ProfileSound
  <2>5. GuardsAreSound' /\ \A x \in Children : x # s => guard'[x] = guard[x]
    BY <1>2, <2>2, <2>4, GuardSet DEF StopInv
  <2>6. HaltsAreSpent'
    <3>1. halted' \subseteq Children /\ (halted' # {} => sc.guard.mode \notin {"off", "advisory"})
      BY <1>2 DEF StopInv, HaltsAreSpent, HostIsSound
    <3>2. \A c \in Children :
            /\ c \in halted' => c \in DOMAIN session' /\ session'[c].agent \in DOMAIN sc.roles
            /\ c \notin gone' => (c \in halted' <=> guard'[c].g.stopped = guard'[c].g.dispatches)
            /\ c \notin gone' /\ c \in halted' => Spent(c)'
      <4> TAKE c \in Children
      <4>1. CASE c = s
        BY <1>2, <2>3, <4>1 DEF StopInv, HaltsAreSpent
      <4>2. CASE c # s
        BY <1>2, <2>5, <4>2, HaltStays DEF StopInv
      <4> QED BY <4>1, <4>2
    <3> QED BY <1>2, <3>1, <3>2, HaltsFromEach
  <2> QED BY <1>2, <1>4, <2>5, <2>6, QuietIsFinal DEF StopInv
<1> QED BY <1>5, <1>6

-----------------------------------------------------------------------------
(* The steps of the guards. *)

\* When one child's guard is set, the others' stops stay.
LEMMA OneHalt ==
  ASSUME StopInv, UNCHANGED <<sc, session, gone>>, NEW c \in Children, NEW p,
         guard' = [guard EXCEPT ![c] = p], GuardSound(p.g), ProfileSound(p),
         halted' \subseteq Children, \A x \in Children : x # c => (x \in halted' <=> x \in halted),
         halted' # {} => sc.guard.mode \notin {"off", "advisory"},
         c \in halted' => c \in DOMAIN session /\ session[c].agent \in DOMAIN sc.roles,
         c \notin gone => (c \in halted' <=> p.g.stopped = p.g.dispatches),
         c \notin gone /\ c \in halted' => Spent(c)'
  PROVE  HaltsAreSpent' /\ GuardsAreSound'
<1>1. /\ GuardsAreSound' /\ guard'[c] = p
      /\ \A x \in Children : x # c => guard'[x] = guard[x]
  BY GuardSet DEF StopInv
<1>2. \A x \in Children :
        /\ x \in halted' => x \in DOMAIN session' /\ session'[x].agent \in DOMAIN sc.roles
        /\ x \notin gone' => (x \in halted' <=> guard'[x].g.stopped = guard'[x].g.dispatches)
        /\ x \notin gone' /\ x \in halted' => Spent(x)'
  <2> TAKE x \in Children
  <2>1. CASE x = c
    BY <1>1, <2>1
  <2>2. CASE x # c
    BY <1>1, <2>2, HaltStays DEF StopInv
  <2> QED BY <2>1, <2>2
<1> QED BY <1>1, <1>2, HaltsFromEach

LEMMA CommitStops ==
  ASSUME StopInv, NEW k \in DOMAIN sc.calls, Commit(k)
  PROVE  StopInv' /\ StopIsFinal'
<1>1. PICK c : c = ChildOf(k)
  OBVIOUS
<1>2. PICK tier, asked :
        /\ asked = IF sc.calls[k].routeBudget > 0 THEN sc.calls[k].routeBudget ELSE RouteBudget(c)
        /\ stage[k] = "hooked" /\ stage' = [stage EXCEPT ![k] = "sent"]
        /\ guard' = IF IsRole(k) /\ Resumes(k)
                    THEN [guard EXCEPT ![c] = [g |-> beginDispatch(@.g), peak |-> @.peak,
                                               noted |-> <<[tier |-> tier, asked |-> asked]>>]]
                    ELSE guard
        /\ halted' = IF IsRole(k) THEN halted \ {c} ELSE halted
        /\ UNCHANGED <<sc, work, session, gone, events>> /\ last' = Quiet
  BY <1>1, Zenon DEF Commit, host
<1>3. c \in Children /\ sc.calls[k].routeBudget \in Nat
  BY <1>1, ScenariosAssumption DEF StopInv, HostIsSound, Children, ChildOf
<1>4. HostIsSound'
  <2>1. work' = [j \in DOMAIN sc.calls |-> work'[j]]
    BY <1>2 DEF StopInv, HostIsSound
  <2> QED BY <1>2, <2>1, StageMoves DEF StopInv
<1>5. CASE ~(IsRole(k) /\ Resumes(k))
  <2>1. halted' = halted
    <3>1. CASE IsRole(k)
      <4>1. c = k /\ k \notin DOMAIN session
        BY <1>1, <1>2, <1>5, <3>1 DEF ChildOf, Resumes, StopInv, HostIsSound
      <4>2. k \notin halted
        BY <4>1 DEF StopInv, HaltsAreSpent
      <4> QED BY <1>2, <3>1, <4>1, <4>2
    <3>2. CASE ~IsRole(k)
      BY <1>2, <3>2
    <3> QED BY <3>1, <3>2
  <2>2. HaltsAreSpent' /\ GuardsAreSound'
    BY <1>2, <1>5, <2>1, HaltsStay DEF StopInv
  <2> QED BY <1>2, <1>4, <2>2, QuietIsFinal DEF StopInv
<1>6. CASE IsRole(k) /\ Resumes(k)
  <2>1. PICK g : g = beginDispatch(guard[c].g)
    OBVIOUS
  <2>2. GuardSound(guard[c].g) /\ ProfileSound(guard[c])
    BY <1>3 DEF StopInv, GuardsAreSound
  <2>3. /\ GuardSound(g) /\ g.stopped # g.dispatches /\ (g.born <=> guard[c].g.born)
        /\ g.budget = guard[c].g.budget
    BY <2>1, <2>2, BeginIs
  <2>4. asked \in Nat
    BY <1>2, <1>3, AskedIsNumber DEF StopInv
  <2>5. PICK n : n = <<[tier |-> tier, asked |-> asked]>>
    OBVIOUS
  <2>6. n # <<>> /\ Head(n).asked = asked
    BY <2>5
  <2>7. PICK p : p = [g |-> beginDispatch(guard[c].g), peak |-> guard[c].peak,
                      noted |-> <<[tier |-> tier, asked |-> asked]>>]
    OBVIOUS
  <2>8. p = [g |-> g, noted |-> n, peak |-> guard[c].peak]
    BY <2>1, <2>5, <2>7
  <2>9. GuardSound(p.g) /\ ProfileSound(p)
    BY <2>2, <2>3, <2>4, <2>6, <2>8 DEF ProfileSound
  <2>10. guard' = [guard EXCEPT ![c] = p]
    BY <1>2, <1>6, <2>7
  <2>11. /\ halted' \subseteq Children /\ c \notin halted'
         /\ \A x \in Children : x # c => (x \in halted' <=> x \in halted)
         /\ halted' # {} => sc.guard.mode \notin {"off", "advisory"}
    BY <1>2, <1>6 DEF StopInv, HaltsAreSpent, HostIsSound
  <2>12. p.g.stopped # p.g.dispatches
    BY <2>3, <2>8
  <2>13. HaltsAreSpent' /\ GuardsAreSound'
    BY <1>2, <1>3, <2>9, <2>10, <2>11, <2>12, OneHalt
  <2> QED BY <1>2, <1>4, <2>13, QuietIsFinal DEF StopInv
<1> QED BY <1>5, <1>6

\* A call that was allowed before the stop may still end after it.
LEMMA ActEndStops ==
  ASSUME StopInv, NEW c \in Children, NEW i, ActEnd(c, i)
  PROVE  StopInv' /\ StopIsFinal'
<1>1. PICK call : \E ok \in BOOLEAN :
        /\ guard' = [guard EXCEPT ![c].g = guardAfterCall(@, call, ok)]
        /\ UNCHANGED <<sc, stage, work, session, gone, events, halted>> /\ last' = Quiet
  <2>1. PICK ok \in BOOLEAN : guard' = [guard EXCEPT ![c].g = guardAfterCall(@, calls[c][i], ok)]
    BY Zenon DEF ActEnd
  <2>2. UNCHANGED <<sc, stage, work, session, gone, events, halted>> /\ last' = Quiet
    BY DEF ActEnd, host, history
  <2> QED BY <2>1, <2>2
<1>2. PICK ok \in BOOLEAN :
        /\ guard' = [guard EXCEPT ![c].g = guardAfterCall(@, call, ok)]
        /\ UNCHANGED <<sc, stage, work, session, gone, events, halted>> /\ last' = Quiet
  BY <1>1
<1>3. PICK h : h = guardAfterCall(guard[c].g, call, ok)
  OBVIOUS
<1>4. PICK g : g = guard[c].g
  OBVIOUS
<1>5. GuardSound(g) /\ ProfileSound(guard[c])
  BY <1>4 DEF StopInv, GuardsAreSound
<1>6. /\ GuardSound(h) /\ (h.born <=> g.born)
      /\ h.dispatches = g.dispatches /\ h.stopped = g.stopped /\ h.budget = g.budget
      /\ h.calls >= g.calls /\ h.total >= g.total /\ h.budgetRound = g.budgetRound
      /\ refusalsSpent(g) => refusalsSpent(h)
  BY <1>3, <1>4, <1>5, AfterIs
<1>7. PICK p : p = [guard[c] EXCEPT !.g = guardAfterCall(@, call, ok)]
  OBVIOUS
<1>8. p = [g |-> h, noted |-> guard[c].noted, peak |-> guard[c].peak]
  BY <1>3, <1>5, <1>7 DEF ProfileSound
<1>9. p.g = h /\ p.noted = guard[c].noted /\ p.peak = guard[c].peak
  BY <1>8
<1>10. GuardSound(p.g) /\ ProfileSound(p)
  BY <1>4, <1>5, <1>6, <1>8, <1>9 DEF ProfileSound
<1>11. guard' = [guard EXCEPT ![c] = p]
  BY <1>2, <1>7
<1>12. guard'[c] = p
  BY <1>2, <1>10, <1>11, GuardSet DEF StopInv
<1>13. /\ halted' = halted /\ halted \subseteq Children
       /\ halted # {} => sc.guard.mode \notin {"off", "advisory"}
       /\ c \in halted => c \in DOMAIN session /\ session[c].agent \in DOMAIN sc.roles
       /\ c \notin gone => (c \in halted <=> p.g.stopped = p.g.dispatches)
  BY <1>2, <1>4, <1>6, <1>9 DEF StopInv, HaltsAreSpent, HostIsSound
<1>14. ASSUME c \notin gone, c \in halted PROVE Spent(c)'
  <2>1. Spent(c) /\ g.born
    BY <1>4, <1>14 DEF StopInv, HaltsAreSpent, Spent
  <2>2. h = guard'[c].g /\ guard'[c].noted = guard[c].noted /\ guard'[c].peak = guard[c].peak
    BY <1>9, <1>12
  <2> QED BY <1>2, <1>4, <1>6, <1>13, <1>14, <2>1, <2>2, SpentStays DEF StopInv
<1>15. HaltsAreSpent' /\ GuardsAreSound'
  BY <1>2, <1>10, <1>11, <1>13, <1>14, OneHalt
<1>16. HostIsSound'
  BY <1>2, HostStays DEF StopInv
<1> QED BY <1>2, <1>15, <1>16, QuietIsFinal DEF StopInv

-----------------------------------------------------------------------------
(* The call of a child. *)

\* A stopped child's call is refused.
LEMMA StoppedIsRefused ==
  ASSUME StopInv, NEW c \in Children, c \in halted \ gone,
         NEW policy, policy.cumulative = GuardPolicy(c).policy.cumulative
  PROVE  AtRound(guard[c].g) /\ guardStopped(guard[c].g, policy)
BY DEF StopInv, HaltsAreSpent, Spent, AtRound, guardStopped, budgetSpent

\* A call the guard looks at: a refusal that stops the child leaves the round used up.
LEMMA StopIsSpent ==
  ASSUME StopInv, NEW c \in Children, session[c].agent \in DOMAIN sc.roles,
         sc' = sc, session' = session,
         NEW p, p = GuardPolicy(c), NEW s, GuardSound(s), AtRound(s), s.budget <= p.peak,
         s.dispatches = guard[c].g.dispatches,
         guard'[c].g = s, guard'[c].noted = guard[c].noted, guard'[c].peak = p.peak,
         guardStopped(s, p.policy)
  PROVE  Spent(c)'
<1>1. /\ p.peak \in Nat /\ p.policy.cumulative = 3 * p.peak
  BY PolicyIs DEF StopInv
<1>2. s.calls \in Nat /\ s.total \in Nat /\ s.budget \in Nat /\ s.dispatches \in Nat \ {0}
  BY DEF GuardSound, GuardState
<1>3. CASE s.dispatches > 1
  <2>1. guard[c].noted # <<>>
    BY <1>3 DEF StopInv, GuardsAreSound, ProfileSound
  <2>2. GuardPolicy(c)'.policy.cumulative = p.policy.cumulative
    BY <2>1, PolicyStays DEF StopInv
  <2> QED BY <1>3, <2>2 DEF Spent, AtRound, guardStopped, budgetSpent
<1>4. CASE ~(s.dispatches > 1)
  <2>1. s.total = s.calls
    BY <1>2, <1>4 DEF GuardSound
  <2>2. s.calls >= s.budget \/ refusalsSpent(s)
    BY <1>1, <1>2, <2>1 DEF guardStopped, budgetSpent
  <2> QED BY <1>4, <2>2 DEF Spent, AtRound
<1> QED BY <1>3, <1>4

LEMMA ActStops ==
  ASSUME StopInv, NEW c \in Children, NEW action, NEW path, Act(c, action, path)
  PROVE  StopInv' /\ StopIsFinal'
<1>1. PICK mode : mode = sc.guard.mode
  OBVIOUS
<1>2. PICK call : call = GuardCall(action, path)
  OBVIOUS
<1>3. PICK p : p = GuardPolicy(c)
  OBVIOUS
<1>4. PICK ok : ok = Authorized(c, action, path)
  OBVIOUS
<1>5. PICK g : g = Guarded(c, mode, call, p.policy, ok)
  OBVIOUS
<1>6. callMode(sc.guard, FALSE) = mode
  BY <1>1 DEF callMode
<1>7. /\ AtWork(c)
      /\ guard' = IF mode = "off" THEN guard
                  ELSE [guard EXCEPT ![c] = [@ EXCEPT !.g = g.state, !.peak = p.peak]]
      /\ halted' = IF g.guard # "none" /\ g.state.stopped = g.state.dispatches
                   THEN halted \cup {c} ELSE halted
      /\ \/ g.guard # "none" /\ last' = Quiet
         \/ /\ g.guard = "none"
            /\ \E target : last' = [Quiet EXCEPT !.kind = "act", !.who = c, !.action = action,
                                      !.path = target]
      /\ UNCHANGED <<sc, stage, work, session, gone, events>>
  BY <1>2, <1>3, <1>4, <1>5, <1>6, Zenon DEF Act, host
<1>8. c \in DOMAIN session \ gone /\ session[c].agent \in DOMAIN sc.roles
  BY <1>7 DEF AtWork, Live
<1>9. GuardSound(guard[c].g) /\ ProfileSound(guard[c])
  BY DEF StopInv, GuardsAreSound
<1>10. /\ p.policy.budget \in Nat
       /\ p.peak \in Nat /\ p.peak >= guard[c].peak /\ p.peak >= p.policy.budget
  BY <1>3, <1>8, PolicyIs DEF StopInv
<1>11. HostIsSound'
  BY <1>7, HostStays DEF StopInv
<1>12. (g.guard = "none" => c \notin halted') => StopIsFinal'
  <2> HAVE g.guard = "none" => c \notin halted'
  <2>1. CASE last' = Quiet
    BY <2>1, QuietIsFinal
  <2>2. CASE g.guard = "none"
    <3>1. PICK target : last' = [Quiet EXCEPT !.kind = "act", !.who = c, !.action = action,
                                   !.path = target]
      BY <1>7, <2>2
    <3>2. last' = [kind |-> "act", who |-> c, action |-> action, path |-> target,
                   notice |-> FALSE, claimed |-> FALSE]
      BY <3>1 DEF Quiet
    <3>3. last'.kind = "act" /\ last'.who = c
      BY <3>2
    <3> QED BY <2>2, <3>3 DEF StopIsFinal
  <2> QED BY <1>7, <2>1, <2>2
<1>13. CASE mode = "off"
  <2>1. g.state = guard[c].g
    <3>1. g = [state |-> guard[c].g, guard |-> IF ok THEN "none" ELSE "authority"]
      BY <1>5, <1>13, Zenon DEF Guarded, guardBeforeCall, guardRefusedCall
    <3> QED BY <3>1
  <2>2. halted = {}
    BY <1>1, <1>13 DEF StopInv, HaltsAreSpent
  <2>3. halted' = halted
    BY <1>7, <1>8, <2>1, <2>2 DEF StopInv, HaltsAreSpent
  <2>4. HaltsAreSpent' /\ GuardsAreSound'
    BY <1>7, <1>13, <2>3, HaltsStay DEF StopInv
  <2>5. StopIsFinal'
    BY <1>12, <2>2, <2>3
  <2> QED BY <1>11, <2>4, <2>5 DEF StopInv
<1>14. CASE mode # "off"
  <2>1. PICK s : s = g.state
    OBVIOUS
  <2>2. call.kind \in {"read", "mutation", "other"}
    BY <1>2 DEF GuardCall
  <2>4. PICK old : old = guard[c].g
    OBVIOUS
  <2>5. /\ GuardSound(s) /\ AtRound(s) /\ s.dispatches = old.dispatches
        /\ s.budget = p.policy.budget \/ (old.born /\ s.budget = old.budget)
        /\ \/ s.stopped = old.stopped
           \/ /\ s.stopped = s.dispatches /\ g.guard # "none" /\ mode # "advisory"
              /\ guardStopped(s, p.policy)
        /\ AtRound(old) => /\ s.calls = old.calls /\ s.total = old.total /\ s.budget = old.budget
                           /\ s.budgetRound = old.budgetRound
                           /\ refusalsSpent(old) => refusalsSpent(s)
        /\ AtRound(old) /\ g.guard = "none" /\ mode # "advisory" => ~guardStopped(old, p.policy)
    BY <1>5, <1>9, <1>10, <1>14, <2>1, <2>2, <2>4, GuardedIs
  <2>6. PICK n : n = [guard[c] EXCEPT !.g = g.state, !.peak = p.peak]
    OBVIOUS
  <2>7. n = [g |-> s, noted |-> guard[c].noted, peak |-> p.peak]
    BY <1>9, <2>1, <2>6 DEF ProfileSound
  <2>8. n.g = s /\ n.noted = guard[c].noted /\ n.peak = p.peak
    BY <2>7
  <2>9. s.budget <= p.peak
    <3>1. old.born => old.budget <= guard[c].peak
      BY <1>9, <2>4 DEF ProfileSound
    <3>2. guard[c].peak \in Nat /\ old.budget \in Nat
      BY <1>9, <2>4 DEF ProfileSound, GuardSound, GuardState
    <3>3. CASE s.budget = p.policy.budget
      BY <1>10, <3>3
    <3>4. CASE old.born /\ s.budget = old.budget
      BY <1>10, <3>1, <3>2, <3>4
    <3> QED BY <2>5, <3>3, <3>4
  <2>10. GuardSound(n.g) /\ ProfileSound(n)
    BY <1>9, <1>10, <2>4, <2>5, <2>7, <2>8, <2>9 DEF ProfileSound
  <2>11. guard' = [guard EXCEPT ![c] = n]
    BY <1>7, <1>14, <2>6
  <2>12. guard'[c] = n
    BY <1>7, <2>10, <2>11, GuardSet DEF StopInv
  <2>13. c \in halted => AtRound(old) /\ guardStopped(old, p.policy) /\ mode # "advisory"
    BY <1>1, <1>3, <1>8, <2>4, StoppedIsRefused DEF StopInv, HaltsAreSpent
  <2>14. c \in halted <=> old.stopped = old.dispatches
    BY <1>8, <2>4 DEF StopInv, HaltsAreSpent
  <2>15. c \in halted' <=> s.stopped = s.dispatches
    <3>1. c \in halted => s.stopped = s.dispatches
      BY <2>5, <2>14
    <3>2. s.stopped = s.dispatches => c \in halted \/ g.guard # "none"
      BY <2>5, <2>14
    <3> QED BY <1>7, <2>1, <3>1, <3>2
  <2>16. c \in halted' /\ c \notin halted => guardStopped(s, p.policy) /\ mode # "advisory"
    BY <2>5, <2>14, <2>15
  <2>17. Spent(c)' \/ c \notin halted'
    <3>1. CASE c \in halted
      <4>1. Spent(c) /\ old.born
        BY <1>8, <2>4, <3>1 DEF StopInv, HaltsAreSpent, Spent
      <4>2. /\ s.calls >= old.calls /\ s.total >= old.total /\ s.budget = old.budget
            /\ s.budgetRound = old.budgetRound /\ (refusalsSpent(old) => refusalsSpent(s)) /\ s.born
        BY <1>9, <2>4, <2>5, <2>13, <3>1 DEF GuardSound, GuardState, AtRound
      <4> QED BY <1>3, <1>7, <1>8, <2>4, <2>5, <2>8, <2>12, <4>1, <4>2, SpentStays DEF StopInv
    <3>2. CASE c \in halted' /\ c \notin halted
      <4>1. guardStopped(s, p.policy)
        BY <2>16, <3>2
      <4> QED BY <1>3, <1>7, <1>8, <2>4, <2>5, <2>8, <2>9, <2>12, <4>1, StopIsSpent
    <3> QED BY <3>1, <3>2
  <2>18. /\ halted' \subseteq Children /\ \A x \in Children : x # c => (x \in halted' <=> x \in halted)
         /\ halted' # {} => sc.guard.mode \notin {"off", "advisory"}
    <3>1. halted' \subseteq halted \cup {c} /\ halted \subseteq halted' /\ halted \subseteq Children
      BY <1>7 DEF StopInv, HaltsAreSpent, HostIsSound
    <3>2. halted # {} => sc.guard.mode \notin {"off", "advisory"}
      BY DEF StopInv, HaltsAreSpent
    <3> QED BY <1>1, <1>14, <2>16, <3>1, <3>2
  <2>19. HaltsAreSpent' /\ GuardsAreSound'
    BY <1>7, <1>8, <2>8, <2>10, <2>11, <2>15, <2>17, <2>18, OneHalt
  <2>20. g.guard = "none" => c \notin halted'
    BY <1>7, <2>5, <2>13
  <2>21. StopIsFinal'
    BY <1>12, <2>20
  <2> QED BY <1>11, <2>19, <2>21 DEF StopInv
<1> QED BY <1>13, <1>14

LEMMA StopStep == StopInv /\ [Next]_vars => StopInv' /\ (StopIsFinal => StopIsFinal')
<1> SUFFICES ASSUME StopInv, [Next]_vars PROVE StopInv' /\ (StopIsFinal => StopIsFinal')
  OBVIOUS
<1>1. DOMAIN stage = DOMAIN sc.calls
  BY DEF StopInv, HostIsSound
<1>2. ASSUME NEW k \in DOMAIN stage, Before(k) PROVE StopInv' /\ StopIsFinal'
  BY <1>1, <1>2, BeforeStops
<1>3. ASSUME NEW k \in DOMAIN stage, RouteRefused(k) PROVE StopInv' /\ StopIsFinal'
  BY <1>1, <1>3, RouteRefusedStops
<1>4. ASSUME NEW k \in DOMAIN stage, RouteStart(k) PROVE StopInv' /\ StopIsFinal'
  BY <1>1, <1>4, RouteStartStops
<1>5. ASSUME NEW k \in DOMAIN stage, RouteDecide(k) PROVE StopInv' /\ StopIsFinal'
  BY <1>1, <1>5, RouteDecideStops
<1>6. ASSUME NEW k \in DOMAIN stage, RouteDelegate(k) PROVE StopInv' /\ StopIsFinal'
  BY <1>1, <1>6, RouteDelegateStops
<1>7. ASSUME NEW k \in DOMAIN stage, RouteTier(k) PROVE StopInv' /\ StopIsFinal'
  BY <1>1, <1>7, RouteTierStops
<1>8. ASSUME NEW k \in DOMAIN stage, LegacyReject(k) PROVE StopInv' /\ StopIsFinal'
  BY <1>1, <1>8, LegacyRejectStops
<1>9. ASSUME NEW k \in DOMAIN stage, Commit(k) PROVE StopInv' /\ StopIsFinal'
  BY <1>1, <1>9, CommitStops
<1>10. ASSUME NEW k \in DOMAIN stage, HostCreate(k) PROVE StopInv' /\ StopIsFinal'
  BY <1>1, <1>10, HostCreateStops
<1>11. ASSUME NEW k \in DOMAIN stage, HostResume(k) PROVE StopInv' /\ StopIsFinal'
  BY <1>1, <1>11, HostResumeStops
<1>12. ASSUME NEW k \in DOMAIN stage, NoResult(k) PROVE StopInv' /\ StopIsFinal'
  BY <1>1, <1>12, NoResultStops
<1>13. ASSUME NEW k \in DOMAIN stage, NEW escalated \in BOOLEAN, NEW claimed \in BOOLEAN,
              Return(k, escalated, claimed)
       PROVE  StopInv' /\ StopIsFinal'
  BY <1>1, <1>13, ReturnStops
<1>14. ASSUME NEW k \in DOMAIN stage, NEW failed \in BOOLEAN, Finish(k, failed)
       PROVE  StopInv' /\ StopIsFinal'
  BY <1>1, <1>14, FinishStops
<1>15. ASSUME NEW c \in Children, BindStart(c) \/ Request(c) \/ Fork(c)
       PROVE  StopInv' /\ StopIsFinal'
  BY <1>15, BindStartStops, RequestStops, ForkStops
<1>16. ASSUME NEW c \in Children, NEW how \in {"ok", "noContext", "fail"}, BindEnd(c, how)
       PROVE  StopInv' /\ StopIsFinal'
  BY <1>16, BindEndStops
<1>17. ASSUME NEW c \in Children, NEW act \in sc.acts, Act(c, act[1], act[2])
       PROVE  StopInv' /\ StopIsFinal'
  BY <1>17, ActStops
<1>18. ASSUME NEW c \in Children, NEW i \in 1..sc.parallel, ActEnd(c, i)
       PROVE  StopInv' /\ StopIsFinal'
  BY <1>18, ActEndStops
<1>19. ASSUME NEW s \in Children \cup sc.parents, Delete(s) PROVE StopInv' /\ StopIsFinal'
  BY <1>19, DeleteStops
<1>20. CASE Deliver \/ ExpirePending \/ NextStep
  BY <1>20, DeliverStops, ExpirePendingStops, NextStepStops
<1>21. CASE UNCHANGED vars
  <2>1. UNCHANGED <<sc, stage, work, session, gone, events, guard, halted, last>>
    BY <1>21 DEF vars
  <2>2. HostIsSound'
    BY <2>1, HostStays DEF StopInv
  <2>3. HaltsAreSpent' /\ GuardsAreSound'
    BY <2>1, HaltsStay DEF StopInv
  <2>4. StopIsFinal => StopIsFinal'
    BY <2>1 DEF StopIsFinal
  <2> QED BY <2>2, <2>3, <2>4 DEF StopInv
<1>22. CASE Next
  BY <1>2, <1>3, <1>4, <1>5, <1>6, <1>7, <1>8, <1>9, <1>10, <1>11, <1>12, <1>13, <1>14, <1>15,
     <1>16, <1>17, <1>18, <1>19, <1>20, <1>22, Zenon DEF Next
<1> QED BY <1>21, <1>22

\* In roles mode a stop is final and reported (enforce, captureBudget): whatever a child and
\* its parallel calls do after a stop guard refused one of them, no further call of that
\* attempt is allowed, and its return tells the orchestrator of this stop and of no other.
THEOREM StopsAreFinal == Spec => []StopIsFinal
<1>1. Init => StopInv /\ StopIsFinal
  BY StopInitial
<1>2. StopInv /\ StopIsFinal /\ [Next]_vars => StopInv' /\ StopIsFinal'
  BY StopStep
<1> QED BY <1>1, <1>2, PTL DEF Spec

-----------------------------------------------------------------------------
(* Grants: what a child may use rests on. *)

\* Whatever it holds.
WorkShape(w) ==
  w \in [preview : {w.preview}, after : {w.after}, afterCall : {w.afterCall}, bound : {w.bound},
         root : {w.root}, out : {w.out}, escalated : {w.escalated}]
RegistryShape(r) ==
  r \in [pending : {r.pending}, bound : {r.bound}, inflight : {r.inflight},
         retired : {r.retired}, deleted : {r.deleted}]
GrantShape(g) == g \in [actions : {g.actions}, root : {g.root}]
BoundShape(b) ==
  /\ b \in [kind : {b.kind}, grant : {b.grant}, parent : {b.parent}, agent : {b.agent}]
  /\ GrantShape(b.grant)
RequestShape(r) ==
  r \in [parent : {r.parent}, call : {r.call}, actions : {r.actions}, annotated : BOOLEAN]

\* The call was sent to the host, or refused: what it was routed to is settled.
Settled(k) == stage[k] \in {"sent", "running", "after", "over"}

\* A role's call is routed to that role.
OutIsSound(k, out) == GrantShape(out.grant) /\ (IsRole(k) => out.agent = sc.calls[k].agent)

WorkIsSettled ==
  /\ work = [k \in DOMAIN sc.calls |-> work[k]]
  /\ \A k \in DOMAIN sc.calls :
       /\ WorkShape(work[k])
       /\ work[k].out # <<>> => OutIsSound(k, Head(work[k].out))
       /\ stage[k] = "classifying" => IsRole(k)
       /\ stage[k] \in {"hooked", "sent", "running", "after"} => work[k].out # <<>>

\* Every record of a role's child names that role.
RecordIsOf(record, agent) == "agent" \in DOMAIN record /\ record.agent = agent
RoleCalls == {k \in DOMAIN sc.calls : IsRole(k)}

AgentsAreNamed ==
  /\ \A c \in RoleCalls \cap DOMAIN session : session[c].agent = sc.calls[c].agent
  /\ \A c \in RoleCalls \cap DOMAIN records : RecordIsOf(records[c], sc.calls[c].agent)
  /\ DOMAIN entries \subseteq DOMAIN sc.calls
  /\ \A k \in DOMAIN entries : "agent" \in DOMAIN entries[k].input
  /\ \A k \in RoleCalls \cap DOMAIN entries :
       /\ RecordIsOf(entries[k].input, sc.calls[k].agent)
       /\ entries[k].previous # <<>> => RecordIsOf(Head(entries[k].previous), sc.calls[k].agent)

\* A pending slot is that of its own call: its nonce and its grant.
SlotsAreOwn ==
  /\ RegistryShape(reg)
  /\ \A n \in DOMAIN reg.pending :
       /\ n \in DOMAIN sc.calls /\ Settled(n)
       /\ GrantShape(reg.pending[n].grant)
       /\ reg.pending[n].nonce = n /\ reg.pending[n].grant = Head(work[n].out).grant

Covers(have, grant) == grant.root = have.root /\ grant.actions \subseteq have.actions

\* A session shows no nonce but that of a call whose grant it was given.
MarkersAreOwn ==
  /\ DOMAIN auth = DOMAIN session
  /\ \A c \in DOMAIN session : GrantShape(auth[c])
  /\ \A c \in DOMAIN session : \E n \in DOMAIN sc.calls :
       /\ {session[c].title, session[c].prompt} \subseteq {n, None}
       /\ Settled(n) /\ Covers(auth[c], Head(work[n].out).grant)

\* A bound child holds what it was granted, or it only reads.
BoundIsGranted ==
  /\ DOMAIN reg.bound \cup DOMAIN reg.inflight \subseteq DOMAIN session
  /\ DOMAIN reg.bound \cap DOMAIN reg.inflight = {}
  /\ \A c \in DOMAIN reg.bound :
       /\ BoundShape(reg.bound[c]) /\ reg.bound[c].parent = session[c].parent
       /\ \/ reg.bound[c].kind = "exact" /\ Covers(auth[c], reg.bound[c].grant)
          \/ reg.bound[c].kind = "unknown" /\ reg.bound[c].grant = [actions |-> LOCAL_ACTIONS, root |-> None]

\* A request is of a child that is bound, or can never be again.
RequestsStand ==
  \A c \in DOMAIN requests :
    /\ c \in DOMAIN session /\ RequestShape(requests[c])
    /\ c \in DOMAIN reg.bound \/ {c, session[c].parent} \cap reg.deleted # {}

\* What a resume on its way may still be widened by is what it previewed: its floor was
\* computed for that.
PreviewHolds(k) ==
  LET c == ChildOf(k)
      role == sc.roles[sc.calls[k].agent]
      status == resumeCheck(requests, reg, c, role, sc.calls[k].parent, work[k].afterCall, TRUE)
  IN  /\ c \in DOMAIN session
      /\ work[k].afterCall # NoOne =>
           work[k].afterCall \in DOMAIN sc.calls /\ stage[work[k].afterCall] = "over"
      /\ work[k].after = "consume" /\ status = "widened" =>
           requests[c].actions \cap roleMax(role) \subseteq work[k].preview \cup auth[c].actions

PreviewsHold ==
  /\ \A c \in DOMAIN lastCall : lastCall[c] \in DOMAIN sc.calls /\ stage[lastCall[c]] = "over"
  /\ \A k \in DOMAIN sc.calls :
       Resumes(k) /\ IsRole(k) /\ stage[k] \in {"routing", "classifying"} => PreviewHolds(k)

\* A nonce that bound a session is that session's for good.
BindsStand ==
  /\ \A b \in binds : /\ b[1] \in DOMAIN sc.calls /\ Settled(b[1]) /\ b[2] # NoOne
                      /\ b[1] \in DOMAIN reg.pending => reg.pending[b[1]].by = b[2]
  /\ NonceBindsOnce

GrantInv ==
  /\ WorkIsSettled /\ AgentsAreNamed /\ SlotsAreOwn /\ MarkersAreOwn /\ BoundIsGranted
  /\ RequestsStand /\ PreviewsHold /\ BindsStand

\* What was sent or refused stays so.
SettledStay ==
  \A k \in DOMAIN sc.calls : Settled(k) => Settled(k)' /\ work'[k].out = work[k].out

\* Sessions are not lost, and what they were granted is not taken back.
GrantsGrow ==
  /\ DOMAIN session \subseteq DOMAIN session'
  /\ \A c \in DOMAIN session : session'[c].parent = session[c].parent
  /\ \A c \in DOMAIN session : auth'[c].root = auth[c].root /\ auth[c].actions \subseteq auth'[c].actions

-----------------------------------------------------------------------------
(* Grants: what the operations on the registry do. *)

LEMMA DropIs ==
  ASSUME NEW map, NEW key, NEW m, m = Drop(map, key)
  PROVE  /\ DOMAIN m = DOMAIN map \ {key}
         /\ \A x \in DOMAIN m : m[x] = map[x]
BY DEF Drop, Restrict

\* The registry has fewer slots, each as it was.
Thinned(r, s) ==
  /\ RegistryShape(s)
  /\ DOMAIN s.pending \subseteq DOMAIN r.pending
  /\ \A n \in DOMAIN s.pending : s.pending[n] = r.pending[n]
  /\ s.bound = r.bound /\ s.inflight = r.inflight /\ s.deleted = r.deleted

LEMMA RemoveIs ==
  ASSUME NEW r, RegistryShape(r), NEW keys, NEW s, s = removePending(r, keys)
  PROVE  Thinned(r, s) /\ DOMAIN s.pending = DOMAIN r.pending \ keys
<1>1. PICK retired : retired = r.retired \cup {r.pending[k].nonce : k \in DOMAIN r.pending \cap keys}
  OBVIOUS
<1>2. s = [r EXCEPT !.pending = Restrict(r.pending, DOMAIN r.pending \ keys), !.retired = retired]
  BY <1>1 DEF removePending
<1>3. s = [pending |-> Restrict(r.pending, DOMAIN r.pending \ keys), bound |-> r.bound,
           inflight |-> r.inflight, retired |-> retired, deleted |-> r.deleted]
  BY <1>2 DEF RegistryShape
<1> QED BY <1>3 DEF RegistryShape, Restrict, Thinned

LEMMA EvictCallIs ==
  ASSUME NEW r, RegistryShape(r), NEW call, NEW s, s = evictCall(r, call)
  PROVE  Thinned(r, s)
BY RemoveIs DEF evictCall

LEMMA EvictIs ==
  ASSUME NEW r, RegistryShape(r), NEW id, NEW s, s = evict(r, id)
  PROVE  /\ RegistryShape(s)
         /\ DOMAIN s.pending \subseteq DOMAIN r.pending
         /\ \A n \in DOMAIN s.pending : s.pending[n] = r.pending[n]
         /\ DOMAIN s.bound = {c \in DOMAIN r.bound : c # id /\ r.bound[c].parent # id}
         /\ \A c \in DOMAIN s.bound : s.bound[c] = r.bound[c]
         /\ DOMAIN s.inflight \subseteq DOMAIN r.inflight
         /\ s.deleted = r.deleted \cup {id}
<1>1. PICK t : t = removePending(r, {k \in DOMAIN r.pending : r.pending[k].parent = id})
  OBVIOUS
<1>2. Thinned(r, t)
  BY <1>1, RemoveIs
<1>3. PICK kept : kept = {c \in DOMAIN t.bound : c # id /\ t.bound[c].parent # id}
  OBVIOUS
<1>4. s = [t EXCEPT !.deleted = t.deleted \cup {id}, !.bound = Restrict(t.bound, kept),
                    !.inflight = Restrict(t.inflight, DOMAIN t.inflight \ {id})]
  BY <1>1, <1>3 DEF evict
<1>5. s = [pending |-> t.pending, bound |-> Restrict(t.bound, kept),
           inflight |-> Restrict(t.inflight, DOMAIN t.inflight \ {id}), retired |-> t.retired,
           deleted |-> t.deleted \cup {id}]
  BY <1>2, <1>4 DEF Thinned, RegistryShape
<1> QED BY <1>2, <1>3, <1>5 DEF Thinned, RegistryShape, Restrict

\* A registration adds the slot of its call, unclaimed, or nothing.
LEMMA RegisterIs ==
  ASSUME NEW r, RegistryShape(r), NEW call, call \notin DOMAIN r.pending, NEW entry,
         NEW s, s = registerPending(r, call, entry)
  PROVE  /\ RegistryShape(s) /\ s.bound = r.bound /\ s.inflight = r.inflight /\ s.deleted = r.deleted
         /\ DOMAIN s.pending \subseteq DOMAIN r.pending \cup {call}
         /\ \A n \in DOMAIN s.pending : n # call => s.pending[n] = r.pending[n]
         /\ call \in DOMAIN s.pending =>
              s.pending[call].nonce = entry.nonce /\ s.pending[call].grant = entry.grant
<1>1. CASE s = r
  BY <1>1
<1>2. CASE s # r
  <2>1. PICK t : t = removePending(r, {call})
    OBVIOUS
  <2>2. Thinned(r, t)
    BY <2>1, RemoveIs
  <2>3. PICK slot : slot = [parent |-> entry.parent, agent |-> entry.agent, nonce |-> entry.nonce,
                            grant |-> entry.grant, by |-> NoOne, nr |-> NextNr(t.pending)]
    OBVIOUS
  <2>4. s = [t EXCEPT !.pending = remember(t.pending, call, slot)]
    BY <1>2, <2>1, <2>3 DEF registerPending
  <2>5. s = [pending |-> remember(t.pending, call, slot), bound |-> t.bound, inflight |-> t.inflight,
             retired |-> t.retired, deleted |-> t.deleted]
    BY <2>2, <2>4 DEF Thinned, RegistryShape
  <2>6. PICK p : p = remember(t.pending, call, slot)
    OBVIOUS
  <2>7. /\ DOMAIN p = DOMAIN t.pending \cup {call} /\ p[call] = slot
        /\ \A x \in DOMAIN t.pending : x # call => p[x] = t.pending[x]
    BY <2>6 DEF remember
  <2> QED BY <2>2, <2>3, <2>5, <2>6, <2>7 DEF Thinned, RegistryShape
<1> QED BY <1>1, <1>2

\* A child is bound exactly only to the slot that its nonce names and nobody else claimed.
LEMMA BindToIs ==
  ASSUME NEW r, RegistryShape(r), NEW child, NEW s,
         NEW d, d = decideBinding(r, child, s)
  PROVE  \/ d.reg = r /\ d.binding = unknown(s.parent, s.agent)
         \/ \E at \in DOMAIN r.pending :
              /\ NonceOf(s) # None /\ r.pending[at].nonce = NonceOf(s)
              /\ r.pending[at].parent = s.parent
              /\ r.pending[at].by \in {NoOne, child}
              /\ d.binding = exact(r.pending[at])
              /\ RegistryShape(d.reg) /\ d.reg.bound = r.bound /\ d.reg.inflight = r.inflight
              /\ d.reg.deleted = r.deleted
              /\ DOMAIN d.reg.pending = DOMAIN r.pending
              /\ d.reg.pending[at].by = child /\ d.reg.pending[at].nonce = r.pending[at].nonce
              /\ d.reg.pending[at].grant = r.pending[at].grant
              /\ \A n \in DOMAIN r.pending : n # at => d.reg.pending[n] = r.pending[n]
<1>1. PICK slots : slots = {k \in SlotsFor(r, child, s) :
                              NonceOf(s) # None /\ r.pending[k].nonce = NonceOf(s)}
  OBVIOUS
<1>2. d = BindTo(r, slots, child, s)
  BY <1>1 DEF decideBinding
<1>3. CASE slots = {}
  BY <1>2, <1>3 DEF BindTo
<1>4. CASE slots # {}
  <2>1. PICK at : at = CHOOSE k \in slots : TRUE
    OBVIOUS
  <2>2. at \in slots
    BY <1>4, <2>1
  <2>3. /\ at \in DOMAIN r.pending /\ NonceOf(s) # None /\ r.pending[at].nonce = NonceOf(s)
        /\ r.pending[at].parent = s.parent /\ r.pending[at].by \in {NoOne, child}
    BY <1>1, <2>2, Zenon DEF SlotsFor, Unclaimed
  <2>4. PICK slot : slot = [parent |-> r.pending[at].parent, agent |-> r.pending[at].agent,
                            nonce |-> r.pending[at].nonce, grant |-> r.pending[at].grant,
                            by |-> child, nr |-> r.pending[at].nr]
    OBVIOUS
  <2>5. PICK p : p = remember(r.pending, at, slot)
    OBVIOUS
  <2>6. d = [binding |-> exact(r.pending[at]), reg |-> [r EXCEPT !.pending = p]]
    BY <1>2, <1>4, <2>1, <2>4, <2>5 DEF BindTo
  <2>7. [r EXCEPT !.pending = p] =
          [pending |-> p, bound |-> r.bound, inflight |-> r.inflight, retired |-> r.retired,
           deleted |-> r.deleted]
    BY DEF RegistryShape
  <2>8. /\ DOMAIN p = DOMAIN r.pending /\ p[at] = slot
        /\ \A x \in DOMAIN r.pending : x # at => p[x] = r.pending[x]
    BY <2>3, <2>5 DEF remember
  <2>9. PICK e : e = d.reg
    OBVIOUS
  <2>10. /\ RegistryShape(e) /\ e.bound = r.bound /\ e.inflight = r.inflight
         /\ e.deleted = r.deleted /\ e.pending = p /\ d.binding = exact(r.pending[at])
    BY <2>6, <2>7, <2>9 DEF RegistryShape
  <2>11. /\ p[at].by = child /\ p[at].nonce = r.pending[at].nonce
         /\ p[at].grant = r.pending[at].grant
    BY <2>4, <2>8
  <2> QED BY <2>3, <2>8, <2>9, <2>10, <2>11, Zenon
<1> QED BY <1>3, <1>4

\* The end of a bind caches the binding of the child and of no other.
LEMMA SettleIs ==
  ASSUME NEW r, RegistryShape(r), NEW child \in DOMAIN r.inflight, NEW token, NEW binding,
         NEW cacheable, NEW s, s = settleBind(r, child, token, binding, cacheable)
  PROVE  /\ RegistryShape(s) /\ s.pending = r.pending /\ s.deleted = r.deleted
         /\ DOMAIN s.inflight \subseteq DOMAIN r.inflight
         /\ \/ s.bound = r.bound
            \/ /\ cacheable /\ {child, binding.parent} \cap r.deleted = {}
               /\ DOMAIN s.inflight = DOMAIN r.inflight \ {child}
               /\ DOMAIN s.bound = DOMAIN r.bound \cup {child} /\ s.bound[child] = binding
               /\ \A c \in DOMAIN r.bound : c # child => s.bound[c] = r.bound[c]
<1>1. PICK running : running = (r.inflight[child] = token)
  OBVIOUS
<1>2. PICK cached : cached = (running /\ cacheable /\ ~isDeleted(r, child) /\ ~isDeleted(r, binding.parent))
  OBVIOUS
<1>3. PICK b : b = IF cached THEN remember(r.bound, child, binding) ELSE r.bound
  OBVIOUS
<1>4. PICK f : f = IF running THEN Restrict(r.inflight, DOMAIN r.inflight \ {child}) ELSE r.inflight
  OBVIOUS
<1>5. s = [r EXCEPT !.bound = b, !.inflight = f]
  BY <1>1, <1>2, <1>3, <1>4 DEF settleBind
<1>6. s = [pending |-> r.pending, bound |-> b, inflight |-> f, retired |-> r.retired,
           deleted |-> r.deleted]
  BY <1>5 DEF RegistryShape
<1>7. /\ RegistryShape(s) /\ s.pending = r.pending /\ s.deleted = r.deleted
      /\ s.bound = b /\ s.inflight = f
  BY <1>6 DEF RegistryShape
<1>8. DOMAIN f \subseteq DOMAIN r.inflight /\ (running => DOMAIN f = DOMAIN r.inflight \ {child})
  BY <1>4 DEF Restrict
<1>9. CASE ~cached
  BY <1>3, <1>7, <1>8, <1>9
<1>10. CASE cached
  <2>1. /\ DOMAIN b = DOMAIN r.bound \cup {child} /\ b[child] = binding
        /\ \A c \in DOMAIN r.bound : c # child => b[c] = r.bound[c]
    BY <1>3, <1>10 DEF remember
  <2> QED BY <1>2, <1>7, <1>8, <1>10, <2>1, Zenon DEF isDeleted
<1> QED BY <1>9, <1>10

\* A widening only adds what was asked for inside the maximum.
LEMMA WidenIs ==
  ASSUME NEW r, RegistryShape(r), NEW child \in DOMAIN r.bound, NEW actions, NEW max,
         NEW s, s = widen(r, child, actions, max)
  PROVE  /\ RegistryShape(s) /\ s.pending = r.pending /\ s.inflight = r.inflight
         /\ s.deleted = r.deleted /\ DOMAIN s.bound = DOMAIN r.bound
         /\ \A c \in DOMAIN r.bound : c # child => s.bound[c] = r.bound[c]
         /\ BoundShape(s.bound[child])
         /\ s.bound[child].kind = r.bound[child].kind
         /\ s.bound[child].parent = r.bound[child].parent
         /\ s.bound[child].grant.root = r.bound[child].grant.root
         /\ s.bound[child].grant.actions \subseteq r.bound[child].grant.actions \cup (actions \cap max)
<1>1. PICK b : b = r.bound[child]
  OBVIOUS
<1>2. PICK before : before = restrict(b.grant.actions, b.grant.root, max)
  OBVIOUS
<1>3. before.actions \subseteq b.grant.actions /\ before.root = b.grant.root
  BY <1>2 DEF restrict, Separated
<1>4. PICK fit : fit = {a \in actions \cap max :
                          /\ a \notin before.actions \cup {"execute"}
                          /\ a \in WRITE \cup EXEC => before.root # None}
  OBVIOUS
<1>5. PICK added : added = IF before.actions = {} THEN Separated(fit)
                           ELSE {a \in fit : \A h \in before.actions : h \in EGRESS <=> a \in EGRESS}
  OBVIOUS
<1>6. added \subseteq actions \cap max
  BY <1>4, <1>5 DEF Separated
<1>7. PICK next : next = [kind |-> b.kind, parent |-> b.parent, agent |-> b.agent,
                          grant |-> [actions |-> before.actions \cup added, root |-> before.root]]
  OBVIOUS
<1>8. PICK m : m = remember(r.bound, child, next)
  OBVIOUS
<1>9. s = [r EXCEPT !.bound = m]
  BY <1>1, <1>2, <1>4, <1>5, <1>7, <1>8, Zenon DEF widen
<1>10. s = [pending |-> r.pending, bound |-> m, inflight |-> r.inflight, retired |-> r.retired,
            deleted |-> r.deleted]
  BY <1>9 DEF RegistryShape
<1>11. /\ DOMAIN m = DOMAIN r.bound /\ m[child] = next
       /\ \A c \in DOMAIN r.bound : c # child => m[c] = r.bound[c]
  BY <1>8 DEF remember
<1>12. BoundShape(next)
  BY <1>7 DEF BoundShape, GrantShape
<1>13. /\ RegistryShape(s) /\ s.pending = r.pending /\ s.inflight = r.inflight
       /\ s.deleted = r.deleted /\ s.bound = m
  BY <1>10 DEF RegistryShape
<1>14. /\ next.kind = b.kind /\ next.parent = b.parent /\ next.grant.root = b.grant.root
       /\ next.grant.actions \subseteq b.grant.actions \cup (actions \cap max)
  BY <1>3, <1>6, <1>7
<1> QED BY <1>1, <1>11, <1>12, <1>13, <1>14

-----------------------------------------------------------------------------
(* Grants: what leaves each part of the invariant alone. *)

LEMMA WorkMoves ==
  ASSUME HostIsSound, WorkIsSettled, sc' = sc, NEW k \in DOMAIN sc.calls, NEW v,
         stage' = [stage EXCEPT ![k] = v],
         work' = [j \in DOMAIN sc.calls |-> work'[j]],
         \A j \in DOMAIN sc.calls : j # k => work'[j] = work[j],
         WorkShape(work'[k]), work'[k].out # <<>> => OutIsSound(k, Head(work'[k].out)),
         v = "classifying" => IsRole(k),
         v \in {"hooked", "sent", "running", "after"} => work'[k].out # <<>>,
         Settled(k) => v \in {"sent", "running", "after", "over"} /\ work'[k].out = work[k].out
  PROVE  WorkIsSettled' /\ SettledStay
<1>1. \A j \in DOMAIN sc.calls : stage'[j] = IF j = k THEN v ELSE stage[j]
  BY DEF HostIsSound
<1>2. \A j \in DOMAIN sc.calls : IsRole(j)' <=> IsRole(j)
  BY DEF IsRole
<1>3. WorkIsSettled'
  <2>1. ASSUME NEW j \in DOMAIN sc.calls
        PROVE  /\ WorkShape(work'[j])
               /\ work'[j].out # <<>> => OutIsSound(j, Head(work[j].out))'
               /\ stage'[j] = "classifying" => IsRole(j)'
               /\ stage'[j] \in {"hooked", "sent", "running", "after"} => work'[j].out # <<>>
    <3>1. CASE j = k
      BY <1>1, <1>2, <3>1 DEF OutIsSound, GrantShape
    <3>2. CASE j # k
      BY <1>1, <1>2, <3>2 DEF WorkIsSettled, OutIsSound, GrantShape
    <3> QED BY <3>1, <3>2
  <2> QED BY <2>1 DEF WorkIsSettled, WorkShape
<1>4. SettledStay
  BY <1>1 DEF SettledStay, Settled
<1> QED BY <1>3, <1>4

\* A call moves on and its work is left alone.
LEMMA WorkStays ==
  ASSUME HostIsSound, WorkIsSettled, sc' = sc, NEW k \in DOMAIN sc.calls, NEW v,
         stage' = [stage EXCEPT ![k] = v], work' = work,
         v \in {"hooked", "sent", "running", "after"} =>
           stage[k] \in {"hooked", "sent", "running", "after"},
         v # "classifying", Settled(k) => v \in {"sent", "running", "after", "over"}
  PROVE  WorkIsSettled' /\ SettledStay
<1>1. /\ work' = [j \in DOMAIN sc.calls |-> work'[j]] /\ WorkShape(work'[k])
      /\ work'[k].out # <<>> => OutIsSound(k, Head(work'[k].out))
      /\ v \in {"hooked", "sent", "running", "after"} => work'[k].out # <<>>
  BY DEF WorkIsSettled
<1> QED BY <1>1, WorkMoves

LEMMA AgentsStay ==
  ASSUME AgentsAreNamed, sc' = sc, session' = session, records' = records,
         DOMAIN entries' \subseteq DOMAIN entries,
         \A k \in DOMAIN entries' : entries'[k] = entries[k]
  PROVE  AgentsAreNamed'
<1>1. RoleCalls' = RoleCalls
  BY DEF RoleCalls, IsRole
<1> QED BY <1>1 DEF AgentsAreNamed, RecordIsOf

LEMMA SlotsStay ==
  ASSUME SlotsAreOwn, sc' = sc, SettledStay, RegistryShape(reg'),
         DOMAIN reg'.pending \subseteq DOMAIN reg.pending,
         \A n \in DOMAIN reg'.pending :
           /\ reg'.pending[n].nonce = reg.pending[n].nonce
           /\ reg'.pending[n].grant = reg.pending[n].grant
  PROVE  SlotsAreOwn'
BY DEF SlotsAreOwn, SettledStay

LEMMA MarkersStay ==
  ASSUME MarkersAreOwn, sc' = sc, SettledStay, GrantsGrow,
         DOMAIN session' = DOMAIN session, DOMAIN auth' = DOMAIN session,
         \A c \in DOMAIN session :
           /\ session'[c].title = session[c].title /\ session'[c].prompt = session[c].prompt
           /\ GrantShape(auth'[c])
  PROVE  MarkersAreOwn'
<1>1. ASSUME NEW c \in DOMAIN session
      PROVE  \E n \in DOMAIN sc.calls :
               /\ {session'[c].title, session'[c].prompt} \subseteq {n, None}
               /\ Settled(n)' /\ Covers(auth'[c], Head(work'[n].out).grant)
  <2>1. PICK n \in DOMAIN sc.calls :
               /\ {session[c].title, session[c].prompt} \subseteq {n, None}
               /\ Settled(n) /\ Covers(auth[c], Head(work[n].out).grant)
    BY DEF MarkersAreOwn
  <2>2. Settled(n)' /\ work'[n].out = work[n].out
    BY <2>1 DEF SettledStay
  <2>3. Covers(auth'[c], Head(work'[n].out).grant)
    BY <2>1, <2>2 DEF GrantsGrow, Covers
  <2> QED BY <2>1, <2>2, <2>3
<1> QED BY <1>1 DEF MarkersAreOwn, GrantShape

LEMMA BoundStays ==
  ASSUME BoundIsGranted, GrantsGrow,
         DOMAIN reg'.bound \subseteq DOMAIN reg.bound,
         \A c \in DOMAIN reg'.bound : reg'.bound[c] = reg.bound[c],
         DOMAIN reg'.inflight \subseteq DOMAIN reg.inflight
  PROVE  BoundIsGranted'
<1>1. ASSUME NEW c \in DOMAIN reg'.bound
      PROVE  /\ BoundShape(reg'.bound[c]) /\ reg'.bound[c].parent = session'[c].parent
             /\ \/ reg'.bound[c].kind = "exact" /\ Covers(auth'[c], reg'.bound[c].grant)
                \/ /\ reg'.bound[c].kind = "unknown"
                   /\ reg'.bound[c].grant = [actions |-> LOCAL_ACTIONS, root |-> None]
  <2>1. /\ BoundShape(reg.bound[c]) /\ reg.bound[c].parent = session[c].parent
        /\ \/ reg.bound[c].kind = "exact" /\ Covers(auth[c], reg.bound[c].grant)
           \/ /\ reg.bound[c].kind = "unknown"
              /\ reg.bound[c].grant = [actions |-> LOCAL_ACTIONS, root |-> None]
    BY DEF BoundIsGranted
  <2>2. c \in DOMAIN session /\ reg'.bound[c] = reg.bound[c]
    BY DEF BoundIsGranted
  <2>3. Covers(auth[c], reg.bound[c].grant) => Covers(auth'[c], reg.bound[c].grant)
    BY <2>2 DEF GrantsGrow, Covers
  <2> QED BY <2>1, <2>2, <2>3 DEF GrantsGrow
<1>2. DOMAIN reg'.bound \cup DOMAIN reg'.inflight \subseteq DOMAIN session'
  BY DEF BoundIsGranted, GrantsGrow
<1>3. DOMAIN reg'.bound \cap DOMAIN reg'.inflight = {}
  BY DEF BoundIsGranted
<1> QED BY <1>1, <1>2, <1>3, Zenon DEF BoundIsGranted

LEMMA RequestsStay ==
  ASSUME RequestsStand, GrantsGrow,
         DOMAIN requests' \subseteq DOMAIN requests,
         \A c \in DOMAIN requests' : RequestShape(requests'[c]),
         DOMAIN reg.bound \subseteq DOMAIN reg'.bound, reg'.deleted = reg.deleted
  PROVE  RequestsStand'
BY DEF RequestsStand, GrantsGrow

\* A request that is open now, or was annotated by a call that is not over when it was, widens
\* nobody; any other was there before.
RequestsFade ==
  \A c \in DOMAIN requests' :
    \/ ~requests'[c].annotated
    \/ c \notin DOMAIN reg'.bound
    \/ c \in DOMAIN reg'.bound /\ reg'.bound[c].kind # "exact"
    \/ requests'[c].call \in DOMAIN sc.calls /\ stage[requests'[c].call] # "over"
    \/ /\ c \in DOMAIN requests /\ requests'[c] = requests[c]
       /\ c \in DOMAIN reg.bound /\ reg.bound[c].kind = "exact"

OverStays == \A j \in DOMAIN sc.calls : stage[j] = "over" => stage'[j] = "over"

LEMMA PreviewStays ==
  ASSUME sc' = sc, GrantsGrow, RequestsFade, OverStays,
         NEW k \in DOMAIN sc.calls, PreviewHolds(k),
         work'[k].preview = work[k].preview, work'[k].after = work[k].after,
         work'[k].afterCall = work[k].afterCall, sc \in Scenarios
  PROVE  PreviewHolds(k)'
<1>1. PICK c : c = ChildOf(k)
  OBVIOUS
<1>2. ChildOf(k)' = c /\ c \in DOMAIN session /\ c \in DOMAIN session'
  BY <1>1 DEF ChildOf, PreviewHolds, GrantsGrow
<1>3. PICK role : role = sc.roles[sc.calls[k].agent]
  OBVIOUS
<1>4. PICK p : p = sc.calls[k].parent
  OBVIOUS
<1>5. PICK a : a = work[k].afterCall
  OBVIOUS
<1>6. /\ a # NoOne => a \in DOMAIN sc.calls /\ stage[a] = "over"
      /\ work[k].after = "consume" /\ resumeCheck(requests, reg, c, role, p, a, TRUE) = "widened" =>
           requests[c].actions \cap roleMax(role) \subseteq work[k].preview \cup auth[c].actions
  BY <1>1, <1>3, <1>4, <1>5, Zenon DEF PreviewHolds
<1>7. a # NoOne => a \in DOMAIN sc.calls /\ stage'[a] = "over"
  BY <1>6 DEF OverStays
<1>8. resumeCheck(requests', reg', c, role, p, a, TRUE) = "widened" =>
        /\ resumeCheck(requests, reg, c, role, p, a, TRUE) = "widened"
        /\ requests'[c] = requests[c]
  <2> HAVE resumeCheck(requests', reg', c, role, p, a, TRUE) = "widened"
  <2>1. /\ c \in DOMAIN requests' /\ requests'[c].annotated /\ requests'[c].parent = p
        /\ requests'[c].call = a /\ role.mode # "fixed" /\ c \in DOMAIN reg'.bound
        /\ reg'.bound[c].kind = "exact"
    BY DEF resumeCheck
  <2>2. NoOne \notin DOMAIN sc.calls
    BY ScenariosAssumption
  <2>3. ~(requests'[c].call \in DOMAIN sc.calls /\ stage[requests'[c].call] # "over")
    BY <1>6, <2>1, <2>2
  <2>4. /\ c \in DOMAIN requests /\ requests'[c] = requests[c]
        /\ c \in DOMAIN reg.bound /\ reg.bound[c].kind = "exact"
    BY <2>1, <2>3 DEF RequestsFade
  <2> QED BY <2>1, <2>4 DEF resumeCheck
<1>9. auth[c].actions \subseteq auth'[c].actions
  BY <1>2 DEF GrantsGrow
<1>10. work[k].after = "consume" /\ resumeCheck(requests', reg', c, role, p, a, TRUE) = "widened" =>
         requests'[c].actions \cap roleMax(role) \subseteq work[k].preview \cup auth'[c].actions
  BY <1>6, <1>8, <1>9
<1> QED BY <1>2, <1>3, <1>4, <1>5, <1>7, <1>10, Zenon DEF PreviewHolds

LEMMA PreviewsStay ==
  ASSUME HostIsSound, PreviewsHold, sc' = sc, GrantsGrow, RequestsFade, OverStays,
         \A c \in DOMAIN lastCall' : lastCall'[c] \in DOMAIN sc.calls /\ stage'[lastCall'[c]] = "over",
         \A k \in DOMAIN sc.calls : stage'[k] \in {"routing", "classifying"} =>
           /\ stage[k] \in {"routing", "classifying"}
           /\ work'[k].preview = work[k].preview /\ work'[k].after = work[k].after
           /\ work'[k].afterCall = work[k].afterCall
  PROVE  PreviewsHold'
<1>1. ASSUME NEW k \in DOMAIN sc.calls, Resumes(k)', IsRole(k)', stage'[k] \in {"routing", "classifying"}
      PROVE  PreviewHolds(k)'
  <2>1. Resumes(k) /\ IsRole(k)
    BY <1>1 DEF Resumes, IsRole
  <2>2. PreviewHolds(k)
    BY <1>1, <2>1 DEF PreviewsHold
  <2> QED BY <1>1, <2>2, PreviewStays DEF HostIsSound
<1> QED BY <1>1, Zenon DEF PreviewsHold

LEMMA BindsStay ==
  ASSUME BindsStand, sc' = sc, SettledStay, binds' = binds,
         \A n \in DOMAIN reg'.pending : n \in DOMAIN sc.calls /\ Settled(n) =>
           n \in DOMAIN reg.pending /\ reg'.pending[n].by = reg.pending[n].by
  PROVE  BindsStand'
BY DEF BindsStand, SettledStay, NonceBindsOnce

\* The hooks of a call move it on; the registry and the requests are left alone.
LEMMA HookMoves ==
  ASSUME StopInv, GrantInv, sc' = sc, NEW k \in DOMAIN sc.calls, NEW v,
         stage' = [stage EXCEPT ![k] = v], stage[k] # "over",
         work' = [j \in DOMAIN sc.calls |-> work'[j]],
         \A j \in DOMAIN sc.calls : j # k => work'[j] = work[j],
         WorkIsSettled' /\ SettledStay,
         v \in {"routing", "classifying"} /\ Resumes(k) /\ IsRole(k) => PreviewHolds(k)',
         UNCHANGED <<reg, requests, records, entries, lastCall, session, auth, binds>>
  PROVE  GrantInv'
<1>1. \A j \in DOMAIN sc.calls : stage'[j] = IF j = k THEN v ELSE stage[j]
  BY DEF StopInv, HostIsSound
<1>2. GrantsGrow /\ OverStays
  BY <1>1 DEF GrantsGrow, OverStays
<1>3. AgentsAreNamed' /\ SlotsAreOwn' /\ MarkersAreOwn' /\ BoundIsGranted' /\ BindsStand'
  BY <1>2, AgentsStay, SlotsStay, MarkersStay, BoundStays, BindsStay
     DEF GrantInv, SlotsAreOwn, MarkersAreOwn
<1>4. RequestsStand'
  BY DEF GrantInv, RequestsStand
<1>5. PreviewsHold'
  <2>1. RequestsFade
    BY DEF RequestsFade
  <2>2. ASSUME NEW j \in DOMAIN sc.calls, Resumes(j)', IsRole(j)', stage'[j] \in {"routing", "classifying"}
        PROVE  PreviewHolds(j)'
    <3>1. Resumes(j) /\ IsRole(j)
      BY <2>2 DEF Resumes, IsRole
    <3>2. CASE j = k
      BY <1>1, <2>2, <3>1, <3>2
    <3>3. CASE j # k
      <4>1. PreviewHolds(j) /\ work'[j] = work[j]
        BY <1>1, <2>2, <3>1, <3>3 DEF GrantInv, PreviewsHold
      <4> QED BY <1>2, <2>1, <4>1, PreviewStays DEF StopInv, HostIsSound
    <3> QED BY <3>2, <3>3
  <2>3. \A c \in DOMAIN lastCall' : lastCall'[c] \in DOMAIN sc.calls /\ stage'[lastCall'[c]] = "over"
    BY <1>2 DEF GrantInv, PreviewsHold, OverStays
  <2> QED BY <2>2, <2>3, Zenon DEF PreviewsHold
<1> QED BY <1>3, <1>4, <1>5 DEF GrantInv

-----------------------------------------------------------------------------
(* Grants: the hooks of a call. *)

LEMMA NothingUsed ==
  ASSUME last' = Quiet
  PROVE  UseWithinGrant'
BY DEF UseWithinGrant, Quiet

\* The role of a child is the one the calls that resume it name.
LEMMA RoleIs ==
  ASSUME StopInv, GrantInv, NEW k \in DOMAIN sc.calls, IsRole(k), NEW c, c = ChildOf(k),
         c \in DOMAIN session
  PROVE  /\ c \in RoleCalls /\ sc.calls[c].agent = sc.calls[k].agent
         /\ RoleOf(c) = sc.roles[sc.calls[k].agent]
<1>1. c \in DOMAIN sc.calls /\ sc.calls[c].agent = sc.calls[k].agent
  BY ScenariosAssumption DEF ChildOf, StopInv, HostIsSound
<1>2. c \in RoleCalls
  BY <1>1 DEF RoleCalls, IsRole
<1>3. /\ session[c].agent = sc.calls[c].agent
      /\ c \in DOMAIN records => records[c].agent = sc.calls[c].agent
  BY <1>2 DEF GrantInv, AgentsAreNamed, RecordIsOf
<1> QED BY <1>1, <1>2, <1>3 DEF RoleOf

\* A resume previews what its floor does not cover yet.
LEMMA BeforeGrants ==
  ASSUME StopInv, GrantInv, NEW k \in DOMAIN sc.calls, Before(k)
  PROVE  GrantInv' /\ UseWithinGrant'
<1>1. PICK c : c = ChildOf(k)
  OBVIOUS
<1>2. PICK after : after = IF c \in DOMAIN lastCall THEN lastCall[c] ELSE NoOne
  OBVIOUS
<1>3. PICK p : p = sc.calls[k].parent
  OBVIOUS
<1>4. PICK status : status = resumeCheck(requests, reg, c, RoleOf(c), p, after, TRUE)
  OBVIOUS
<1>5. PICK preview, todo :
        /\ todo = "consume" /\ status = "widened" => preview = previewAuthority(requests, reg, c, RoleOf(c))
        /\ stage[k] = "idle" /\ last' = Quiet
        /\ \/ stage' = [stage EXCEPT ![k] = "over"] /\ work' = work
           \/ /\ stage' = [stage EXCEPT ![k] = "routing"]
              /\ Resumes(k) => Live(c)
              /\ work' = [work EXCEPT ![k] = IF ~Resumes(k) \/ ~IsRole(k) THEN @
                            ELSE [@ EXCEPT !.afterCall = after, !.preview = preview, !.after = todo]]
        /\ UNCHANGED <<sc, reg, requests, records, entries, lastCall, session, auth, binds>>
  <2>1. PICK preview : preview = IF status = "widened"
                                 THEN previewAuthority(requests, reg, c, RoleOf(c)) ELSE {}
    OBVIOUS
  <2>2. PICK todo : todo = CASE status = "none" -> "none"
                             [] status = "bindingUnknown" -> "evict"
                             [] OTHER -> "consume"
    OBVIOUS
  <2>3. /\ stage[k] = "idle" /\ last' = Quiet
        /\ \/ stage' = [stage EXCEPT ![k] = "over"] /\ work' = work
           \/ /\ stage' = [stage EXCEPT ![k] = "routing"]
              /\ Resumes(k) => Live(c)
              /\ work' = [work EXCEPT ![k] = IF ~Resumes(k) \/ ~IsRole(k) THEN @
                            ELSE [@ EXCEPT !.afterCall = after, !.preview = preview, !.after = todo]]
    BY <1>1, <1>2, <1>3, <1>4, <2>1, <2>2, Zenon DEF Before
  <2>4. UNCHANGED <<sc, reg, requests, records, entries, lastCall, session, auth, binds>>
    BY DEF Before, routed, host, history
  <2> QED BY <2>1, <2>3, <2>4
<1>6. CASE stage' = [stage EXCEPT ![k] = "over"] /\ work' = work
  <2>1. WorkIsSettled' /\ SettledStay
    BY <1>5, <1>6, WorkStays DEF StopInv, GrantInv, Settled
  <2> QED BY <1>5, <1>6, <2>1, HookMoves, NothingUsed DEF StopInv, HostIsSound
<1>7. CASE /\ stage' = [stage EXCEPT ![k] = "routing"]
           /\ Resumes(k) => Live(c)
           /\ work' = [work EXCEPT ![k] = IF ~Resumes(k) \/ ~IsRole(k) THEN @
                         ELSE [@ EXCEPT !.afterCall = after, !.preview = preview, !.after = todo]]
  <2>1. /\ work' = [j \in DOMAIN sc.calls |-> work'[j]]
        /\ \A j \in DOMAIN sc.calls : j # k => work'[j] = work[j]
    BY <1>7 DEF StopInv, HostIsSound
  <2>2. /\ WorkShape(work'[k]) /\ work'[k].out = work[k].out
        /\ Resumes(k) /\ IsRole(k) =>
             work'[k].afterCall = after /\ work'[k].preview = preview /\ work'[k].after = todo
    <3>1. CASE ~Resumes(k) \/ ~IsRole(k)
      BY <1>7, <3>1 DEF GrantInv, WorkIsSettled, StopInv, HostIsSound
    <3>2. CASE Resumes(k) /\ IsRole(k)
      <4>1. PICK w : w = [work[k] EXCEPT !.afterCall = after, !.preview = preview, !.after = todo]
        OBVIOUS
      <4>2. WorkShape(work[k])
        BY DEF GrantInv, WorkIsSettled
      <4>3. w = [preview |-> preview, after |-> todo, afterCall |-> after, bound |-> work[k].bound,
                 root |-> work[k].root, out |-> work[k].out, escalated |-> work[k].escalated]
        BY <4>1, <4>2 DEF WorkShape
      <4>4. work'[k] = w
        BY <1>7, <3>2, <4>1 DEF StopInv, HostIsSound
      <4> QED BY <4>3, <4>4 DEF WorkShape
    <3> QED BY <3>1, <3>2
  <2>3. WorkIsSettled' /\ SettledStay
    <3>1. work'[k].out # <<>> => OutIsSound(k, Head(work'[k].out))
      BY <2>2 DEF GrantInv, WorkIsSettled
    <3> QED BY <1>5, <1>7, <2>1, <2>2, <3>1, WorkMoves DEF StopInv, GrantInv, Settled
  <2>4. ASSUME Resumes(k), IsRole(k) PROVE PreviewHolds(k)'
    <3>1. c \in DOMAIN session
      BY <1>7, <2>4 DEF Live
    <3>2. PICK role : role = sc.roles[sc.calls[k].agent]
      OBVIOUS
    <3>3. RoleOf(c) = role
      BY <1>1, <2>4, <3>1, <3>2, RoleIs
    <3>4. after # NoOne => after \in DOMAIN sc.calls /\ stage'[after] = "over"
      BY <1>2, <1>5, <1>7 DEF GrantInv, PreviewsHold, StopInv, HostIsSound
    <3>5. todo = "consume" /\ status = "widened" =>
            requests[c].actions \cap roleMax(role) \subseteq preview \cup auth[c].actions
      <4> HAVE todo = "consume" /\ status = "widened"
      <4>1. /\ c \in DOMAIN reg.bound /\ reg.bound[c].kind = "exact"
        BY <1>4 DEF resumeCheck
      <4>2. reg.bound[c].grant.actions \subseteq auth[c].actions
        BY <4>1 DEF GrantInv, BoundIsGranted, Covers
      <4>3. PICK held : held = restrict(reg.bound[c].grant.actions, reg.bound[c].grant.root,
                                        roleMax(role)).actions
        OBVIOUS
      <4>4. held \subseteq reg.bound[c].grant.actions
        BY <4>3 DEF restrict, Separated
      <4>5. preview = (requests[c].actions \cap roleMax(role)) \ held
        BY <1>5, <3>3, <4>3 DEF previewAuthority
      <4> QED BY <4>2, <4>4, <4>5
    <3>6. /\ ChildOf(k)' = c /\ sc'.roles[sc'.calls[k].agent] = role /\ sc'.calls[k].parent = p
      BY <1>1, <1>3, <1>5, <3>2 DEF ChildOf
    <3>7. work'[k].afterCall = after /\ work'[k].preview = preview /\ work'[k].after = todo
      BY <2>2, <2>4
    <3>8. status = resumeCheck(requests', reg', c, role, p, after, TRUE)
      BY <1>4, <1>5, <3>3
    <3>9. PreviewHolds(k)' <=>
            /\ c \in DOMAIN session'
            /\ after # NoOne => after \in DOMAIN sc'.calls /\ stage'[after] = "over"
            /\ todo = "consume" /\ status = "widened" =>
                 requests'[c].actions \cap roleMax(role) \subseteq preview \cup auth'[c].actions
      BY <3>6, <3>7, <3>8, Zenon DEF PreviewHolds
    <3> QED BY <1>5, <3>1, <3>4, <3>5, <3>9
  <2> QED BY <1>5, <1>7, <2>1, <2>3, <2>4, HookMoves, NothingUsed
<1> QED BY <1>5, <1>6, <1>7

\* The call goes on to a stage behind its routing, or ends; its work is left alone.
LEMMA HookPasses ==
  ASSUME StopInv, GrantInv, sc' = sc, NEW k \in DOMAIN sc.calls, NEW v \in {"sent", "over"},
         stage' = [stage EXCEPT ![k] = v], stage[k] # "over", work' = work, last' = Quiet,
         v = "sent" => stage[k] = "hooked",
         UNCHANGED <<reg, requests, records, entries, lastCall, session, auth, binds>>
  PROVE  GrantInv' /\ UseWithinGrant'
<1>1. WorkIsSettled' /\ SettledStay
  BY WorkStays DEF StopInv, GrantInv
<1> QED BY <1>1, HookMoves, NothingUsed DEF StopInv, HostIsSound

LEMMA RouteRefusedGrants ==
  ASSUME StopInv, GrantInv, NEW k \in DOMAIN sc.calls, RouteRefused(k)
  PROVE  GrantInv' /\ UseWithinGrant'
<1>1. /\ stage[k] \in {"routing", "classifying"} /\ stage' = [stage EXCEPT ![k] = "over"]
      /\ last' = Quiet
      /\ UNCHANGED <<sc, work, reg, requests, records, entries, lastCall, session, auth, binds>>
  BY DEF RouteRefused, routed, host, history
<1> QED BY <1>1, HookPasses

LEMMA LegacyRejectGrants ==
  ASSUME StopInv, GrantInv, NEW k \in DOMAIN sc.calls, LegacyReject(k)
  PROVE  GrantInv' /\ UseWithinGrant'
<1>1. /\ stage[k] = "hooked" /\ stage' = [stage EXCEPT ![k] = "over"] /\ last' = Quiet
      /\ UNCHANGED <<sc, work, reg, requests, records, entries, lastCall, session, auth, binds>>
  BY DEF LegacyReject, routed, host, history
<1> QED BY <1>1, HookPasses

LEMMA RouteStartGrants ==
  ASSUME StopInv, GrantInv, NEW k \in DOMAIN sc.calls, RouteStart(k)
  PROVE  GrantInv' /\ UseWithinGrant'
<1>1. PICK root, bound :
        /\ stage[k] = "routing" /\ IsRole(k) /\ last' = Quiet
        /\ stage' = [stage EXCEPT ![k] = "classifying"]
        /\ work' = [work EXCEPT ![k].root = root, ![k].bound = bound]
        /\ UNCHANGED <<sc, reg, requests, records, entries, lastCall, session, auth, binds>>
  BY Zenon DEF RouteStart, routed, host, history
<1>2. /\ work' = [j \in DOMAIN sc.calls |-> work'[j]]
      /\ \A j \in DOMAIN sc.calls : j # k => work'[j] = work[j]
  BY <1>1 DEF StopInv, HostIsSound
<1>3. /\ WorkShape(work'[k]) /\ work'[k].out = work[k].out /\ work'[k].preview = work[k].preview
      /\ work'[k].after = work[k].after /\ work'[k].afterCall = work[k].afterCall
  <2>1. PICK w : w = [work[k] EXCEPT !.root = root, !.bound = bound]
    OBVIOUS
  <2>2. WorkShape(work[k])
    BY DEF GrantInv, WorkIsSettled
  <2>3. w = [preview |-> work[k].preview, after |-> work[k].after, afterCall |-> work[k].afterCall,
             bound |-> bound, root |-> root, out |-> work[k].out, escalated |-> work[k].escalated]
    BY <2>1, <2>2 DEF WorkShape
  <2>4. work'[k] = w
    BY <1>1, <2>1 DEF StopInv, HostIsSound
  <2> QED BY <2>3, <2>4 DEF WorkShape
<1>4. WorkIsSettled' /\ SettledStay
  <2>1. work'[k].out # <<>> => OutIsSound(k, Head(work'[k].out))
    BY <1>3 DEF GrantInv, WorkIsSettled
  <2> QED BY <1>1, <1>2, <1>3, <2>1, WorkMoves DEF StopInv, GrantInv, Settled
<1>5. ASSUME Resumes(k), IsRole(k) PROVE PreviewHolds(k)'
  <2>1. GrantsGrow /\ RequestsFade /\ OverStays
    BY <1>1 DEF GrantsGrow, RequestsFade, OverStays, StopInv, HostIsSound
  <2>2. PreviewHolds(k)
    BY <1>1, <1>5 DEF GrantInv, PreviewsHold
  <2> QED BY <1>1, <1>3, <2>1, <2>2, PreviewStays DEF StopInv, HostIsSound
<1> QED BY <1>1, <1>2, <1>4, <1>5, HookMoves, NothingUsed

LEMMA WorkRouted ==
  ASSUME StopInv, GrantInv, sc' = sc, NEW k \in DOMAIN sc.calls, NEW out, OutIsSound(k, out),
         stage[k] \in {"routing", "classifying"}, stage' = [stage EXCEPT ![k] = "hooked"],
         work' = [work EXCEPT ![k].out = <<out>>]
  PROVE  /\ WorkIsSettled' /\ SettledStay
         /\ work' = [j \in DOMAIN sc.calls |-> work'[j]]
         /\ \A j \in DOMAIN sc.calls : j # k => work'[j] = work[j]
<1>1. /\ work' = [j \in DOMAIN sc.calls |-> work'[j]]
      /\ \A j \in DOMAIN sc.calls : j # k => work'[j] = work[j]
  BY DEF StopInv, HostIsSound
<1>2. WorkShape(work'[k]) /\ work'[k].out = <<out>>
  <2>1. PICK w : w = [work[k] EXCEPT !.out = <<out>>]
    OBVIOUS
  <2>2. WorkShape(work[k])
    BY DEF GrantInv, WorkIsSettled
  <2>3. w = [preview |-> work[k].preview, after |-> work[k].after, afterCall |-> work[k].afterCall,
             bound |-> work[k].bound, root |-> work[k].root, out |-> <<out>>,
             escalated |-> work[k].escalated]
    BY <2>1, <2>2 DEF WorkShape
  <2>4. work'[k] = w
    BY <2>1 DEF StopInv, HostIsSound
  <2> QED BY <2>3, <2>4 DEF WorkShape
<1>3. work'[k].out # <<>> /\ OutIsSound(k, Head(work'[k].out))
  BY <1>2
<1>4. WorkIsSettled' /\ SettledStay
  BY <1>1, <1>2, <1>3, WorkMoves DEF StopInv, GrantInv, Settled
<1> QED BY <1>1, <1>4

LEMMA RouteDelegateGrants ==
  ASSUME StopInv, GrantInv, NEW k \in DOMAIN sc.calls, RouteDelegate(k)
  PROVE  GrantInv' /\ UseWithinGrant'
<1>1. PICK agent : agent = sc.calls[k].agent
  OBVIOUS
<1>2. PICK grant : grant = [actions |-> LOCAL_ACTIONS \cap roleMax(sc.roles[agent]), root |-> None]
  OBVIOUS
<1>3. /\ stage[k] = "routing" /\ last' = Quiet
      /\ UNCHANGED <<sc, reg, requests, records, entries, lastCall, session, auth, binds>>
      /\ \/ stage' = [stage EXCEPT ![k] = "over"] /\ work' = work
         \/ /\ stage' = [stage EXCEPT ![k] = "hooked"]
            /\ \E placed : work' = [work EXCEPT ![k].out =
                 <<[agent |-> agent, model |-> placed[1].model, variant |-> placed[1].variant,
                    tier |-> placed[1].tier, grant |-> grant, facts |-> DelegateFacts,
                    detection |-> "none", nonce |-> FALSE, recorded |-> FALSE,
                    verification |-> <<>>]>>]
  BY <1>1, <1>2, Zenon DEF RouteDelegate, routed, host, history
<1>4. CASE stage' = [stage EXCEPT ![k] = "over"] /\ work' = work
  BY <1>3, <1>4, HookPasses
<1>5. CASE stage' = [stage EXCEPT ![k] = "hooked"]
  <2>1. PICK out : /\ work' = [work EXCEPT ![k].out = <<out>>]
                   /\ out.agent = agent /\ out.grant = grant
    <3>1. CASE work' = work /\ stage' = [stage EXCEPT ![k] = "over"]
      <4>1. stage'[k] = "over" /\ stage'[k] = "hooked"
        BY <1>5, <3>1 DEF StopInv, HostIsSound
      <4> QED BY <4>1
    <3>2. CASE ~(work' = work /\ stage' = [stage EXCEPT ![k] = "over"])
      <4>1. PICK placed : work' = [work EXCEPT ![k].out =
                 <<[agent |-> agent, model |-> placed[1].model, variant |-> placed[1].variant,
                    tier |-> placed[1].tier, grant |-> grant, facts |-> DelegateFacts,
                    detection |-> "none", nonce |-> FALSE, recorded |-> FALSE,
                    verification |-> <<>>]>>]
        BY <1>3, <3>2
      <4>2. PICK out :
                out = [agent |-> agent, model |-> placed[1].model, variant |-> placed[1].variant,
                    tier |-> placed[1].tier, grant |-> grant, facts |-> DelegateFacts,
                    detection |-> "none", nonce |-> FALSE, recorded |-> FALSE,
                    verification |-> <<>>]
        OBVIOUS
      <4>3. out.agent = agent /\ out.grant = grant
        BY <4>2
      <4> QED BY <4>1, <4>2, <4>3
    <3> QED BY <3>1, <3>2
  <2>2. OutIsSound(k, out)
    BY <1>1, <1>2, <2>1 DEF OutIsSound, GrantShape
  <2>3. /\ WorkIsSettled' /\ SettledStay
        /\ work' = [j \in DOMAIN sc.calls |-> work'[j]]
        /\ \A j \in DOMAIN sc.calls : j # k => work'[j] = work[j]
    BY <1>3, <1>5, <2>1, <2>2, WorkRouted
  <2> QED BY <1>3, <1>5, <2>3, HookMoves, NothingUsed
<1> QED BY <1>3, <1>4, <1>5

LEMMA RouteTierGrants ==
  ASSUME StopInv, GrantInv, NEW k \in DOMAIN sc.calls, RouteTier(k)
  PROVE  GrantInv' /\ UseWithinGrant'
<1>1. PICK grant : grant = [actions |-> {}, root |-> None]
  OBVIOUS
<1>a. PICK facts : facts = effectiveFacts(sc.calls[k].facts, sc.calls[k].claimed)
  OBVIOUS
<1>b. PICK detection : detection = detectionOf(sc.calls[k].block)
  OBVIOUS
<1>2. /\ stage[k] = "routing" /\ ~IsRole(k) /\ last' = Quiet
      /\ stage' = [stage EXCEPT ![k] = "hooked"]
      /\ UNCHANGED <<sc, reg, requests, records, entries, lastCall, session, auth, binds>>
      /\ \E to : work' = [work EXCEPT ![k].out =
           <<[agent |-> to.agent, model |-> to.model, variant |-> to.variant,
              tier |-> IF to.agent \in DOMAIN sc.cfg.tiers THEN to.agent ELSE None,
              grant |-> grant, facts |-> facts, detection |-> detection, nonce |-> FALSE,
              recorded |-> to.model # NO_MODEL /\ sc.routing.engine # "static",
              verification |-> <<>>]>>]
  BY <1>1, <1>a, <1>b, Zenon DEF RouteTier, routed, host, history
<1>c. PICK to : work' = [work EXCEPT ![k].out =
           <<[agent |-> to.agent, model |-> to.model, variant |-> to.variant,
              tier |-> IF to.agent \in DOMAIN sc.cfg.tiers THEN to.agent ELSE None,
              grant |-> grant, facts |-> facts, detection |-> detection, nonce |-> FALSE,
              recorded |-> to.model # NO_MODEL /\ sc.routing.engine # "static",
              verification |-> <<>>]>>]
  BY <1>2
<1>3. PICK out : out =
             [agent |-> to.agent, model |-> to.model, variant |-> to.variant,
              tier |-> IF to.agent \in DOMAIN sc.cfg.tiers THEN to.agent ELSE None,
              grant |-> grant, facts |-> facts, detection |-> detection, nonce |-> FALSE,
              recorded |-> to.model # NO_MODEL /\ sc.routing.engine # "static",
              verification |-> <<>>]
  OBVIOUS
<1>4. OutIsSound(k, out)
  <2>1. out.grant = grant
    BY <1>3
  <2> QED BY <1>1, <1>2, <2>1 DEF OutIsSound, GrantShape
<1>5. /\ WorkIsSettled' /\ SettledStay
      /\ work' = [j \in DOMAIN sc.calls |-> work'[j]]
      /\ \A j \in DOMAIN sc.calls : j # k => work'[j] = work[j]
  <2>1. work' = [work EXCEPT ![k].out = <<out>>]
    BY <1>2, <1>3, <1>c
  <2> QED BY <1>2, <1>4, <2>1, WorkRouted
<1> QED BY <1>2, <1>5, HookMoves, NothingUsed

LEMMA GrantIsShaped ==
  ASSUME NEW k, NEW facts, NEW grant, grant = GrantOf(k, facts)
  PROVE  GrantShape(grant)
<1>1. PICK w : w = work[k]
  OBVIOUS
<1>2. PICK role : role = sc.roles[sc.calls[k].agent]
  OBVIOUS
<1>3. grant = IF IsExact(w.bound) THEN resumedGrant(Head(w.bound).grant, w.preview)
              ELSE grantFor(role, facts.needs, w.preview, w.root)
  BY <1>1, <1>2 DEF GrantOf
<1>4. \E actions, root : grant = [actions |-> actions, root |-> root]
  BY <1>3, Zenon DEF resumedGrant, grantFor
<1> QED BY <1>4 DEF GrantShape

\* What the request adds to a child's grant is what the routing covered: its preview.
LEMMA RouteDecideGrants ==
  ASSUME StopInv, GrantInv, NEW k \in DOMAIN sc.calls, RouteDecide(k)
  PROVE  GrantInv' /\ UseWithinGrant'
<1>1. PICK c : c = ChildOf(k)
  OBVIOUS
<1>2. /\ stage[k] = "classifying" /\ last' = Quiet
      /\ UNCHANGED <<sc, records, entries, lastCall, session, binds>>
      /\ \/ /\ stage' = [stage EXCEPT ![k] = "over"]
            /\ UNCHANGED <<work, reg, requests, auth>>
         \/ \E facts, detection, rung :
              Routed(k, RoleOutcome(k, rung, facts, GrantOf(k, facts), detection))
  BY Zenon DEF RouteDecide, host
<1>3. IsRole(k)
  BY <1>2 DEF GrantInv, WorkIsSettled
<1>4. CASE stage' = [stage EXCEPT ![k] = "over"] /\ UNCHANGED <<work, reg, requests, auth>>
  BY <1>2, <1>4, HookPasses
<1>5. CASE \E facts, detection, rung :
             Routed(k, RoleOutcome(k, rung, facts, GrantOf(k, facts), detection))
  <2>1. PICK facts, detection, rung :
               Routed(k, RoleOutcome(k, rung, facts, GrantOf(k, facts), detection))
    BY <1>5
  <2>2. PICK grant : grant = GrantOf(k, facts)
    OBVIOUS
  <2>3. PICK out : out = RoleOutcome(k, rung, facts, grant, detection)
    OBVIOUS
  <2>4. OutIsSound(k, out)
    <3>1. out.grant = grant /\ out.agent = sc.calls[k].agent
      BY <2>3 DEF RoleOutcome
    <3> QED BY <2>2, <3>1, GrantIsShaped DEF OutIsSound
  <2>5. Routed(k, out)
    BY <2>1, <2>2, <2>3
  <2>6. PICK consumed :
          /\ stage' = [stage EXCEPT ![k] = "hooked"] /\ work' = [work EXCEPT ![k].out = <<out>>]
          /\ consumed = IF work[k].after = "consume"
                        THEN consumeAuthority(requests, reg, c, RoleOf(c), sc.calls[k].parent,
                                              work[k].afterCall)
                        ELSE [requests |-> IF work[k].after = "evict" THEN evictAuthority(requests, c)
                                           ELSE requests,
                              reg |-> reg]
          /\ requests' = consumed.requests /\ reg' = consumed.reg
          /\ auth' = IF c \in DOMAIN auth THEN [auth EXCEPT ![c].actions = @ \cup work[k].preview]
                     ELSE auth
    BY <1>1, <2>5, Zenon DEF Routed
  <2>7. /\ WorkIsSettled' /\ SettledStay
        /\ work' = [j \in DOMAIN sc.calls |-> work'[j]]
        /\ \A j \in DOMAIN sc.calls : j # k => work'[j] = work[j]
    BY <1>2, <2>4, <2>6, WorkRouted
  <2>8. /\ DOMAIN requests' \subseteq DOMAIN requests
        /\ \A x \in DOMAIN requests' : requests'[x] = requests[x]
    <3>1. CASE work[k].after = "consume"
      <4>1. requests' = Without(requests, {c})
        BY <2>6, <3>1 DEF consumeAuthority
      <4> QED BY <4>1 DEF Without, Restrict
    <3>2. CASE work[k].after = "evict"
      <4>1. requests' = evictAuthority(requests, c)
        BY <2>6, <3>2
      <4> QED BY <4>1 DEF evictAuthority, Without, Restrict
    <3>3. CASE work[k].after \notin {"consume", "evict"}
      BY <2>6, <3>3
    <3> QED BY <3>1, <3>2, <3>3
  <2>9. /\ DOMAIN auth' = DOMAIN auth
        /\ \A x \in DOMAIN auth : /\ x # c => auth'[x] = auth[x]
                                  /\ auth'[x].root = auth[x].root /\ GrantShape(auth'[x])
                                  /\ auth[x].actions \subseteq auth'[x].actions
        /\ c \in DOMAIN auth => work[k].preview \subseteq auth'[c].actions
    <3>1. CASE c \notin DOMAIN auth
      BY <2>6, <3>1 DEF GrantInv, MarkersAreOwn
    <3>2. CASE c \in DOMAIN auth
      <4>1. PICK a : a = [auth[c] EXCEPT !.actions = auth[c].actions \cup work[k].preview]
        OBVIOUS
      <4>2. GrantShape(auth[c])
        BY <3>2 DEF GrantInv, MarkersAreOwn
      <4>3. a = [actions |-> auth[c].actions \cup work[k].preview, root |-> auth[c].root]
        BY <4>1, <4>2 DEF GrantShape
      <4>4. /\ GrantShape(a) /\ a.root = auth[c].root
            /\ a.actions = auth[c].actions \cup work[k].preview
        BY <4>3 DEF GrantShape
      <4>5. /\ DOMAIN auth' = DOMAIN auth /\ auth'[c] = a
            /\ \A x \in DOMAIN auth : x # c => auth'[x] = auth[x]
        BY <2>6, <3>2, <4>1
      <4>6. \A x \in DOMAIN auth : GrantShape(auth[x])
        BY DEF GrantInv, MarkersAreOwn
      <4> QED BY <4>4, <4>5, <4>6
    <3> QED BY <3>1, <3>2
  <2>10. GrantsGrow /\ OverStays
    <3>1. GrantsGrow
      BY <1>2, <2>9 DEF GrantsGrow, GrantInv, MarkersAreOwn
    <3>2. OverStays
      BY <1>2, <2>6 DEF OverStays, StopInv, HostIsSound
    <3> QED BY <3>1, <3>2
  <2>11. \/ reg' = reg
         \/ /\ c \in DOMAIN reg.bound /\ reg.bound[c].kind = "exact"
            /\ \E actions, max :
                 /\ actions \cap max \subseteq auth'[c].actions
                 /\ reg' = widen(reg, c, actions, max)
    <3>1. CASE reg' # reg
      <4>1. PICK role : role = RoleOf(c)
        OBVIOUS
      <4>2. /\ work[k].after = "consume" /\ c \in DOMAIN requests
            /\ resumeCheck(requests, reg, c, role, sc.calls[k].parent, work[k].afterCall, TRUE) = "widened"
            /\ reg' = widen(reg, c, requests[c].actions, roleMax(role))
        BY <2>6, <3>1, <4>1 DEF consumeAuthority
      <4>3. c \in DOMAIN session /\ c \in DOMAIN auth
        BY <4>2 DEF GrantInv, RequestsStand, MarkersAreOwn
      <4>4. Resumes(k)
        BY <1>1, <1>2, <4>3 DEF StopInv, HostIsSound, ChildOf, Resumes
      <4>5. role = sc.roles[sc.calls[k].agent]
        BY <1>1, <1>3, <4>1, <4>3, RoleIs
      <4>6. PreviewHolds(k)
        BY <1>2, <1>3, <4>4 DEF GrantInv, PreviewsHold
      <4>7. requests[c].actions \cap roleMax(role) \subseteq work[k].preview \cup auth[c].actions
        BY <1>1, <4>2, <4>5, <4>6, Zenon DEF PreviewHolds
      <4>8. requests[c].actions \cap roleMax(role) \subseteq auth'[c].actions
        BY <2>9, <4>3, <4>7
      <4>9. c \in DOMAIN reg.bound /\ reg.bound[c].kind = "exact"
        BY <4>2 DEF resumeCheck
      <4> QED BY <4>2, <4>8, <4>9
    <3> QED BY <3>1
  <2>12. RegistryShape(reg)
    BY DEF GrantInv, SlotsAreOwn
  <2>13. /\ RegistryShape(reg') /\ reg'.pending = reg.pending /\ reg'.inflight = reg.inflight
         /\ reg'.deleted = reg.deleted /\ DOMAIN reg'.bound = DOMAIN reg.bound
         /\ \A x \in DOMAIN reg.bound :
              /\ reg'.bound[x].kind = reg.bound[x].kind
              /\ \/ reg'.bound[x] = reg.bound[x]
                 \/ /\ x = c /\ reg.bound[c].kind = "exact"
                    /\ BoundShape(reg'.bound[c])
                    /\ reg'.bound[c].parent = reg.bound[c].parent
                    /\ reg'.bound[c].grant.root = reg.bound[c].grant.root
                    /\ reg'.bound[c].grant.actions \subseteq reg.bound[c].grant.actions \cup auth'[c].actions
    <3>1. CASE reg' = reg
      BY <2>12, <3>1
    <3>2. CASE reg' # reg
      <4>1. PICK actions, max :
                 /\ actions \cap max \subseteq auth'[c].actions
                 /\ reg' = widen(reg, c, actions, max)
        BY <2>11, <3>2
      <4>2. c \in DOMAIN reg.bound /\ reg.bound[c].kind = "exact"
        BY <2>11, <3>2
      <4>3. /\ RegistryShape(reg') /\ reg'.pending = reg.pending /\ reg'.inflight = reg.inflight
            /\ reg'.deleted = reg.deleted /\ DOMAIN reg'.bound = DOMAIN reg.bound
            /\ \A x \in DOMAIN reg.bound : x # c => reg'.bound[x] = reg.bound[x]
            /\ BoundShape(reg'.bound[c])
            /\ reg'.bound[c].kind = reg.bound[c].kind
            /\ reg'.bound[c].parent = reg.bound[c].parent
            /\ reg'.bound[c].grant.root = reg.bound[c].grant.root
            /\ reg'.bound[c].grant.actions \subseteq reg.bound[c].grant.actions \cup (actions \cap max)
        BY <2>12, <4>1, <4>2, WidenIs
      <4> QED BY <4>1, <4>2, <4>3
    <3> QED BY <3>1, <3>2
  <2>14. BoundIsGranted'
    <3>1. ASSUME NEW x \in DOMAIN reg'.bound
          PROVE  /\ BoundShape(reg'.bound[x]) /\ reg'.bound[x].parent = session'[x].parent
                 /\ \/ reg'.bound[x].kind = "exact" /\ Covers(auth'[x], reg'.bound[x].grant)
                    \/ /\ reg'.bound[x].kind = "unknown"
                       /\ reg'.bound[x].grant = [actions |-> LOCAL_ACTIONS, root |-> None]
      <4>1. x \in DOMAIN reg.bound /\ x \in DOMAIN session
        BY <2>13 DEF GrantInv, BoundIsGranted
      <4>2. /\ BoundShape(reg.bound[x]) /\ reg.bound[x].parent = session[x].parent
            /\ \/ reg.bound[x].kind = "exact" /\ Covers(auth[x], reg.bound[x].grant)
               \/ /\ reg.bound[x].kind = "unknown"
                  /\ reg.bound[x].grant = [actions |-> LOCAL_ACTIONS, root |-> None]
        BY <4>1 DEF GrantInv, BoundIsGranted
      <4>3. auth'[x].root = auth[x].root /\ auth[x].actions \subseteq auth'[x].actions
        BY <2>10, <4>1 DEF GrantsGrow
      <4>4. CASE reg'.bound[x] = reg.bound[x]
        BY <1>2, <4>2, <4>3, <4>4 DEF Covers
      <4>5. CASE reg'.bound[x] # reg.bound[x]
        BY <1>2, <2>13, <4>1, <4>2, <4>3, <4>5 DEF Covers
      <4> QED BY <4>4, <4>5
    <3>2. /\ DOMAIN reg'.bound \cup DOMAIN reg'.inflight \subseteq DOMAIN session'
          /\ DOMAIN reg'.bound \cap DOMAIN reg'.inflight = {}
      BY <1>2, <2>13 DEF GrantInv, BoundIsGranted
    <3> QED BY <3>1, <3>2, Zenon DEF BoundIsGranted
  <2>15. AgentsAreNamed' /\ SlotsAreOwn'
    BY <1>2, <2>7, <2>13, AgentsStay, SlotsStay DEF GrantInv
  <2>16. MarkersAreOwn' /\ BindsStand'
    BY <1>2, <2>7, <2>9, <2>10, <2>13, MarkersStay, BindsStay DEF GrantInv, MarkersAreOwn
  <2>17. RequestsStand'
    BY <2>8, <2>10, <2>13, RequestsStay DEF GrantInv, RequestsStand
  <2>18. PreviewsHold'
    <3>1. RequestsFade
      BY <2>8, <2>13 DEF RequestsFade
    <3>2. \A x \in DOMAIN lastCall' : lastCall'[x] \in DOMAIN sc.calls /\ stage'[lastCall'[x]] = "over"
      BY <1>2, <2>10 DEF GrantInv, PreviewsHold, OverStays
    <3>3. \A j \in DOMAIN sc.calls : stage'[j] \in {"routing", "classifying"} =>
            stage[j] \in {"routing", "classifying"} /\ work'[j] = work[j]
      BY <2>6, <2>7 DEF StopInv, HostIsSound
    <3> QED BY <1>2, <2>10, <3>1, <3>2, <3>3, PreviewsStay DEF GrantInv, StopInv
  <2> QED BY <1>2, <2>7, <2>14, <2>15, <2>16, <2>17, <2>18, NothingUsed DEF GrantInv
<1> QED BY <1>2, <1>4, <1>5

\* A fresh role call leaves the slot of its own nonce and grant; a resume names its child's role.
LEMMA CommitGrants ==
  ASSUME StopInv, GrantInv, NEW k \in DOMAIN sc.calls, Commit(k)
  PROVE  GrantInv' /\ UseWithinGrant'
<1>1. PICK c : c = ChildOf(k)
  OBVIOUS
<1>2. PICK out : out = Head(work[k].out)
  OBVIOUS
<1>3. PICK previous : previous = IF Resumes(k) THEN RecordOf(c) ELSE <<>>
  OBVIOUS
<1>4. PICK entry : entry = [parent |-> sc.calls[k].parent, agent |-> out.agent, nonce |-> k,
                            grant |-> out.grant]
  OBVIOUS
<1>5. PICK input, nr, state :
        /\ "agent" \in DOMAIN input /\ input.agent = out.agent
        /\ stage[k] = "hooked" /\ stage' = [stage EXCEPT ![k] = "sent"] /\ last' = Quiet
        /\ reg' = IF out.nonce THEN registerPending(reg, k, entry) ELSE reg
        /\ records' = IF Resumes(k) /\ out.recorded THEN Put(records, c, input) ELSE records
        /\ entries' = IF ~out.recorded THEN entries
                      ELSE Put(entries, k, [input |-> input, previous |-> previous,
                                            state |-> state, nr |-> nr])
        /\ UNCHANGED <<sc, work, requests, lastCall, session, auth, binds>>
  <2>1. PICK facts : facts = IF IsRole(k) /\ previous # <<>>
                             THEN [out.facts EXCEPT !.class = Head(previous).facts.class]
                             ELSE out.facts
    OBVIOUS
  <2>2. PICK input : input = [agent |-> out.agent, model |-> out.model, variant |-> out.variant,
                              tier |-> out.tier, facts |-> facts, parent |-> sc.calls[k].parent,
                              decision |-> k, picked |-> sc.calls[k].agent,
                              verification |-> out.verification]
    OBVIOUS
  <2>3. PICK state : state = IF Resumes(k) THEN "resumed" ELSE "waiting"
    OBVIOUS
  <2>4. PICK nr : nr = NextNr(Drop(entries, k))
    OBVIOUS
  <2>5. /\ stage[k] = "hooked" /\ stage' = [stage EXCEPT ![k] = "sent"] /\ last' = Quiet
        /\ reg' = IF out.nonce THEN registerPending(reg, k, entry) ELSE reg
        /\ UNCHANGED <<sc, work, requests, lastCall, session, auth, binds>>
    BY <1>2, <1>4, Zenon DEF Commit, host
  <2>6. records' = IF Resumes(k) /\ out.recorded THEN Put(records, c, input) ELSE records
    BY <1>1, <1>2, <1>3, <2>1, <2>2, Zenon DEF Commit
  <2>7. entries' = IF ~out.recorded THEN entries
                   ELSE Put(entries, k, [input |-> input, previous |-> previous,
                                         state |-> state, nr |-> nr])
    BY <1>1, <1>2, <1>3, <2>1, <2>2, <2>3, <2>4, Zenon DEF Commit
  <2>8. "agent" \in DOMAIN input /\ input.agent = out.agent
    BY <2>2
  <2> QED BY <2>5, <2>6, <2>7, <2>8
<1>6. OutIsSound(k, out)
  BY <1>2, <1>5 DEF GrantInv, WorkIsSettled
<1>7. \A j \in DOMAIN sc.calls : stage'[j] = IF j = k THEN "sent" ELSE stage[j]
  BY <1>5 DEF StopInv, HostIsSound
<1>8. WorkIsSettled' /\ SettledStay
  BY <1>5, WorkStays DEF StopInv, GrantInv, Settled
<1>9. GrantsGrow /\ OverStays
  BY <1>5, <1>7 DEF GrantsGrow, OverStays
<1>10. RegistryShape(reg) /\ k \notin DOMAIN reg.pending
  BY <1>5 DEF GrantInv, SlotsAreOwn, Settled
<1>11. /\ RegistryShape(reg') /\ reg'.bound = reg.bound /\ reg'.inflight = reg.inflight
       /\ reg'.deleted = reg.deleted
       /\ DOMAIN reg'.pending \subseteq DOMAIN reg.pending \cup {k}
       /\ \A n \in DOMAIN reg'.pending : n # k => reg'.pending[n] = reg.pending[n]
       /\ k \in DOMAIN reg'.pending =>
            reg'.pending[k].nonce = k /\ reg'.pending[k].grant = out.grant
  <2>1. CASE ~out.nonce
    BY <1>5, <1>10, <2>1
  <2>2. CASE out.nonce
    <3>1. reg' = registerPending(reg, k, entry)
      BY <1>5, <2>2
    <3>2. entry.nonce = k /\ entry.grant = out.grant
      BY <1>4
    <3> QED BY <1>10, <3>1, <3>2, RegisterIs
  <2> QED BY <2>1, <2>2
<1>12. SlotsAreOwn'
  <2>1. ASSUME NEW n \in DOMAIN reg'.pending
        PROVE  /\ n \in DOMAIN sc'.calls /\ Settled(n)' /\ GrantShape(reg'.pending[n].grant)
               /\ reg'.pending[n].nonce = n /\ reg'.pending[n].grant = Head(work'[n].out).grant
    <3>1. CASE n = k
      BY <1>2, <1>5, <1>6, <1>7, <1>11, <3>1 DEF Settled, OutIsSound
    <3>2. CASE n # k
      BY <1>5, <1>7, <1>8, <1>11, <3>2 DEF GrantInv, SlotsAreOwn, SettledStay
    <3> QED BY <3>1, <3>2
  <2> QED BY <1>11, <2>1 DEF SlotsAreOwn, GrantShape
<1>13. AgentsAreNamed'
  <2>1. RoleCalls' = RoleCalls
    BY <1>5 DEF RoleCalls, IsRole
  <2>2. k \in RoleCalls => RecordIsOf(input, sc.calls[k].agent)
    BY <1>5, <1>6 DEF OutIsSound, RecordIsOf, RoleCalls
  <2>3. Resumes(k) /\ c \in RoleCalls => k \in RoleCalls /\ sc.calls[k].agent = sc.calls[c].agent
    BY <1>1, ScenariosAssumption DEF RoleCalls, IsRole, ChildOf, Resumes, StopInv, HostIsSound
  <2>4. \A x \in RoleCalls \cap DOMAIN records' : RecordIsOf(records'[x], sc.calls[x].agent)
    <3>1. ASSUME NEW x \in RoleCalls \cap DOMAIN records'
          PROVE  RecordIsOf(records'[x], sc.calls[x].agent)
      <4>1. CASE Resumes(k) /\ x = c /\ records'[x] = input
        BY <2>2, <2>3, <3>1, <4>1
      <4>2. CASE x \in DOMAIN records /\ records'[x] = records[x]
        BY <3>1, <4>2 DEF GrantInv, AgentsAreNamed
      <4>3. \/ Resumes(k) /\ x = c /\ records'[x] = input
            \/ x \in DOMAIN records /\ records'[x] = records[x]
        BY <1>5, <3>1 DEF Put, remember
      <4> QED BY <4>1, <4>2, <4>3
    <3> QED BY <3>1
  <2>5. ASSUME k \in RoleCalls, previous # <<>>
        PROVE  RecordIsOf(Head(previous), sc.calls[k].agent)
    <3>1. Resumes(k) /\ c \in DOMAIN records /\ Head(previous) = records[c]
      BY <1>3, <2>5 DEF RecordOf
    <3>2. c \in RoleCalls /\ sc.calls[c].agent = sc.calls[k].agent
      BY <1>1, <2>5, <3>1, ScenariosAssumption
         DEF RoleCalls, IsRole, ChildOf, Resumes, StopInv, HostIsSound
    <3> QED BY <3>1, <3>2 DEF GrantInv, AgentsAreNamed
  <2>6. /\ DOMAIN entries' \subseteq DOMAIN entries \cup {k}
        /\ \A x \in DOMAIN entries' :
             \/ x \in DOMAIN entries /\ entries'[x] = entries[x]
             \/ x = k /\ entries'[x].input = input /\ entries'[x].previous = previous
    BY <1>5 DEF Put, remember
  <2>7. /\ DOMAIN entries' \subseteq DOMAIN sc.calls
        /\ \A x \in DOMAIN entries' : "agent" \in DOMAIN entries'[x].input
        /\ \A x \in RoleCalls \cap DOMAIN entries' :
             /\ RecordIsOf(entries'[x].input, sc.calls[x].agent)
             /\ entries'[x].previous # <<>> =>
                  RecordIsOf(Head(entries'[x].previous), sc.calls[x].agent)
    <3>1. /\ DOMAIN entries' \subseteq DOMAIN sc.calls
          /\ \A x \in DOMAIN entries' : "agent" \in DOMAIN entries'[x].input
      BY <1>5, <2>6 DEF GrantInv, AgentsAreNamed
    <3>2. ASSUME NEW x \in RoleCalls \cap DOMAIN entries'
          PROVE  /\ RecordIsOf(entries'[x].input, sc.calls[x].agent)
                 /\ entries'[x].previous # <<>> =>
                      RecordIsOf(Head(entries'[x].previous), sc.calls[x].agent)
      <4>1. CASE x \in DOMAIN entries /\ entries'[x] = entries[x]
        BY <3>2, <4>1 DEF GrantInv, AgentsAreNamed
      <4>2. CASE x = k /\ entries'[x].input = input /\ entries'[x].previous = previous
        BY <2>2, <2>5, <3>2, <4>2
      <4> QED BY <2>6, <3>2, <4>1, <4>2
    <3> QED BY <3>1, <3>2
  <2>8. \A x \in RoleCalls \cap DOMAIN session' : session'[x].agent = sc.calls[x].agent
    BY <1>5 DEF GrantInv, AgentsAreNamed
  <2> QED BY <1>5, <2>1, <2>4, <2>7, <2>8 DEF AgentsAreNamed, RecordIsOf
<1>14. MarkersAreOwn' /\ BoundIsGranted'
  BY <1>5, <1>8, <1>9, <1>11, MarkersStay, BoundStays DEF GrantInv, MarkersAreOwn
<1>15. RequestsStand'
  BY <1>5, <1>9, <1>11, RequestsStay DEF GrantInv, RequestsStand
<1>16. BindsStand'
  <2>1. \A n \in DOMAIN reg'.pending : n \in DOMAIN sc.calls /\ Settled(n) =>
          n \in DOMAIN reg.pending /\ reg'.pending[n].by = reg.pending[n].by
    BY <1>5, <1>11 DEF Settled
  <2> QED BY <1>5, <1>8, <2>1, BindsStay DEF GrantInv
<1>17. PreviewsHold'
  <2>1. RequestsFade
    BY <1>5, <1>11 DEF RequestsFade
  <2>2. \A x \in DOMAIN lastCall' : lastCall'[x] \in DOMAIN sc.calls /\ stage'[lastCall'[x]] = "over"
    BY <1>5, <1>9 DEF GrantInv, PreviewsHold, OverStays
  <2>3. \A j \in DOMAIN sc.calls : stage'[j] \in {"routing", "classifying"} =>
          stage[j] \in {"routing", "classifying"} /\ work'[j] = work[j]
    BY <1>5, <1>7
  <2> QED BY <1>5, <1>9, <2>1, <2>2, <2>3, PreviewsStay DEF GrantInv, StopInv
<1> QED BY <1>5, <1>8, <1>12, <1>13, <1>14, <1>15, <1>16, <1>17, NothingUsed DEF GrantInv

\* A call that is past its routing moves on and its slot may be gone.
LEMMA CallEnds ==
  ASSUME StopInv, GrantInv, sc' = sc, NEW k \in DOMAIN sc.calls,
         NEW v \in {"running", "after", "over"},
         stage' = [stage EXCEPT ![k] = v], stage[k] \in {"sent", "running", "after"},
         WorkIsSettled', SettledStay, \A j \in DOMAIN sc.calls : j # k => work'[j] = work[j],
         Thinned(reg, reg'), AgentsAreNamed', RequestsFade,
         DOMAIN requests' \subseteq DOMAIN requests,
         \A c \in DOMAIN requests' : RequestShape(requests'[c]),
         \A c \in DOMAIN lastCall' : lastCall'[c] \in DOMAIN sc.calls /\ stage'[lastCall'[c]] = "over",
         DOMAIN session' = DOMAIN session,
         \A c \in DOMAIN session : /\ session'[c].parent = session[c].parent
                                   /\ session'[c].title = session[c].title
                                   /\ session'[c].prompt = session[c].prompt,
         UNCHANGED <<auth, binds>>
  PROVE  GrantInv'
<1>1. \A j \in DOMAIN sc.calls : stage'[j] = IF j = k THEN v ELSE stage[j]
  BY DEF StopInv, HostIsSound
<1>2. GrantsGrow /\ OverStays
  BY <1>1 DEF GrantsGrow, OverStays
<1>3. SlotsAreOwn' /\ MarkersAreOwn' /\ BoundIsGranted' /\ BindsStand'
  BY <1>2, SlotsStay, MarkersStay, BoundStays, BindsStay DEF GrantInv, MarkersAreOwn, Thinned
<1>4. RequestsStand'
  BY <1>2, RequestsStay DEF GrantInv, Thinned
<1>5. \A j \in DOMAIN sc.calls : stage'[j] \in {"routing", "classifying"} =>
        stage[j] \in {"routing", "classifying"} /\ work'[j] = work[j]
  BY <1>1
<1>6. PreviewsHold'
  BY <1>2, <1>5, PreviewsStay DEF GrantInv, StopInv
<1> QED BY <1>3, <1>4, <1>6 DEF GrantInv

\* The slot of the call may be dropped.
LEMMA SlotDropped ==
  ASSUME GrantInv, NEW k, reg' = IF IsRole(k) THEN evictCall(reg, k) ELSE reg
  PROVE  Thinned(reg, reg')
<1>1. RegistryShape(reg)
  BY DEF GrantInv, SlotsAreOwn
<1>2. CASE IsRole(k)
  <2>1. reg' = evictCall(reg, k)
    BY <1>2
  <2> QED BY <1>1, <2>1, EvictCallIs
<1>3. CASE ~IsRole(k)
  BY <1>1, <1>3 DEF Thinned
<1> QED BY <1>2, <1>3

\* The requests are left alone.
LEMMA RequestsSame ==
  ASSUME GrantInv, Thinned(reg, reg'), UNCHANGED requests
  PROVE  RequestsFade /\ \A c \in DOMAIN requests' : RequestShape(requests'[c])
BY DEF GrantInv, RequestsStand, RequestsFade, Thinned

LEMMA HostResumeGrants ==
  ASSUME StopInv, GrantInv, NEW k \in DOMAIN sc.calls, HostResume(k)
  PROVE  GrantInv' /\ UseWithinGrant'
<1>1. PICK c : c = ChildOf(k)
  OBVIOUS
<1>2. /\ stage[k] = "sent" /\ stage' = [stage EXCEPT ![k] = "running"] /\ c \in DOMAIN session
      /\ UNCHANGED <<sc, work, reg, requests, records, entries, lastCall, auth, binds>> /\ last' = Quiet
  BY <1>1 DEF HostResume, Live, routed, history
<1>3. /\ DOMAIN session' = DOMAIN session
      /\ \A x \in DOMAIN session :
           /\ session'[x].parent = session[x].parent /\ session'[x].agent = session[x].agent
           /\ session'[x].title = session[x].title /\ session'[x].prompt = session[x].prompt
  <2>1. PICK m, v, f, d : session' = [session EXCEPT ![c] =
                            [@ EXCEPT !.model = m, !.variant = v, !.facts = f, !.detection = d]]
    BY <1>1, Zenon DEF HostResume
  <2>2. PICK n : n = [session[c] EXCEPT !.model = m, !.variant = v, !.facts = f, !.detection = d]
    OBVIOUS
  <2>3. SessionShape(session[c])
    BY <1>2 DEF StopInv, HostIsSound
  <2>4. n = [parent |-> session[c].parent, agent |-> session[c].agent, model |-> m, variant |-> v,
             title |-> session[c].title, prompt |-> session[c].prompt, facts |-> f, detection |-> d]
    BY <2>2, <2>3 DEF SessionShape
  <2>5. /\ DOMAIN session' = DOMAIN session
        /\ \A x \in DOMAIN session : session'[x] = IF x = c THEN n ELSE session[x]
    BY <2>1, <2>2
  <2> QED BY <2>4, <2>5
<1>4. WorkIsSettled' /\ SettledStay
  BY <1>2, WorkStays DEF StopInv, GrantInv, Settled
<1>5. AgentsAreNamed'
  <2>1. RoleCalls' = RoleCalls
    BY <1>2 DEF RoleCalls, IsRole
  <2> QED BY <1>2, <1>3, <2>1 DEF GrantInv, AgentsAreNamed, RecordIsOf
<1>6. Thinned(reg, reg')
  BY <1>2 DEF Thinned, GrantInv, SlotsAreOwn
<1>7. RequestsFade /\ \A x \in DOMAIN requests' : RequestShape(requests'[x])
  BY <1>2, <1>6, RequestsSame
<1>8. \A x \in DOMAIN lastCall' : lastCall'[x] \in DOMAIN sc.calls /\ stage'[lastCall'[x]] = "over"
  BY <1>2 DEF GrantInv, PreviewsHold, StopInv, HostIsSound
<1> QED BY <1>2, <1>3, <1>4, <1>5, <1>6, <1>7, <1>8, CallEnds, NothingUsed

LEMMA NoResultGrants ==
  ASSUME StopInv, GrantInv, NEW k \in DOMAIN sc.calls, NoResult(k)
  PROVE  GrantInv' /\ UseWithinGrant'
<1>1. PICK c : c = ChildOf(k)
  OBVIOUS
<1>2. /\ stage[k] \in {"sent", "running"} /\ stage' = [stage EXCEPT ![k] = "over"] /\ last' = Quiet
      /\ records' = undoResume(k) /\ entries' = Drop(entries, k)
      /\ reg' = IF IsRole(k) THEN evictCall(reg, k) ELSE reg
      /\ UNCHANGED <<sc, work, requests, lastCall, session, auth, binds>>
  BY DEF NoResult, EntriesWithout, host, history
<1>3. WorkIsSettled' /\ SettledStay
  BY <1>2, WorkStays DEF StopInv, GrantInv, Settled
<1>4. Thinned(reg, reg')
  BY <1>2, SlotDropped
<1>5. RequestsFade /\ \A x \in DOMAIN requests' : RequestShape(requests'[x])
  BY <1>2, <1>4, RequestsSame
<1>6. \A x \in DOMAIN lastCall' : lastCall'[x] \in DOMAIN sc.calls /\ stage'[lastCall'[x]] = "over"
  BY <1>2 DEF GrantInv, PreviewsHold, StopInv, HostIsSound
<1>7. AgentsAreNamed'
  <2>1. RoleCalls' = RoleCalls
    BY <1>2 DEF RoleCalls, IsRole
  <2>2. /\ DOMAIN entries' \subseteq DOMAIN entries
        /\ \A x \in DOMAIN entries' : entries'[x] = entries[x]
    BY <1>2 DEF Drop, Restrict
  <2>3. \A x \in RoleCalls \cap DOMAIN records' : RecordIsOf(records'[x], sc.calls[x].agent)
    <3>1. ASSUME NEW x \in RoleCalls \cap DOMAIN records'
          PROVE  RecordIsOf(records'[x], sc.calls[x].agent)
      <4>1. \/ x \in DOMAIN records /\ records'[x] = records[x]
            \/ /\ x = c /\ k \in DOMAIN entries /\ entries[k].previous # <<>> /\ Resumes(k)
               /\ records'[x] = Head(entries[k].previous)
        BY <1>1, <1>2, <3>1 DEF undoResume, Drop, Restrict, Put, remember
      <4>2. CASE x \in DOMAIN records /\ records'[x] = records[x]
        BY <3>1, <4>2 DEF GrantInv, AgentsAreNamed
      <4>3. CASE /\ x = c /\ k \in DOMAIN entries /\ entries[k].previous # <<>> /\ Resumes(k)
                 /\ records'[x] = Head(entries[k].previous)
        <5>1. k \in RoleCalls /\ sc.calls[k].agent = sc.calls[c].agent
          BY <1>1, <3>1, <4>3, ScenariosAssumption
             DEF RoleCalls, IsRole, ChildOf, Resumes, StopInv, HostIsSound
        <5> QED BY <4>3, <5>1 DEF GrantInv, AgentsAreNamed
      <4> QED BY <4>1, <4>2, <4>3
    <3> QED BY <3>1
  <2> QED BY <1>2, <2>1, <2>2, <2>3 DEF GrantInv, AgentsAreNamed, RecordIsOf
<1> QED BY <1>2, <1>3, <1>4, <1>5, <1>6, <1>7, CallEnds, NothingUsed

\* Another baseline does not change whose record it is.
LEMMA JudgedIs ==
  ASSUME NEW k, NEW recs, NEW r, r = Judged(k, recs)
  PROVE  /\ DOMAIN r = DOMAIN recs
         /\ \A x \in DOMAIN recs : "agent" \in DOMAIN recs[x] =>
              RecordIsOf(r[x], recs[x].agent)
<1>1. PICK c : c = ChildOf(k)
  OBVIOUS
<1>2. CASE r = recs
  BY <1>2 DEF RecordIsOf
<1>3. CASE r # recs
  <2>1. PICK v : c \in DOMAIN recs /\ r = [recs EXCEPT ![c].verification = v]
    <3>1. c \in DOMAIN recs /\ \E v : r = [recs EXCEPT ![c].verification = v]
      BY <1>1, <1>3, Zenon DEF Judged
    <3> QED BY <3>1
  <2>2. PICK n : n = [recs[c] EXCEPT !.verification = v]
    OBVIOUS
  <2>3. /\ DOMAIN r = DOMAIN recs /\ r[c] = n
        /\ \A x \in DOMAIN recs : x # c => r[x] = recs[x]
    BY <2>1, <2>2
  <2>4. "agent" \in DOMAIN recs[c] => RecordIsOf(n, recs[c].agent)
    BY <2>2 DEF RecordIsOf
  <2> QED BY <2>3, <2>4 DEF RecordIsOf
<1> QED BY <1>2, <1>3

LEMMA ReturnGrants ==
  ASSUME StopInv, GrantInv, NEW k \in DOMAIN sc.calls, NEW escalated, NEW claimed,
         Return(k, escalated, claimed)
  PROVE  GrantInv' /\ UseWithinGrant'
<1>1. PICK c : c = ChildOf(k)
  OBVIOUS
<1>2. PICK recs : recs = ResultRecord(k)
  OBVIOUS
<1>3. /\ stage[k] = "running" /\ stage' = [stage EXCEPT ![k] = "after"]
      /\ work' = [work EXCEPT ![k].escalated = escalated]
      /\ records' = Judged(k, recs) /\ entries' = Drop(entries, k)
      /\ UNCHANGED <<sc, reg, requests, lastCall, session, auth, binds>>
  BY <1>2, Zenon DEF Return, EntriesWithout, host
<1>4. \A j \in DOMAIN sc.calls : stage'[j] = IF j = k THEN "after" ELSE stage[j]
  BY <1>3 DEF StopInv, HostIsSound
<1>5. /\ work' = [j \in DOMAIN sc.calls |-> work'[j]]
      /\ \A j \in DOMAIN sc.calls : j # k => work'[j] = work[j]
      /\ WorkShape(work'[k]) /\ work'[k].out = work[k].out
  <2>1. PICK w : w = [work[k] EXCEPT !.escalated = escalated]
    OBVIOUS
  <2>2. WorkShape(work[k])
    BY DEF GrantInv, WorkIsSettled
  <2>3. w = [preview |-> work[k].preview, after |-> work[k].after, afterCall |-> work[k].afterCall,
             bound |-> work[k].bound, root |-> work[k].root, out |-> work[k].out,
             escalated |-> escalated]
    BY <2>1, <2>2 DEF WorkShape
  <2>4. /\ work'[k] = w /\ work' = [j \in DOMAIN sc.calls |-> work'[j]]
        /\ \A j \in DOMAIN sc.calls : j # k => work'[j] = work[j]
    BY <1>3, <2>1 DEF StopInv, HostIsSound
  <2> QED BY <2>3, <2>4 DEF WorkShape
<1>6. WorkIsSettled' /\ SettledStay
  <2>1. /\ work'[k].out # <<>> => OutIsSound(k, Head(work'[k].out))
        /\ work'[k].out # <<>>
    BY <1>3, <1>5 DEF GrantInv, WorkIsSettled
  <2> QED BY <1>3, <1>5, <2>1, WorkMoves DEF StopInv, GrantInv
<1>7. Thinned(reg, reg')
  BY <1>3 DEF Thinned, GrantInv, SlotsAreOwn
<1>8. RequestsFade /\ \A x \in DOMAIN requests' : RequestShape(requests'[x])
  BY <1>3, <1>7, RequestsSame
<1>9. \A x \in DOMAIN lastCall' : lastCall'[x] \in DOMAIN sc.calls /\ stage'[lastCall'[x]] = "over"
  BY <1>3, <1>4 DEF GrantInv, PreviewsHold
<1>10. AgentsAreNamed'
  <2>1. RoleCalls' = RoleCalls
    BY <1>3 DEF RoleCalls, IsRole
  <2>2. /\ DOMAIN entries' \subseteq DOMAIN entries
        /\ \A x \in DOMAIN entries' : entries'[x] = entries[x]
    BY <1>3 DEF Drop, Restrict
  <2>3. \A x \in RoleCalls \cap DOMAIN recs : RecordIsOf(recs[x], sc.calls[x].agent)
    <3>1. ASSUME NEW x \in RoleCalls \cap DOMAIN recs
          PROVE  RecordIsOf(recs[x], sc.calls[x].agent)
      <4>1. \/ x \in DOMAIN records /\ recs[x] = records[x]
            \/ x = c /\ k \in DOMAIN entries /\ ~Resumes(k) /\ recs[x] = entries[k].input
        BY <1>1, <1>2, <3>1 DEF ResultRecord, Put, remember
      <4>2. CASE x \in DOMAIN records /\ recs[x] = records[x]
        BY <3>1, <4>2 DEF GrantInv, AgentsAreNamed
      <4>3. CASE x = c /\ k \in DOMAIN entries /\ ~Resumes(k) /\ recs[x] = entries[k].input
        <5>1. c = k
          BY <1>1, <4>3 DEF ChildOf, Resumes
        <5> QED BY <3>1, <4>3, <5>1 DEF GrantInv, AgentsAreNamed
      <4> QED BY <4>1, <4>2, <4>3
    <3> QED BY <3>1
  <2>4. \A x \in RoleCalls \cap DOMAIN records' : RecordIsOf(records'[x], sc.calls[x].agent)
    <3>1. /\ DOMAIN records' = DOMAIN recs
          /\ \A x \in DOMAIN recs : "agent" \in DOMAIN recs[x] => RecordIsOf(records'[x], recs[x].agent)
      BY <1>3, JudgedIs
    <3> QED BY <2>3, <3>1 DEF RecordIsOf
  <2> QED BY <1>3, <2>1, <2>2, <2>4 DEF GrantInv, AgentsAreNamed, RecordIsOf
<1>11. GrantInv'
  BY <1>3, <1>5, <1>6, <1>7, <1>8, <1>9, <1>10, CallEnds
<1>12. UseWithinGrant'
  <2>1. last'.kind # "act"
    <3>1. \/ last' = Quiet
          \/ \E notice : last' = [Quiet EXCEPT !.kind = "return", !.who = c, !.claimed = claimed,
                                    !.notice = notice]
      BY <1>1, Zenon DEF Return
    <3>2. CASE last' = Quiet
      BY <3>2 DEF Quiet
    <3>3. CASE last' # Quiet
      <4>1. PICK notice : last' = [Quiet EXCEPT !.kind = "return", !.who = c, !.claimed = claimed,
                                     !.notice = notice]
        BY <3>1, <3>3
      <4> QED BY <4>1 DEF Quiet
    <3> QED BY <3>2, <3>3
  <2> QED BY <2>1 DEF UseWithinGrant
<1> QED BY <1>11, <1>12

\* A request that is annotated now names this call, which no resume on its way has seen return.
LEMMA FinishGrants ==
  ASSUME StopInv, GrantInv, NEW k \in DOMAIN sc.calls, NEW failed, Finish(k, failed)
  PROVE  GrantInv' /\ UseWithinGrant'
<1>1. PICK c : c = ChildOf(k)
  OBVIOUS
<1>2. /\ stage[k] = "after" /\ stage' = [stage EXCEPT ![k] = "over"] /\ last' = Quiet
      /\ \/ requests' = requests
         \/ requests' = markAnnotated(requests, c, k, sc.calls[k].parent)
         \/ requests' = discardAuthority(requests, c, k)
      /\ lastCall' = lastCall \/ lastCall' = Put(lastCall, c, k)
      /\ reg' = IF IsRole(k) THEN evictCall(reg, k) ELSE reg
      /\ UNCHANGED <<sc, work, records, entries, session, auth, binds>>
  BY <1>1, Zenon DEF Finish, host, history
<1>3. \A j \in DOMAIN sc.calls : stage'[j] = IF j = k THEN "over" ELSE stage[j]
  BY <1>2 DEF StopInv, HostIsSound
<1>4. WorkIsSettled' /\ SettledStay
  BY <1>2, WorkStays DEF StopInv, GrantInv, Settled
<1>5. Thinned(reg, reg')
  BY <1>2, SlotDropped
<1>6. AgentsAreNamed'
  BY <1>2, AgentsStay DEF GrantInv
<1>7. \A x \in DOMAIN lastCall' : lastCall'[x] \in DOMAIN sc.calls /\ stage'[lastCall'[x]] = "over"
  <2>1. \A x \in DOMAIN lastCall : lastCall[x] \in DOMAIN sc.calls /\ stage'[lastCall[x]] = "over"
    BY <1>3 DEF GrantInv, PreviewsHold
  <2> QED BY <1>2, <1>3, <2>1 DEF Put, remember
<1>8. /\ DOMAIN requests' \subseteq DOMAIN requests
      /\ \A x \in DOMAIN requests' :
           /\ RequestShape(requests'[x])
           /\ requests'[x] = requests[x] \/ requests'[x].call = k
  <2>1. \A x \in DOMAIN requests : RequestShape(requests[x])
    BY DEF GrantInv, RequestsStand
  <2>2. CASE requests' = requests
    BY <2>1, <2>2
  <2>3. CASE requests' = discardAuthority(requests, c, k)
    BY <2>1, <2>3 DEF discardAuthority, Without, Restrict
  <2>4. CASE requests' # requests /\ requests' = markAnnotated(requests, c, k, sc.calls[k].parent)
    <3>1. PICK r : r = [requests[c] EXCEPT !.call = k, !.annotated = TRUE,
                                           !.parent = sc.calls[k].parent]
      OBVIOUS
    <3>2. c \in DOMAIN requests /\ requests' = [requests EXCEPT ![c] = r]
      BY <2>4, <3>1 DEF markAnnotated
    <3>3. RequestShape(requests[c])
      BY <2>1, <3>2
    <3>4. r = [parent |-> sc.calls[k].parent, call |-> k, actions |-> requests[c].actions,
               annotated |-> TRUE]
      BY <3>1, <3>3 DEF RequestShape
    <3>5. RequestShape(r) /\ r.call = k
      BY <3>4 DEF RequestShape
    <3>6. /\ DOMAIN requests' = DOMAIN requests /\ requests'[c] = r
          /\ \A x \in DOMAIN requests : x # c => requests'[x] = requests[x]
      BY <3>2
    <3> QED BY <2>1, <3>5, <3>6
  <2> QED BY <1>2, <2>2, <2>3, <2>4
<1>9. RequestsFade
  BY <1>2, <1>5, <1>8 DEF RequestsFade, Thinned
<1> QED BY <1>2, <1>4, <1>5, <1>6, <1>7, <1>8, <1>9, CallEnds, NothingUsed

\* A new session, with what it was granted; the markers it shows are those of a call whose
\* grant that is.
LEMMA SessionGranted ==
  ASSUME StopInv, GrantInv, sc' = sc, NEW c, c \notin DOMAIN session, NEW s, NEW grant,
         session' = Put(session, c, s), auth' = Put(auth, c, grant), GrantShape(grant),
         c \in RoleCalls => s.agent = sc.calls[c].agent,
         WorkIsSettled', SettledStay, OverStays,
         \A j \in DOMAIN sc.calls : stage'[j] \in {"routing", "classifying"} =>
           stage[j] \in {"routing", "classifying"} /\ work'[j] = work[j],
         \E n \in DOMAIN sc.calls :
           /\ {s.title, s.prompt} \subseteq {n, None} /\ Settled(n)'
           /\ Covers(grant, Head(work'[n].out).grant),
         UNCHANGED <<reg, requests, records, entries, lastCall, binds>>
  PROVE  GrantInv'
<1>1. /\ DOMAIN session' = DOMAIN session \cup {c} /\ session'[c] = s
      /\ \A x \in DOMAIN session : session'[x] = session[x]
  BY DEF Put, remember
<1>2. DOMAIN auth = DOMAIN session
  BY DEF GrantInv, MarkersAreOwn
<1>3. /\ DOMAIN auth' = DOMAIN session' /\ auth'[c] = grant
      /\ \A x \in DOMAIN session : auth'[x] = auth[x]
  BY <1>1, <1>2 DEF Put, remember
<1>4. GrantsGrow
  BY <1>1, <1>3 DEF GrantsGrow
<1>5. AgentsAreNamed'
  <2>1. RoleCalls' = RoleCalls
    BY DEF RoleCalls, IsRole
  <2> QED BY <1>1, <2>1 DEF GrantInv, AgentsAreNamed, RecordIsOf
<1>6. MarkersAreOwn'
  <2>1. ASSUME NEW x \in DOMAIN session'
        PROVE  /\ GrantShape(auth'[x])
               /\ \E n \in DOMAIN sc.calls :
                    /\ {session'[x].title, session'[x].prompt} \subseteq {n, None}
                    /\ Settled(n)' /\ Covers(auth'[x], Head(work'[n].out).grant)
    <3>1. CASE x = c
      BY <1>1, <1>3, <3>1
    <3>2. CASE x # c
      <4>1. x \in DOMAIN session
        BY <1>1, <3>2
      <4>2. PICK n \in DOMAIN sc.calls :
              /\ {session[x].title, session[x].prompt} \subseteq {n, None}
              /\ Settled(n) /\ Covers(auth[x], Head(work[n].out).grant)
        BY <4>1 DEF GrantInv, MarkersAreOwn
      <4>3. Settled(n)' /\ work'[n].out = work[n].out
        BY <4>2 DEF SettledStay
      <4>4. GrantShape(auth[x])
        BY <4>1 DEF GrantInv, MarkersAreOwn
      <4> QED BY <1>1, <1>3, <4>1, <4>2, <4>3, <4>4
    <3> QED BY <3>1, <3>2
  <2> QED BY <1>3, <2>1 DEF MarkersAreOwn, GrantShape
<1>7. SlotsAreOwn' /\ BoundIsGranted' /\ BindsStand'
  BY <1>4, SlotsStay, BoundStays, BindsStay DEF GrantInv, SlotsAreOwn
<1>8. RequestsStand'
  BY <1>4, RequestsStay DEF GrantInv, RequestsStand
<1>9. PreviewsHold'
  <2>1. RequestsFade
    BY DEF RequestsFade
  <2>2. \A x \in DOMAIN lastCall' : lastCall'[x] \in DOMAIN sc.calls /\ stage'[lastCall'[x]] = "over"
    BY DEF GrantInv, PreviewsHold, OverStays
  <2> QED BY <1>4, <2>1, <2>2, PreviewsStay DEF GrantInv, StopInv
<1> QED BY <1>5, <1>6, <1>7, <1>8, <1>9 DEF GrantInv

LEMMA HostCreateGrants ==
  ASSUME StopInv, GrantInv, NEW k \in DOMAIN sc.calls, HostCreate(k)
  PROVE  GrantInv' /\ UseWithinGrant'
<1>1. PICK out : out = Head(work[k].out)
  OBVIOUS
<1>2. PICK s :
        /\ s.agent = out.agent /\ {s.title, s.prompt} \subseteq {k, None}
        /\ session' = Put(session, k, s)
  <2>1. PICK title, prompt :
          /\ title = IF "title" \in sc.calls[k].markers THEN k ELSE None
          /\ prompt = IF out.nonce THEN IF "prompt" \in sc.calls[k].markers THEN k ELSE None ELSE None
    OBVIOUS
  <2>2. PICK s : s = [parent |-> sc.calls[k].parent, agent |-> out.agent, model |-> out.model,
                      variant |-> out.variant, title |-> title, prompt |-> prompt,
                      facts |-> <<out.facts>>, detection |-> out.detection]
    OBVIOUS
  <2>3. session' = Put(session, k, s)
    BY <1>1, <2>1, <2>2, Zenon DEF HostCreate
  <2>4. s.agent = out.agent /\ {s.title, s.prompt} \subseteq {k, None}
    BY <2>1, <2>2
  <2> QED BY <2>3, <2>4
<1>3. /\ stage[k] = "sent" /\ ~Resumes(k) /\ stage' = [stage EXCEPT ![k] = "running"]
      /\ auth' = Put(auth, k, out.grant) /\ last' = Quiet
      /\ UNCHANGED <<sc, work, reg, requests, records, entries, lastCall, binds>>
  BY <1>1, Zenon DEF HostCreate, routed
<1>4. OutIsSound(k, out)
  BY <1>1, <1>3 DEF GrantInv, WorkIsSettled
<1>5. k \notin DOMAIN session
  BY <1>3 DEF StopInv, HostIsSound
<1>6. \A j \in DOMAIN sc.calls : stage'[j] = IF j = k THEN "running" ELSE stage[j]
  BY <1>3 DEF StopInv, HostIsSound
<1>7. WorkIsSettled' /\ SettledStay
  BY <1>3, WorkStays DEF StopInv, GrantInv, Settled
<1>8. OverStays
  BY <1>3, <1>6 DEF OverStays
<1>9. /\ {s.title, s.prompt} \subseteq {k, None} /\ Settled(k)'
      /\ Covers(out.grant, Head(work'[k].out).grant)
  BY <1>1, <1>2, <1>3, <1>6 DEF Settled, Covers
<1>10. GrantShape(out.grant) /\ (k \in RoleCalls => s.agent = sc.calls[k].agent)
  BY <1>2, <1>4 DEF OutIsSound, RoleCalls
<1>11. \A j \in DOMAIN sc.calls : stage'[j] \in {"routing", "classifying"} =>
         stage[j] \in {"routing", "classifying"} /\ work'[j] = work[j]
  BY <1>3, <1>6
<1>12. GrantInv'
  BY <1>2, <1>3, <1>5, <1>7, <1>8, <1>9, <1>10, <1>11, SessionGranted
<1> QED BY <1>3, <1>12, NothingUsed

LEMMA ForkGrants ==
  ASSUME StopInv, GrantInv, NEW c, Fork(c)
  PROVE  GrantInv' /\ UseWithinGrant'
<1>1. /\ c \in DOMAIN session /\ "fork" \notin DOMAIN session
      /\ session' = Put(session, "fork", session[c]) /\ auth' = Put(auth, "fork", auth[c])
      /\ last' = Quiet
      /\ UNCHANGED <<sc, stage, work, reg, requests, records, entries, lastCall, binds>>
  BY Zenon DEF Fork, Live, routed
<1>2. "fork" \notin RoleCalls
  BY ScenariosAssumption DEF StopInv, HostIsSound, RoleCalls
<1>3. WorkIsSettled' /\ SettledStay /\ OverStays
  <2>1. \A j \in DOMAIN sc.calls : IsRole(j)' <=> IsRole(j)
    BY <1>1 DEF IsRole
  <2> QED BY <1>1, <2>1 DEF GrantInv, WorkIsSettled, SettledStay, OverStays, WorkShape, OutIsSound,
                            GrantShape, Settled
<1>4. GrantShape(auth[c])
  BY <1>1 DEF GrantInv, MarkersAreOwn
<1>5. \E n \in DOMAIN sc.calls :
        /\ {session[c].title, session[c].prompt} \subseteq {n, None} /\ Settled(n)'
        /\ Covers(auth[c], Head(work'[n].out).grant)
  <2>1. PICK n \in DOMAIN sc.calls :
          /\ {session[c].title, session[c].prompt} \subseteq {n, None}
          /\ Settled(n) /\ Covers(auth[c], Head(work[n].out).grant)
    BY <1>1 DEF GrantInv, MarkersAreOwn
  <2> QED BY <1>1, <2>1 DEF Settled
<1>6. GrantInv'
  BY <1>1, <1>2, <1>3, <1>4, <1>5, SessionGranted
<1> QED BY <1>1, <1>6, NothingUsed

-----------------------------------------------------------------------------
(* Grants: the registry, the requests and the session events. *)

\* What leaves the calls and the sessions alone.
LEMMA CallsStill ==
  ASSUME GrantInv, UNCHANGED <<sc, stage, work, session, auth>>
  PROVE  WorkIsSettled' /\ MarkersAreOwn' /\ SettledStay /\ GrantsGrow /\ OverStays
<1>1. \A j \in DOMAIN sc.calls : IsRole(j)' <=> IsRole(j)
  BY DEF IsRole
<1>2. SettledStay /\ GrantsGrow /\ OverStays
  BY DEF SettledStay, GrantsGrow, OverStays, Settled
<1>3. WorkIsSettled'
  BY <1>1 DEF GrantInv, WorkIsSettled, WorkShape, OutIsSound, GrantShape
<1>4. MarkersAreOwn'
  BY <1>2, MarkersStay DEF GrantInv, MarkersAreOwn
<1> QED BY <1>2, <1>3, <1>4

\* The previews stay as they are while no request comes to widen a child.
LEMMA PreviewsStill ==
  ASSUME StopInv, GrantInv, UNCHANGED <<sc, stage, work, session, auth>>, RequestsFade,
         DOMAIN lastCall' \subseteq DOMAIN lastCall, \A c \in DOMAIN lastCall' : lastCall'[c] = lastCall[c]
  PROVE  PreviewsHold'
<1>1. GrantsGrow /\ OverStays
  BY DEF GrantsGrow, OverStays
<1>2. \A x \in DOMAIN lastCall' : lastCall'[x] \in DOMAIN sc.calls /\ stage'[lastCall'[x]] = "over"
  BY DEF GrantInv, PreviewsHold
<1> QED BY <1>1, <1>2, PreviewsStay DEF GrantInv, StopInv

\* Slots may go; nothing else changes.
LEMMA StillGrants ==
  ASSUME StopInv, GrantInv, Thinned(reg, reg'), AgentsAreNamed',
         UNCHANGED <<sc, stage, work, requests, lastCall, session, auth, binds>>
  PROVE  GrantInv'
<1>1. WorkIsSettled' /\ MarkersAreOwn' /\ SettledStay /\ GrantsGrow /\ OverStays
  BY CallsStill
<1>2. SlotsAreOwn' /\ BoundIsGranted' /\ BindsStand'
  BY <1>1, SlotsStay, BoundStays, BindsStay DEF GrantInv, Thinned
<1>3. RequestsFade /\ \A c \in DOMAIN requests' : RequestShape(requests'[c])
  BY RequestsSame
<1>4. RequestsStand'
  BY <1>1, <1>3, RequestsStay DEF GrantInv, Thinned
<1>5. PreviewsHold'
  BY <1>3, PreviewsStill
<1> QED BY <1>1, <1>2, <1>4, <1>5 DEF GrantInv

LEMMA ExpirePendingGrants ==
  ASSUME StopInv, GrantInv, ExpirePending
  PROVE  GrantInv' /\ UseWithinGrant'
<1>1. PICK k : reg' = evictCall(reg, k)
  BY DEF ExpirePending
<1>2. /\ UNCHANGED <<sc, stage, work, requests, records, entries, lastCall, session, auth, binds>>
      /\ last' = Quiet
  BY DEF ExpirePending, routed, host, history
<1>3. Thinned(reg, reg')
  BY <1>1, EvictCallIs DEF GrantInv, SlotsAreOwn
<1>4. AgentsAreNamed'
  BY <1>2, AgentsStay DEF GrantInv
<1> QED BY <1>2, <1>3, <1>4, StillGrants, NothingUsed

\* What touches neither the registry nor a call.
LEMMA OthersGrant ==
  ASSUME StopInv, GrantInv,
         UNCHANGED <<sc, stage, work, reg, requests, records, entries, lastCall, session, auth, binds>>
  PROVE  GrantInv'
<1>1. Thinned(reg, reg') /\ AgentsAreNamed'
  BY AgentsStay DEF Thinned, GrantInv, SlotsAreOwn
<1> QED BY <1>1, StillGrants

LEMMA NextStepGrants ==
  ASSUME StopInv, GrantInv, NextStep
  PROVE  GrantInv' /\ UseWithinGrant'
<1>1. /\ UNCHANGED <<sc, stage, work, reg, requests, records, entries, lastCall, session, auth, binds>>
      /\ last' = Quiet
  BY DEF NextStep, routed, host, history
<1> QED BY <1>1, OthersGrant, NothingUsed

LEMMA DeleteGrants ==
  ASSUME StopInv, GrantInv, NEW s, Delete(s)
  PROVE  GrantInv' /\ UseWithinGrant'
<1>1. /\ UNCHANGED <<sc, stage, work, reg, requests, records, entries, lastCall, session, auth, binds>>
      /\ last' = Quiet
  BY Zenon DEF Delete, routed, history
<1> QED BY <1>1, OthersGrant, NothingUsed

LEMMA ActEndGrants ==
  ASSUME StopInv, GrantInv, NEW c, NEW i, ActEnd(c, i)
  PROVE  GrantInv' /\ UseWithinGrant'
<1>1. /\ UNCHANGED <<sc, stage, work, reg, requests, records, entries, lastCall, session, auth, binds>>
      /\ last' = Quiet
  BY Zenon DEF ActEnd, routed, host, history
<1> QED BY <1>1, OthersGrant, NothingUsed

LEMMA BindStartGrants ==
  ASSUME StopInv, GrantInv, NEW c, BindStart(c)
  PROVE  GrantInv' /\ UseWithinGrant'
<1>1. /\ c \in DOMAIN session /\ c \notin DOMAIN reg.bound
      /\ reg' = [reg EXCEPT !.inflight = Put(@, c, "bind")] /\ last' = Quiet
      /\ UNCHANGED <<sc, stage, work, requests, records, entries, lastCall, session, auth, binds>>
  BY DEF BindStart, AtWork, Live, routed, host, history
<1>2. RegistryShape(reg)
  BY DEF GrantInv, SlotsAreOwn
<1>3. PICK f : f = Put(reg.inflight, c, "bind")
  OBVIOUS
<1>4. reg' = [pending |-> reg.pending, bound |-> reg.bound, inflight |-> f,
              retired |-> reg.retired, deleted |-> reg.deleted]
  BY <1>1, <1>2, <1>3 DEF RegistryShape
<1>5. /\ RegistryShape(reg') /\ reg'.pending = reg.pending /\ reg'.bound = reg.bound
      /\ reg'.inflight = f /\ reg'.deleted = reg.deleted
  BY <1>4 DEF RegistryShape
<1>6. DOMAIN f = DOMAIN reg.inflight \cup {c}
  BY <1>3 DEF Put, remember
<1>7. /\ WorkIsSettled' /\ AgentsAreNamed' /\ MarkersAreOwn'
      /\ SettledStay /\ GrantsGrow /\ OverStays
  BY <1>1, CallsStill, AgentsStay DEF GrantInv
<1>8. BoundIsGranted'
  <2>1. /\ DOMAIN reg'.bound \cup DOMAIN reg'.inflight \subseteq DOMAIN session'
        /\ DOMAIN reg'.bound \cap DOMAIN reg'.inflight = {}
    BY <1>1, <1>5, <1>6 DEF GrantInv, BoundIsGranted
  <2> QED BY <1>1, <1>5, <2>1 DEF GrantInv, BoundIsGranted, BoundShape, GrantShape, Covers
<1>9. SlotsAreOwn' /\ BindsStand'
  BY <1>1, <1>5, <1>7, SlotsStay, BindsStay DEF GrantInv
<1>10. RequestsStand' /\ RequestsFade
  BY <1>1, <1>5, <1>7, RequestsStay DEF GrantInv, RequestsStand, RequestsFade
<1>11. PreviewsHold'
  BY <1>1, <1>10, PreviewsStill
<1> QED BY <1>1, <1>7, <1>8, <1>9, <1>10, <1>11, NothingUsed DEF GrantInv

\* The first session that shows a nonce gets its grant, and no other after it; whoever shows it
\* was granted no less.
LEMMA BindEndGrants ==
  ASSUME StopInv, GrantInv, NEW c, NEW how, BindEnd(c, how)
  PROVE  GrantInv' /\ UseWithinGrant'
<1>1. PICK seen : seen = IF how = "noContext" THEN [session[c] EXCEPT !.prompt = None] ELSE session[c]
  OBVIOUS
<1>2. PICK d : d = IF how = "fail" THEN [reg |-> reg, binding |-> unknown(None, None)]
                   ELSE decideBinding(reg, c, seen)
  OBVIOUS
<1>3. PICK cacheable : cacheable = (how # "fail")
  OBVIOUS
<1>4. /\ c \in DOMAIN reg.inflight /\ last' = Quiet
      /\ reg' = settleBind(d.reg, c, "bind", d.binding, cacheable)
      /\ binds' = IF d.binding.kind = "exact" THEN binds \cup {<<NonceOf(seen), c>>} ELSE binds
      /\ UNCHANGED <<sc, stage, work, requests, records, entries, lastCall, session, auth>>
  BY <1>1, <1>2, <1>3, Zenon DEF BindEnd, routed, host
<1>5. /\ c \in DOMAIN session /\ c \notin DOMAIN reg.bound /\ c # NoOne /\ RegistryShape(reg)
  <2>1. c \in DOMAIN session /\ c \notin DOMAIN reg.bound
    BY <1>4 DEF GrantInv, BoundIsGranted
  <2>2. c # NoOne
    BY <2>1, ScenariosAssumption DEF StopInv, HostIsSound, Children, NoOne
  <2> QED BY <2>1, <2>2 DEF GrantInv, SlotsAreOwn
<1>6. PICK n \in DOMAIN sc.calls :
        /\ {session[c].title, session[c].prompt} \subseteq {n, None}
        /\ Settled(n) /\ Covers(auth[c], Head(work[n].out).grant)
  BY <1>5 DEF GrantInv, MarkersAreOwn
<1>7. seen.parent = session[c].parent /\ NonceOf(seen) \in {n, None}
  <2>1. SessionShape(session[c])
    BY <1>5 DEF StopInv, HostIsSound
  <2>2. CASE how = "noContext"
    <3>1. seen = [parent |-> session[c].parent, agent |-> session[c].agent,
                  model |-> session[c].model, variant |-> session[c].variant,
                  title |-> session[c].title, prompt |-> None, facts |-> session[c].facts,
                  detection |-> session[c].detection]
      BY <1>1, <2>1, <2>2 DEF SessionShape
    <3>2. seen.parent = session[c].parent /\ seen.title \in {n, None} /\ seen.prompt = None
      BY <1>6, <3>1
    <3> QED BY <3>2 DEF NonceOf
  <2>3. CASE how # "noContext"
    BY <1>1, <1>6, <2>3 DEF NonceOf
  <2> QED BY <2>2, <2>3
\* The binding is an exact one of the slot n, or reads only.
<1>8. \/ /\ d.reg = reg /\ d.binding.kind = "unknown" /\ BoundShape(d.binding)
         /\ d.binding.grant = [actions |-> LOCAL_ACTIONS, root |-> None]
         /\ cacheable => d.binding.parent = session[c].parent
      \/ /\ n \in DOMAIN reg.pending /\ reg.pending[n].by \in {NoOne, c} /\ NonceOf(seen) = n
         /\ d.binding.kind = "exact" /\ BoundShape(d.binding)
         /\ d.binding.parent = session[c].parent /\ Covers(auth[c], d.binding.grant)
         /\ RegistryShape(d.reg) /\ d.reg.bound = reg.bound /\ d.reg.inflight = reg.inflight
         /\ d.reg.deleted = reg.deleted /\ DOMAIN d.reg.pending = DOMAIN reg.pending
         /\ d.reg.pending[n].by = c /\ d.reg.pending[n].nonce = reg.pending[n].nonce
         /\ d.reg.pending[n].grant = reg.pending[n].grant
         /\ \A x \in DOMAIN reg.pending : x # n => d.reg.pending[x] = reg.pending[x]
  <2>1. CASE how = "fail"
    <3>1. d = [reg |-> reg, binding |-> unknown(None, None)]
      BY <1>2, <2>1
    <3> QED BY <1>3, <2>1, <3>1 DEF unknown, BoundShape, GrantShape
  <2>2. CASE how # "fail" /\ d.reg = reg /\ d.binding = unknown(seen.parent, seen.agent)
    BY <1>7, <2>2 DEF unknown, BoundShape, GrantShape
  <2>3. CASE how # "fail" /\ ~(d.reg = reg /\ d.binding = unknown(seen.parent, seen.agent))
    <3>1. d = decideBinding(reg, c, seen)
      BY <1>2, <2>3
    <3>2. PICK at \in DOMAIN reg.pending :
              /\ NonceOf(seen) # None /\ reg.pending[at].nonce = NonceOf(seen)
              /\ reg.pending[at].parent = seen.parent
              /\ reg.pending[at].by \in {NoOne, c}
              /\ d.binding = exact(reg.pending[at])
              /\ RegistryShape(d.reg) /\ d.reg.bound = reg.bound /\ d.reg.inflight = reg.inflight
              /\ d.reg.deleted = reg.deleted
              /\ DOMAIN d.reg.pending = DOMAIN reg.pending
              /\ d.reg.pending[at].by = c /\ d.reg.pending[at].nonce = reg.pending[at].nonce
              /\ d.reg.pending[at].grant = reg.pending[at].grant
              /\ \A x \in DOMAIN reg.pending : x # at => d.reg.pending[x] = reg.pending[x]
      BY <1>5, <2>3, <3>1, BindToIs
    <3>3. /\ GrantShape(reg.pending[at].grant) /\ reg.pending[at].nonce = at
          /\ reg.pending[at].grant = Head(work[at].out).grant
      BY <3>2 DEF GrantInv, SlotsAreOwn
    <3>4. at = n
      BY <1>7, <3>2, <3>3
    <3>5. /\ d.binding.kind = "exact" /\ d.binding.grant = reg.pending[at].grant
          /\ d.binding.parent = reg.pending[at].parent /\ BoundShape(d.binding)
      <4>1. PICK b : b = d.binding
        OBVIOUS
      <4>2. b = [kind |-> "exact", grant |-> reg.pending[at].grant,
                 parent |-> reg.pending[at].parent, agent |-> reg.pending[at].agent]
        BY <3>2, <4>1 DEF exact
      <4>3. /\ b.kind = "exact" /\ b.grant = reg.pending[at].grant
            /\ b.parent = reg.pending[at].parent /\ BoundShape(b)
        BY <3>3, <4>2 DEF BoundShape
      <4> QED BY <4>1, <4>3
    <3>6. Covers(auth[c], d.binding.grant)
      BY <1>6, <3>3, <3>4, <3>5
    <3>7. NonceOf(seen) = n /\ d.binding.parent = session[c].parent
      BY <1>7, <3>2, <3>3, <3>4, <3>5
    <3> QED BY <3>2, <3>4, <3>5, <3>6, <3>7
  <2> QED BY <2>1, <2>2, <2>3
<1>9. PICK r : r = d.reg
  OBVIOUS
<1>10. /\ RegistryShape(r) /\ c \in DOMAIN r.inflight /\ r.bound = reg.bound /\ r.inflight = reg.inflight
       /\ r.deleted = reg.deleted /\ DOMAIN r.pending = DOMAIN reg.pending
       /\ \A x \in DOMAIN reg.pending : /\ r.pending[x].nonce = reg.pending[x].nonce
                                        /\ r.pending[x].grant = reg.pending[x].grant
  BY <1>4, <1>5, <1>8, <1>9
<1>11. reg' = settleBind(r, c, "bind", d.binding, cacheable)
  BY <1>4, <1>9
<1>12. /\ RegistryShape(reg') /\ reg'.pending = r.pending /\ reg'.deleted = reg.deleted
       /\ DOMAIN reg'.inflight \subseteq DOMAIN reg.inflight
       /\ \/ reg'.bound = reg.bound
          \/ /\ cacheable /\ {c, d.binding.parent} \cap reg.deleted = {}
             /\ DOMAIN reg'.inflight = DOMAIN reg.inflight \ {c}
             /\ DOMAIN reg'.bound = DOMAIN reg.bound \cup {c} /\ reg'.bound[c] = d.binding
             /\ \A x \in DOMAIN reg.bound : x # c => reg'.bound[x] = reg.bound[x]
  <2>1. /\ RegistryShape(reg') /\ reg'.pending = r.pending /\ reg'.deleted = r.deleted
        /\ DOMAIN reg'.inflight \subseteq DOMAIN r.inflight
        /\ \/ reg'.bound = r.bound
           \/ /\ cacheable /\ {c, d.binding.parent} \cap r.deleted = {}
              /\ DOMAIN reg'.inflight = DOMAIN r.inflight \ {c}
              /\ DOMAIN reg'.bound = DOMAIN r.bound \cup {c} /\ reg'.bound[c] = d.binding
              /\ \A x \in DOMAIN r.bound : x # c => reg'.bound[x] = r.bound[x]
    BY <1>10, <1>11, SettleIs
  <2> QED BY <1>10, <2>1
<1>13. /\ WorkIsSettled' /\ AgentsAreNamed' /\ MarkersAreOwn'
      /\ SettledStay /\ GrantsGrow /\ OverStays
  BY <1>4, CallsStill, AgentsStay DEF GrantInv
<1>14. SlotsAreOwn'
  BY <1>4, <1>10, <1>12, <1>13, SlotsStay DEF GrantInv
<1>15. BoundIsGranted'
  <2>1. CASE reg'.bound = reg.bound
    <3>1. \A x \in DOMAIN reg'.bound : reg'.bound[x] = reg.bound[x]
      BY <2>1
    <3> QED BY <1>12, <1>13, <2>1, <3>1, BoundStays DEF GrantInv
  <2>2. CASE reg'.bound # reg.bound
    <3>1. /\ cacheable
          /\ DOMAIN reg'.inflight = DOMAIN reg.inflight \ {c}
          /\ DOMAIN reg'.bound = DOMAIN reg.bound \cup {c} /\ reg'.bound[c] = d.binding
          /\ \A x \in DOMAIN reg.bound : x # c => reg'.bound[x] = reg.bound[x]
      BY <1>12, <2>2
    <3>2. ASSUME NEW x \in DOMAIN reg'.bound
          PROVE  /\ BoundShape(reg'.bound[x]) /\ reg'.bound[x].parent = session[x].parent
                 /\ \/ reg'.bound[x].kind = "exact" /\ Covers(auth[x], reg'.bound[x].grant)
                    \/ /\ reg'.bound[x].kind = "unknown"
                       /\ reg'.bound[x].grant = [actions |-> LOCAL_ACTIONS, root |-> None]
      <4>1. CASE x = c
        BY <1>8, <3>1, <4>1
      <4>2. CASE x # c
        BY <3>1, <4>2 DEF GrantInv, BoundIsGranted
      <4> QED BY <4>1, <4>2
    <3>3. /\ DOMAIN reg'.bound \cup DOMAIN reg'.inflight \subseteq DOMAIN session
          /\ DOMAIN reg'.bound \cap DOMAIN reg'.inflight = {}
      BY <1>5, <3>1 DEF GrantInv, BoundIsGranted
    <3> QED BY <1>4, <3>2, <3>3, Zenon DEF BoundIsGranted, BoundShape, GrantShape, Covers
  <2> QED BY <2>1, <2>2
<1>16. RequestsStand'
  <2>1. \A x \in DOMAIN requests' : RequestShape(requests'[x])
    BY <1>4 DEF GrantInv, RequestsStand
  <2> QED BY <1>4, <1>12, <1>13, <2>1, RequestsStay DEF GrantInv
<1>17. RequestsFade
  <2>1. ASSUME NEW x \in DOMAIN requests', x \in DOMAIN reg'.bound, reg'.bound[x].kind = "exact"
        PROVE  x \in DOMAIN reg.bound /\ reg.bound[x].kind = "exact"
    <3>1. CASE reg'.bound = reg.bound
      BY <2>1, <3>1
    <3>2. CASE reg'.bound # reg.bound
      <4>1. /\ cacheable /\ {c, d.binding.parent} \cap reg.deleted = {}
            /\ DOMAIN reg'.bound = DOMAIN reg.bound \cup {c}
            /\ \A y \in DOMAIN reg.bound : y # c => reg'.bound[y] = reg.bound[y]
        BY <1>12, <3>2
      <4>2. d.binding.parent = session[c].parent
        BY <1>8, <4>1
      <4>3. x # c
        BY <1>4, <1>5, <2>1, <4>1, <4>2 DEF GrantInv, RequestsStand
      <4> QED BY <2>1, <4>1, <4>3
    <3> QED BY <3>1, <3>2
  <2> QED BY <1>4, <2>1 DEF RequestsFade
<1>18. PreviewsHold'
  BY <1>4, <1>17, PreviewsStill
<1>19. BindsStand'
  <2>1. CASE d.binding.kind # "exact"
    <3>1. binds' = binds /\ r = reg
      BY <1>4, <1>8, <1>9, <2>1
    <3> QED BY <1>4, <1>12, <1>13, <3>1, BindsStay DEF GrantInv
  <2>2. CASE d.binding.kind = "exact"
    <3>1. /\ n \in DOMAIN reg.pending /\ reg.pending[n].by \in {NoOne, c} /\ NonceOf(seen) = n
          /\ r.pending[n].by = c
          /\ \A x \in DOMAIN reg.pending : x # n => r.pending[x] = reg.pending[x]
      BY <1>8, <1>9, <2>2
    <3>2. PICK new : new = <<n, c>>
      OBVIOUS
    <3>3. binds' = binds \cup {new} /\ new[1] = n /\ new[2] = c
      BY <1>4, <2>2, <3>1, <3>2
    <3>4. \A b \in binds : /\ b[1] \in DOMAIN sc.calls /\ Settled(b[1]) /\ b[2] # NoOne
                           /\ b[1] \in DOMAIN reg.pending => reg.pending[b[1]].by = b[2]
      BY DEF GrantInv, BindsStand
    <3>5. \A b \in binds : b[1] = n => b[2] = c
      BY <3>1, <3>4
    <3>6. \A b \in binds' : /\ b[1] \in DOMAIN sc.calls /\ Settled(b[1])' /\ b[2] # NoOne
                            /\ b[1] \in DOMAIN reg'.pending => reg'.pending[b[1]].by = b[2]
      <4> TAKE b \in binds'
      <4>1. CASE b = new
        BY <1>4, <1>5, <1>6, <1>12, <3>1, <3>3, <4>1 DEF Settled
      <4>2. CASE b # new
        <5>1. b \in binds
          BY <3>3, <4>2
        <5>2. /\ b[1] \in DOMAIN sc.calls /\ Settled(b[1]) /\ b[2] # NoOne
              /\ b[1] \in DOMAIN reg.pending => reg.pending[b[1]].by = b[2]
          BY <3>4, <5>1
        <5>3. CASE b[1] = n
          BY <1>4, <1>12, <3>1, <3>5, <5>1, <5>2, <5>3 DEF Settled
        <5>4. CASE b[1] # n
          BY <1>4, <1>10, <1>12, <3>1, <5>2, <5>4 DEF Settled
        <5> QED BY <5>3, <5>4
      <4> QED BY <4>1, <4>2
    <3>7. NonceBindsOnce'
      <4>1. \A x, y \in binds : x[1] = y[1] => x[2] = y[2]
        BY DEF GrantInv, BindsStand, NonceBindsOnce
      <4> QED BY <3>3, <3>5, <4>1 DEF NonceBindsOnce
    <3> QED BY <1>4, <3>6, <3>7 DEF BindsStand
  <2> QED BY <2>1, <2>2
<1> QED BY <1>4, <1>13, <1>14, <1>15, <1>16, <1>18, <1>19, NothingUsed DEF GrantInv

\* A request is opened by a bound child, and widens nobody before a call annotates it.
LEMMA RequestGrants ==
  ASSUME StopInv, GrantInv, NEW c, Request(c)
  PROVE  GrantInv' /\ UseWithinGrant'
<1>1. PICK role, grant, ask :
        /\ c \in DOMAIN session /\ c \in DOMAIN reg.bound /\ last' = Quiet
        /\ requests' = requestAuthority(requests, c, session[c].parent, role, grant, ask)
        /\ UNCHANGED <<sc, stage, work, reg, records, entries, lastCall, session, auth, binds>>
  BY Zenon DEF Request, AtWork, Live, routed, host, history
<1>2. \A x \in DOMAIN requests : RequestShape(requests[x])
  BY DEF GrantInv, RequestsStand
<1>3. \/ requests' = requests
      \/ \E r : /\ RequestShape(r) /\ ~r.annotated
                /\ requests' = remember(requests, c, r)
  <2>1. PICK inside : inside = Requestable(role, grant, ask)
    OBVIOUS
  <2>2. PICK open : open = {x \in DOMAIN requests \cap {c} : ~requests[x].annotated}
    OBVIOUS
  <2>3. PICK r : r = IF open # {} THEN [requests[c] EXCEPT !.actions = @ \cup inside]
                     ELSE [parent |-> session[c].parent, call |-> NoOne, actions |-> inside,
                           annotated |-> FALSE]
    OBVIOUS
  <2>4. requests' = IF inside = {} THEN requests ELSE remember(requests, c, r)
    BY <1>1, <2>1, <2>2, <2>3 DEF requestAuthority
  <2>5. RequestShape(r) /\ ~r.annotated
    <3>1. CASE open = {}
      <4>1. r = [parent |-> session[c].parent, call |-> NoOne, actions |-> inside, annotated |-> FALSE]
        BY <2>3, <3>1
      <4> QED BY <4>1 DEF RequestShape
    <3>2. CASE open # {}
      <4>1. c \in DOMAIN requests /\ ~requests[c].annotated
        BY <2>2, <3>2
      <4>2. RequestShape(requests[c])
        BY <1>2, <4>1
      <4>3. r = [requests[c] EXCEPT !.actions = requests[c].actions \cup inside]
        BY <2>3, <3>2
      <4>4. r = [parent |-> requests[c].parent, call |-> requests[c].call,
                 actions |-> requests[c].actions \cup inside, annotated |-> requests[c].annotated]
        BY <4>2, <4>3 DEF RequestShape
      <4> QED BY <4>1, <4>2, <4>4 DEF RequestShape
    <3> QED BY <3>1, <3>2
  <2> QED BY <2>4, <2>5
<1>4. /\ DOMAIN requests' \subseteq DOMAIN requests \cup {c}
      /\ \A x \in DOMAIN requests' :
           \/ x \in DOMAIN requests /\ requests'[x] = requests[x]
           \/ x = c /\ RequestShape(requests'[x]) /\ ~requests'[x].annotated
  <2>1. CASE requests' = requests
    BY <2>1
  <2>2. CASE requests' # requests
    <3>1. PICK r : RequestShape(r) /\ ~r.annotated /\ requests' = remember(requests, c, r)
      BY <1>3, <2>2
    <3> QED BY <3>1 DEF remember
  <2> QED BY <2>1, <2>2
<1>5. /\ WorkIsSettled' /\ AgentsAreNamed' /\ MarkersAreOwn'
      /\ SettledStay /\ GrantsGrow /\ OverStays
  BY <1>1, CallsStill, AgentsStay DEF GrantInv
<1>6. SlotsAreOwn' /\ BoundIsGranted' /\ BindsStand'
  BY <1>1, <1>5, SlotsStay, BoundStays, BindsStay DEF GrantInv, SlotsAreOwn
<1>7. RequestsStand'
  <2>1. ASSUME NEW x \in DOMAIN requests'
        PROVE  /\ x \in DOMAIN session /\ RequestShape(requests'[x])
               /\ x \in DOMAIN reg.bound \/ {x, session[x].parent} \cap reg.deleted # {}
    <3>1. CASE x \in DOMAIN requests /\ requests'[x] = requests[x]
      BY <3>1 DEF GrantInv, RequestsStand
    <3>2. CASE x = c /\ RequestShape(requests'[x]) /\ ~requests'[x].annotated
      BY <1>1, <3>2
    <3> QED BY <1>4, <2>1, <3>1, <3>2
  <2> QED BY <1>1, <2>1 DEF RequestsStand, RequestShape
<1>8. RequestsFade
  <2>1. ASSUME NEW x \in DOMAIN requests', requests'[x].annotated
        PROVE  x \in DOMAIN requests /\ requests'[x] = requests[x]
    BY <1>4, <2>1
  <2> QED BY <1>1, <2>1 DEF RequestsFade
<1>9. PreviewsHold'
  BY <1>1, <1>8, PreviewsStill
<1> QED BY <1>1, <1>5, <1>6, <1>7, <1>9, NothingUsed DEF GrantInv

\* What the authority decision allows is inside the bound grant, and that is what was granted.
LEMMA AuthorizedIsGranted ==
  ASSUME StopInv, GrantInv, NEW c \in DOMAIN reg.bound, NEW action, NEW path,
         Authorized(c, action, path), NEW target,
         target = canonicalAuthorityPath(path, sc.exist, sc.links)
  PROVE  /\ action \in auth[c].actions \cup LOCAL_ACTIONS \cup {"external"}
         /\ action \in {"edit", "external"} =>
              auth[c].root # None /\ insideWorkRoot(target, sc.rootPath[auth[c].root])
         /\ action = "read" =>
              \/ auth[c].root # None /\ insideWorkRoot(target, sc.rootPath[auth[c].root])
              \/ sc.directory # None /\ insideWorkRoot(target, sc.rootPath[sc.directory])
         /\ action = "run" => auth[c].root # None
<1>1. PICK max : max = roleMax(sc.roles[reg.bound[c].agent])
  OBVIOUS
<1>2. PICK b : b = Head(currentBinding(c))
  OBVIOUS
<1>3. PICK kept : kept = Separated(reg.bound[c].grant.actions \cap max)
  OBVIOUS
<1>4. PICK root : root = reg.bound[c].grant.root
  OBVIOUS
<1>5. b = [kind |-> reg.bound[c].kind,
           grant |-> [actions |-> IF root = None THEN kept \ EXEC ELSE kept, root |-> root]]
  <2>1. currentBinding(c) = <<view(reg.bound[c], max)>>
    BY <1>1 DEF currentBinding
  <2>2. b = view(reg.bound[c], max)
    BY <1>2, <2>1
  <2> QED BY <1>3, <1>4, <2>2, Zenon DEF view, restrict
<1>6. /\ b.kind = reg.bound[c].kind /\ b.grant.root = root
      /\ b.grant.actions \subseteq reg.bound[c].grant.actions
      /\ root = None => "run" \notin b.grant.actions
  <2>1. kept \subseteq reg.bound[c].grant.actions
    BY <1>3 DEF Separated
  <2>2. /\ b.kind = reg.bound[c].kind /\ b.grant.root = root
        /\ b.grant.actions = IF root = None THEN kept \ EXEC ELSE kept
    BY <1>5
  <2> QED BY <2>1, <2>2 DEF EXEC
<1>7. \/ /\ reg.bound[c].kind = "exact" /\ root = auth[c].root
         /\ b.grant.actions \subseteq auth[c].actions
      \/ reg.bound[c].kind = "unknown" /\ root = None /\ b.grant.actions \subseteq LOCAL_ACTIONS
  <2>1. \/ reg.bound[c].kind = "exact" /\ Covers(auth[c], reg.bound[c].grant)
        \/ /\ reg.bound[c].kind = "unknown"
           /\ reg.bound[c].grant = [actions |-> LOCAL_ACTIONS, root |-> None]
    BY DEF GrantInv, BoundIsGranted
  <2> QED BY <1>4, <1>6, <2>1 DEF Covers
<1>8. sc.directory # None
  BY ScenariosAssumption DEF StopInv, HostIsSound
<1>9. PICK inside : inside = (target # <<>> /\ insideWorkRoot(target, RootPath(b.grant)))
  OBVIOUS
<1>10. inside => insideWorkRoot(target, sc.rootPath[IF root = None THEN sc.directory ELSE root])
  BY <1>6, <1>9 DEF RootPath
<1>11. CASE action = "external"
  <2>1. b.kind = "exact" /\ b.grant.root # None /\ inside
    BY <1>2, <1>9, <1>11, Zenon DEF Authorized
  <2> QED BY <1>6, <1>7, <1>10, <1>11, <2>1
<1>12. CASE action = "read"
  <2>1. inside
    BY <1>2, <1>9, <1>12, Zenon DEF Authorized
  <2>2. CASE root = None
    BY <1>8, <1>10, <1>12, <2>1, <2>2 DEF LOCAL_ACTIONS
  <2>3. CASE root # None
    BY <1>7, <1>10, <1>12, <2>1, <2>3 DEF LOCAL_ACTIONS
  <2> QED BY <2>2, <2>3
<1>13. CASE action = "edit"
  <2>1. "edit" \in b.grant.actions /\ b.grant.root # None /\ inside
    BY <1>2, <1>9, <1>13, Zenon DEF Authorized
  <2> QED BY <1>6, <1>7, <1>10, <1>13, <2>1
<1>14. CASE action \in {"run", "web"}
  <2>1. action \in b.grant.actions
    BY <1>2, <1>14 DEF Authorized
  <2> QED BY <1>6, <1>7, <1>14, <2>1 DEF LOCAL_ACTIONS
<1>15. action \in {"external", "read", "edit", "run", "web"}
  BY DEF Authorized
<1> QED BY <1>11, <1>12, <1>13, <1>14, <1>15

LEMMA ActGrants ==
  ASSUME StopInv, GrantInv, NEW c, NEW action, NEW path, Act(c, action, path)
  PROVE  GrantInv' /\ UseWithinGrant'
<1>1. PICK target : target = canonicalAuthorityPath(path, sc.exist, sc.links)
  OBVIOUS
<1>2. PICK ok : ok = Authorized(c, action, path)
  OBVIOUS
<1>a. PICK mode : mode = callMode(sc.guard, FALSE)
  OBVIOUS
<1>b. PICK call : call = GuardCall(action, path)
  OBVIOUS
<1>c. PICK p : p = GuardPolicy(c)
  OBVIOUS
<1>d. PICK g : g = Guarded(c, mode, call, p.policy, ok)
  OBVIOUS
<1>3. /\ c \in DOMAIN reg.bound
      /\ UNCHANGED <<sc, stage, work, reg, requests, records, entries, lastCall, session, auth, binds>>
      /\ last' = IF g.guard # "none" THEN Quiet
                 ELSE [Quiet EXCEPT !.kind = "act", !.who = c, !.action = action, !.path = target]
  BY <1>1, <1>2, <1>a, <1>b, <1>c, <1>d, Zenon DEF Act, routed, host
<1>4. GrantInv'
  BY <1>3, OthersGrant
<1>5. CASE last' = Quiet
  BY <1>4, <1>5, NothingUsed
<1>6. CASE last' # Quiet
  <2>1. /\ g = Guarded(c, mode, call, p.policy, ok) /\ g.guard = "none"
        /\ last' = [Quiet EXCEPT !.kind = "act", !.who = c, !.action = action, !.path = target]
    BY <1>3, <1>6, <1>d
  <2>2. Authorized(c, action, path)
    <3>1. CASE ~ok
      <4>1. PICK s : s = guardRefusedCall(guard[c].g, mode, p.policy)
        OBVIOUS
      <4>2. g = [state |-> s, guard |-> "authority"]
        BY <2>1, <3>1, <4>1, Zenon DEF Guarded
      <4>3. g.guard = "authority"
        BY <4>2
      <4> QED BY <2>1, <4>3
    <3>2. CASE ok
      BY <1>2, <3>2
    <3> QED BY <3>1, <3>2
  <2>3. last' = [kind |-> "act", who |-> c, action |-> action, path |-> target, notice |-> FALSE,
                 claimed |-> FALSE]
    BY <2>1 DEF Quiet
  <2>4. last'.who = c /\ last'.action = action /\ last'.path = target
    BY <2>3
  <2>5. /\ action \in auth[c].actions \cup LOCAL_ACTIONS \cup {"external"}
        /\ action \in {"edit", "external"} =>
             auth[c].root # None /\ insideWorkRoot(target, sc.rootPath[auth[c].root])
        /\ action = "read" =>
             \/ auth[c].root # None /\ insideWorkRoot(target, sc.rootPath[auth[c].root])
             \/ sc.directory # None /\ insideWorkRoot(target, sc.rootPath[sc.directory])
        /\ action = "run" => auth[c].root # None
    BY <1>1, <1>3, <2>2, AuthorizedIsGranted
  <2>6. UseWithinGrant'
    BY <1>3, <2>4, <2>5 DEF UseWithinGrant
  <2> QED BY <1>4, <2>6
<1> QED BY <1>5, <1>6

\* A waiting dispatch claims a child of its own agent.
LEMMA CreatedGrants ==
  ASSUME StopInv, GrantInv, NEW c \in DOMAIN session, SessionCreated(c),
         UNCHANGED <<sc, stage, work, reg, requests, lastCall, session, auth, binds>>
  PROVE  GrantInv'
<1>1. CASE UNCHANGED <<records, entries>>
  BY <1>1, OthersGrant
<1>2. CASE ~UNCHANGED <<records, entries>>
  <2>1. PICK k : /\ k \in DOMAIN entries /\ entries[k].input.agent = session[c].agent
                 /\ entries' = [entries EXCEPT ![k].state = "claimed"]
                 /\ records' = Put(records, c, entries[k].input)
    <3>1. PICK waiting : waiting = {k \in DOMAIN entries : /\ entries[k].state = "waiting"
                                         /\ entries[k].input.parent = session[c].parent
                                         /\ entries[k].input.agent = session[c].agent}
      OBVIOUS
    <3>2. PICK claimed : claimed = IF session[c].title \in waiting THEN {session[c].title}
                                   ELSE Oldest(entries, waiting)
      OBVIOUS
    <3>3. \E k \in claimed : /\ entries' = [entries EXCEPT ![k].state = "claimed"]
                             /\ records' = Put(records, c, entries[k].input)
      BY <1>2, <3>1, <3>2, Zenon DEF SessionCreated
    <3>4. claimed \subseteq waiting
      BY <3>2 DEF Oldest
    <3> QED BY <3>1, <3>3, <3>4
  <2>2. k \in DOMAIN sc.calls
    BY <2>1 DEF GrantInv, AgentsAreNamed
  <2>3. /\ DOMAIN entries' = DOMAIN entries
        /\ \A x \in DOMAIN entries : x # k => entries'[x] = entries[x]
    BY <2>1
  <2>4. AgentsAreNamed'
    <3>1. RoleCalls' = RoleCalls
      BY DEF RoleCalls, IsRole
    <3>2. \A x \in RoleCalls \cap DOMAIN entries' :
            /\ RecordIsOf(entries'[x].input, sc.calls[x].agent)
            /\ entries'[x].previous # <<>> => RecordIsOf(Head(entries'[x].previous), sc.calls[x].agent)
      <4>1. ASSUME NEW x \in RoleCalls \cap DOMAIN entries'
            PROVE  /\ RecordIsOf(entries'[x].input, sc.calls[x].agent)
                   /\ entries'[x].previous # <<>> =>
                        RecordIsOf(Head(entries'[x].previous), sc.calls[x].agent)
        <5>1. /\ RecordIsOf(entries[x].input, sc.calls[x].agent)
              /\ entries[x].previous # <<>> => RecordIsOf(Head(entries[x].previous), sc.calls[x].agent)
          BY <2>3, <4>1 DEF GrantInv, AgentsAreNamed
        <5>2. entries'[x].input = entries[x].input /\ entries'[x].previous = entries[x].previous
          BY <2>1, <4>1
        <5> QED BY <5>1, <5>2
      <4> QED BY <4>1
    <3>3. \A x \in RoleCalls \cap DOMAIN records' : RecordIsOf(records'[x], sc.calls[x].agent)
      BY <2>1 DEF Put, remember, GrantInv, AgentsAreNamed, RecordIsOf
    <3>4. /\ DOMAIN entries' \subseteq DOMAIN sc.calls
          /\ \A x \in DOMAIN entries' : "agent" \in DOMAIN entries'[x].input
      <4>1. \A x \in DOMAIN entries' : entries'[x].input = entries[x].input
        BY <2>1
      <4> QED BY <2>3, <4>1 DEF GrantInv, AgentsAreNamed
    <3> QED BY <3>1, <3>2, <3>3, <3>4 DEF GrantInv, AgentsAreNamed, RecordIsOf
  <2>5. Thinned(reg, reg')
    BY DEF Thinned, GrantInv, SlotsAreOwn
  <2> QED BY <2>4, <2>5, StillGrants
<1> QED BY <1>1, <1>2

\* What a deleted session leaves behind: no slot of its children, no binding of its own or of
\* a child, and no request that a binding could still meet.
LEMMA DeletedGrants ==
  ASSUME StopInv, GrantInv, NEW s, SessionDeleted(s),
         UNCHANGED <<sc, stage, work, entries, session, auth, binds>>
  PROVE  GrantInv'
<1>1. /\ reg' = evict(reg, s) /\ requests' = evictAuthority(requests, s)
      /\ lastCall' = Drop(lastCall, s)
      /\ records' = Restrict(records, {c \in DOMAIN records : c # s /\ records[c].parent # s})
  BY DEF SessionDeleted
<1>2. RegistryShape(reg)
  BY DEF GrantInv, SlotsAreOwn
<1>3. /\ RegistryShape(reg')
      /\ DOMAIN reg'.pending \subseteq DOMAIN reg.pending
      /\ \A n \in DOMAIN reg'.pending : reg'.pending[n] = reg.pending[n]
      /\ DOMAIN reg'.bound = {c \in DOMAIN reg.bound : c # s /\ reg.bound[c].parent # s}
      /\ \A c \in DOMAIN reg'.bound : reg'.bound[c] = reg.bound[c]
      /\ DOMAIN reg'.inflight \subseteq DOMAIN reg.inflight
      /\ reg'.deleted = reg.deleted \cup {s}
  BY <1>1, <1>2, EvictIs
<1>4. WorkIsSettled' /\ MarkersAreOwn' /\ SettledStay /\ GrantsGrow /\ OverStays
  BY CallsStill
<1>5. /\ DOMAIN requests' \subseteq DOMAIN requests
      /\ \A c \in DOMAIN requests' : requests'[c] = requests[c]
  BY <1>1 DEF evictAuthority, Without, Restrict
<1>6. /\ DOMAIN lastCall' \subseteq DOMAIN lastCall
      /\ \A c \in DOMAIN lastCall' : lastCall'[c] = lastCall[c]
  BY <1>1 DEF Drop, Restrict
<1>7. AgentsAreNamed'
  <2>1. /\ DOMAIN records' \subseteq DOMAIN records
        /\ \A c \in DOMAIN records' : records'[c] = records[c]
    BY <1>1 DEF Restrict
  <2>2. RoleCalls' = RoleCalls
    BY DEF RoleCalls, IsRole
  <2> QED BY <2>1, <2>2 DEF GrantInv, AgentsAreNamed, RecordIsOf
<1>8. SlotsAreOwn' /\ BoundIsGranted' /\ BindsStand'
  BY <1>3, <1>4, SlotsStay, BoundStays, BindsStay DEF GrantInv
<1>9. RequestsStand'
  <2>1. ASSUME NEW c \in DOMAIN requests'
        PROVE  /\ c \in DOMAIN session' /\ RequestShape(requests'[c])
               /\ c \in DOMAIN reg'.bound \/ {c, session'[c].parent} \cap reg'.deleted # {}
    <3>1. /\ c \in DOMAIN session /\ RequestShape(requests[c])
          /\ c \in DOMAIN reg.bound \/ {c, session[c].parent} \cap reg.deleted # {}
      BY <1>5 DEF GrantInv, RequestsStand
    <3>2. CASE c \in DOMAIN reg.bound
      <4>1. reg.bound[c].parent = session[c].parent
        BY <3>2 DEF GrantInv, BoundIsGranted
      <4> QED BY <1>3, <1>5, <3>1, <3>2, <4>1
    <3>3. CASE {c, session[c].parent} \cap reg.deleted # {}
      BY <1>3, <1>5, <3>1, <3>3
    <3> QED BY <3>1, <3>2, <3>3
  <2> QED BY <2>1 DEF RequestsStand, RequestShape
<1>10. RequestsFade
  BY <1>3, <1>5 DEF RequestsFade
<1>11. PreviewsHold'
  BY <1>6, <1>10, PreviewsStill
<1> QED BY <1>4, <1>7, <1>8, <1>9, <1>11 DEF GrantInv

LEMMA DeliverGrants ==
  ASSUME StopInv, GrantInv, Deliver
  PROVE  GrantInv' /\ UseWithinGrant'
<1>1. PICK e : e = Head(events)
  OBVIOUS
<1>2. /\ events # <<>> /\ last' = Quiet /\ UNCHANGED <<sc, stage, work, session, auth, binds>>
      /\ \/ e.type = "created" /\ SessionCreated(e.id) /\ UNCHANGED <<reg, requests, lastCall>>
         \/ SessionDeleted(e.id) /\ UNCHANGED entries
  BY <1>1, Zenon DEF Deliver
<1>3. 1 \in DOMAIN events /\ e = events[1]
  BY <1>1, <1>2 DEF StopInv, HostIsSound
<1>4. CASE e.type = "created" /\ SessionCreated(e.id) /\ UNCHANGED <<reg, requests, lastCall>>
  <2>1. PICK c : c = e.id
    OBVIOUS
  <2>2. c \in DOMAIN session
    BY <1>3, <1>4, <2>1 DEF StopInv, HostIsSound
  <2>3. SessionCreated(c)
    BY <1>4, <2>1
  <2> QED BY <1>2, <1>4, <2>2, <2>3, CreatedGrants, NothingUsed
<1>5. CASE SessionDeleted(e.id) /\ UNCHANGED entries
  <2>1. PICK s : s = e.id
    OBVIOUS
  <2>2. SessionDeleted(s)
    BY <1>5, <2>1
  <2> QED BY <1>2, <1>5, <2>2, DeletedGrants, NothingUsed
<1> QED BY <1>2, <1>4, <1>5

-----------------------------------------------------------------------------
(* Grants: the whole. *)

LEMMA GrantInitial == Init => GrantInv /\ UseWithinGrant
<1> SUFFICES ASSUME Init PROVE GrantInv /\ UseWithinGrant
  OBVIOUS
<1>1. \A k \in DOMAIN sc.calls : stage[k] = "idle" /\ work[k] = NoWork
  BY DEF Init
<1>2. WorkIsSettled
  <2>1. WorkShape(NoWork) /\ NoWork.out = <<>>
    BY DEF WorkShape, NoWork
  <2> QED BY <1>1, <2>1 DEF Init, WorkIsSettled
<1>3. /\ DOMAIN session = {} /\ DOMAIN records = {} /\ DOMAIN entries = {} /\ DOMAIN requests = {}
      /\ DOMAIN lastCall = {} /\ DOMAIN auth = {} /\ binds = {} /\ reg = NewRegistry
  BY DEF Init
<1>4. /\ RegistryShape(reg) /\ DOMAIN reg.pending = {} /\ DOMAIN reg.bound = {}
      /\ DOMAIN reg.inflight = {}
  BY <1>3 DEF NewRegistry, RegistryShape
<1>5. AgentsAreNamed /\ SlotsAreOwn /\ MarkersAreOwn /\ BoundIsGranted
  BY <1>3, <1>4 DEF AgentsAreNamed, SlotsAreOwn, MarkersAreOwn, BoundIsGranted
<1>6. RequestsStand /\ PreviewsHold /\ BindsStand
  BY <1>1, <1>3 DEF RequestsStand, PreviewsHold, BindsStand, NonceBindsOnce
<1>7. UseWithinGrant
  BY DEF Init, UseWithinGrant, Quiet
<1> QED BY <1>2, <1>5, <1>6, <1>7 DEF GrantInv

LEMMA GrantStep ==
  StopInv /\ GrantInv /\ [Next]_vars => GrantInv' /\ (UseWithinGrant => UseWithinGrant')
<1> SUFFICES ASSUME StopInv, GrantInv, [Next]_vars
             PROVE  GrantInv' /\ (UseWithinGrant => UseWithinGrant')
  OBVIOUS
<1>1. DOMAIN stage = DOMAIN sc.calls
  BY DEF StopInv, HostIsSound
<1>2. ASSUME NEW k \in DOMAIN stage, Before(k) PROVE GrantInv' /\ UseWithinGrant'
  BY <1>1, <1>2, BeforeGrants
<1>3. ASSUME NEW k \in DOMAIN stage, RouteRefused(k) PROVE GrantInv' /\ UseWithinGrant'
  BY <1>1, <1>3, RouteRefusedGrants
<1>4. ASSUME NEW k \in DOMAIN stage, RouteStart(k) PROVE GrantInv' /\ UseWithinGrant'
  BY <1>1, <1>4, RouteStartGrants
<1>5. ASSUME NEW k \in DOMAIN stage, RouteDecide(k) PROVE GrantInv' /\ UseWithinGrant'
  BY <1>1, <1>5, RouteDecideGrants
<1>6. ASSUME NEW k \in DOMAIN stage, RouteDelegate(k) PROVE GrantInv' /\ UseWithinGrant'
  BY <1>1, <1>6, RouteDelegateGrants
<1>7. ASSUME NEW k \in DOMAIN stage, RouteTier(k) PROVE GrantInv' /\ UseWithinGrant'
  BY <1>1, <1>7, RouteTierGrants
<1>8. ASSUME NEW k \in DOMAIN stage, LegacyReject(k) PROVE GrantInv' /\ UseWithinGrant'
  BY <1>1, <1>8, LegacyRejectGrants
<1>9. ASSUME NEW k \in DOMAIN stage, Commit(k) PROVE GrantInv' /\ UseWithinGrant'
  BY <1>1, <1>9, CommitGrants
<1>10. ASSUME NEW k \in DOMAIN stage, HostCreate(k) PROVE GrantInv' /\ UseWithinGrant'
  BY <1>1, <1>10, HostCreateGrants
<1>11. ASSUME NEW k \in DOMAIN stage, HostResume(k) PROVE GrantInv' /\ UseWithinGrant'
  BY <1>1, <1>11, HostResumeGrants
<1>12. ASSUME NEW k \in DOMAIN stage, NoResult(k) PROVE GrantInv' /\ UseWithinGrant'
  BY <1>1, <1>12, NoResultGrants
<1>13. ASSUME NEW k \in DOMAIN stage, NEW escalated \in BOOLEAN, NEW claimed \in BOOLEAN,
              Return(k, escalated, claimed)
       PROVE  GrantInv' /\ UseWithinGrant'
  BY <1>1, <1>13, ReturnGrants
<1>14. ASSUME NEW k \in DOMAIN stage, NEW failed \in BOOLEAN, Finish(k, failed)
       PROVE  GrantInv' /\ UseWithinGrant'
  BY <1>1, <1>14, FinishGrants
<1>15. ASSUME NEW c \in Children, BindStart(c) \/ Request(c) \/ Fork(c)
       PROVE  GrantInv' /\ UseWithinGrant'
  BY <1>15, BindStartGrants, RequestGrants, ForkGrants
<1>16. ASSUME NEW c \in Children, NEW how \in {"ok", "noContext", "fail"}, BindEnd(c, how)
       PROVE  GrantInv' /\ UseWithinGrant'
  BY <1>16, BindEndGrants
<1>17. ASSUME NEW c \in Children, NEW act \in sc.acts, Act(c, act[1], act[2])
       PROVE  GrantInv' /\ UseWithinGrant'
  BY <1>17, ActGrants
<1>18. ASSUME NEW c \in Children, NEW i \in 1..sc.parallel, ActEnd(c, i)
       PROVE  GrantInv' /\ UseWithinGrant'
  BY <1>18, ActEndGrants
<1>19. ASSUME NEW s \in Children \cup sc.parents, Delete(s) PROVE GrantInv' /\ UseWithinGrant'
  BY <1>19, DeleteGrants
<1>20. CASE Deliver \/ ExpirePending \/ NextStep
  BY <1>20, DeliverGrants, ExpirePendingGrants, NextStepGrants
<1>21. CASE UNCHANGED vars
  <2>1. UNCHANGED <<sc, stage, work, reg, requests, records, entries, lastCall, session, auth, binds, last>>
    BY <1>21 DEF vars
  <2>2. GrantInv'
    BY <2>1, OthersGrant
  <2>3. UseWithinGrant => UseWithinGrant'
    BY <2>1 DEF UseWithinGrant
  <2> QED BY <2>2, <2>3
<1>22. CASE Next
  BY <1>2, <1>3, <1>4, <1>5, <1>6, <1>7, <1>8, <1>9, <1>10, <1>11, <1>12, <1>13, <1>14, <1>15,
     <1>16, <1>17, <1>18, <1>19, <1>20, <1>22, Zenon DEF Next
<1> QED BY <1>21, <1>22

\* In roles mode every tool call that is let through is one its own dispatch was granted, and a
\* nonce binds one session in its life (decideBinding, roleAuthorityDecision): whatever sessions
\* are forked, deleted or show a marker they were not given, whatever lookup fails, and whatever
\* a resume adds to the grant while others are on their way.
THEOREM GrantsHold == Spec => []GrantsRespected
<1>1. Init => StopInv /\ GrantInv /\ UseWithinGrant
  BY StopInitial, GrantInitial
<1>2. StopInv /\ GrantInv /\ UseWithinGrant /\ [Next]_vars => StopInv' /\ GrantInv' /\ UseWithinGrant'
  BY StopStep, GrantStep
<1>3. GrantInv /\ UseWithinGrant => GrantsRespected
  BY DEF GrantsRespected, GrantInv, BindsStand
<1> QED BY <1>1, <1>2, <1>3, PTL DEF Spec

-----------------------------------------------------------------------------
(* Records: whose a child's record is between and during its calls. *)

\* The calls on their way are of the running step.
StepIsOne ==
  /\ step \in DOMAIN sc.steps
  /\ \A k \in DOMAIN sc.calls : stage[k] \notin {"idle", "over"} => k \in sc.steps[step]

\* A session is deleted with its parent.
GoneTogether ==
  /\ gone # {} => "delete" \in sc.faults
  /\ \A c \in DOMAIN sc.calls \cap DOMAIN session :
       session[c].parent = sc.calls[c].parent /\ (sc.calls[c].parent \in gone => c \in gone)

\* A record that is dropped with its parent is that of a session that is deleted with it.
OfParent(record, c) ==
  /\ {"decision", "parent"} \subseteq DOMAIN record
  /\ "delete" \in sc.faults => record.parent = sc.calls[c].parent

RecordsAreNamed ==
  /\ \A c \in DOMAIN sc.calls \cap DOMAIN records : OfParent(records[c], c)
  /\ \A k \in DOMAIN entries :
       /\ k \in DOMAIN sc.calls /\ stage[k] \in {"sent", "running"}
       /\ OfParent(entries[k].input, k)
       /\ entries[k].input.decision = k /\ entries[k].input.parent = sc.calls[k].parent
       /\ entries[k].previous # <<>> => OfParent(Head(entries[k].previous), ChildOf(k))

\* While a resume with a record is on its way the record is its own, unless the child is gone.
ResumedAreNoted ==
  \A k \in DOMAIN entries : Resumes(k) /\ Live(ChildOf(k)) =>
    ChildOf(k) \in DOMAIN records /\ records[ChildOf(k)].decision = k

\* A child that returned has the record of that call, or of the resume that will restore it.
ReturnedAreKept ==
  \A c \in DOMAIN returned :
    /\ c \in DOMAIN sc.calls \cap DOMAIN records /\ stage[c] \in {"after", "over"}
    /\ \A k \in DOMAIN entries : ChildOf(k) = c =>
         /\ records[c].decision = k /\ entries[k].previous # <<>>
         /\ Head(entries[k].previous).decision = returned[c]
    /\ (\A k \in DOMAIN entries : ChildOf(k) # c) => records[c].decision = returned[c]

RecordInv == StepIsOne /\ GoneTogether /\ RecordsAreNamed /\ ResumedAreNoted /\ ReturnedAreKept

\* Of the calls on their way at most one is of a child.
LEMMA OneCallEach ==
  ASSUME ResumesApart, StopInv, RecordInv, NEW j \in DOMAIN sc.calls, NEW k \in DOMAIN sc.calls,
         stage[j] \notin {"idle", "over"}, stage[k] \notin {"idle", "over"}, ChildOf(j) = ChildOf(k)
  PROVE  j = k
<1>1. /\ sc \in Scenarios /\ step \in DOMAIN sc.steps
      /\ j \in sc.steps[step] /\ k \in sc.steps[step]
  BY DEF StopInv, HostIsSound, RecordInv, StepIsOne
<1>2. \A x, y \in sc.steps[step] :
        (IF sc.calls[x].child = None THEN x ELSE sc.calls[x].child)
          = (IF sc.calls[y].child = None THEN y ELSE sc.calls[y].child) => x = y
  BY <1>1, Zenon DEF ResumesApart
<1> QED BY <1>1, <1>2 DEF ChildOf

\* A call on its way stays so, and one that returned is not called again.
Onward ==
  \A j \in DOMAIN sc.calls :
    /\ stage[j] \in {"sent", "running"} => stage'[j] \in {"sent", "running"}
    /\ stage[j] \in {"after", "over"} => stage'[j] \in {"after", "over"}

LEMMA RecordsStay ==
  ASSUME RecordInv, UNCHANGED <<sc, records, entries, returned>>, StepIsOne', GoneTogether', Onward,
         \A k \in DOMAIN entries : Resumes(k) /\ Live(ChildOf(k))' => Live(ChildOf(k))
  PROVE  RecordInv'
<1>1. \A k \in DOMAIN sc.calls : ChildOf(k)' = ChildOf(k) /\ (Resumes(k)' <=> Resumes(k))
  BY DEF ChildOf, Resumes
<1>2. RecordsAreNamed'
  BY <1>1 DEF RecordInv, RecordsAreNamed, OfParent, Onward
<1>3. ResumedAreNoted'
  BY <1>1 DEF RecordInv, RecordsAreNamed, ResumedAreNoted
<1>4. ReturnedAreKept'
  BY <1>1 DEF RecordInv, RecordsAreNamed, ReturnedAreKept, Onward
<1> QED BY <1>2, <1>3, <1>4 DEF RecordInv

LEMMA TogetherStay ==
  ASSUME GoneTogether, UNCHANGED <<sc, session, gone>>
  PROVE  GoneTogether'
BY DEF GoneTogether

LEMMA StillRecords ==
  ASSUME RecordInv, UNCHANGED <<sc, step, stage, records, entries, returned, session, gone>>
  PROVE  RecordInv'
<1>1. StepIsOne' /\ GoneTogether' /\ Onward
  BY TogetherStay DEF RecordInv, StepIsOne, Onward
<1>2. \A k \in DOMAIN entries : Live(ChildOf(k))' => Live(ChildOf(k))
  BY DEF Live, ChildOf
<1> QED BY <1>1, <1>2, RecordsStay

\* A call that is not with the host moves on.
LEMMA RecordsPass ==
  ASSUME StopInv, RecordInv, NEW k \in DOMAIN sc.calls, NEW v,
         stage' = [stage EXCEPT ![k] = v], stage[k] \notin {"sent", "running", "over"},
         stage[k] = "after" => v = "over", v # "over" /\ stage[k] = "idle" => k \in sc.steps[step],
         UNCHANGED <<sc, step, records, entries, returned, session, gone>>
  PROVE  RecordInv'
<1>1. \A j \in DOMAIN sc.calls : stage'[j] = IF j = k THEN v ELSE stage[j]
  BY DEF StopInv, HostIsSound
<1>2. StepIsOne'
  BY <1>1 DEF RecordInv, StepIsOne
<1>3. Onward
  BY <1>1 DEF Onward
<1>4. \A j \in DOMAIN entries : Live(ChildOf(j))' => Live(ChildOf(j))
  BY DEF Live, ChildOf
<1>5. GoneTogether'
  BY TogetherStay DEF RecordInv
<1> QED BY <1>2, <1>3, <1>4, <1>5, RecordsStay

LEMMA HooksRecord ==
  ASSUME StopInv, RecordInv, NEW k \in DOMAIN sc.calls, NEW failed,
         Before(k) \/ RouteRefused(k) \/ RouteStart(k) \/ RouteDecide(k) \/ RouteDelegate(k)
           \/ RouteTier(k) \/ LegacyReject(k) \/ Finish(k, failed)
  PROVE  RecordInv'
<1>1. UNCHANGED <<sc, step, records, entries, returned, session, gone>>
  <2>1. CASE Before(k)
    BY <2>1, Zenon DEF Before, routed, host, history
  <2>2. CASE RouteRefused(k) \/ RouteStart(k)
    BY <2>2, Zenon DEF RouteRefused, RouteStart, routed, host, history
  <2>3. CASE RouteDecide(k)
    BY <2>3, Zenon DEF RouteDecide, host
  <2>4. CASE RouteDelegate(k)
    BY <2>4, Zenon DEF RouteDelegate, routed, host, history
  <2>5. CASE RouteTier(k)
    BY <2>5, Zenon DEF RouteTier, routed, host, history
  <2>6. CASE LegacyReject(k)
    BY <2>6, Zenon DEF LegacyReject, routed, host, history
  <2>7. CASE Finish(k, failed)
    BY <2>7, Zenon DEF Finish, host, history
  <2> QED BY <2>1, <2>2, <2>3, <2>4, <2>5, <2>6, <2>7
<1>2. \E v \in {"over", "routing", "classifying", "hooked"} :
        /\ stage' = [stage EXCEPT ![k] = v]
        /\ stage[k] \in {"routing", "classifying", "hooked"} \/ (stage[k] = "idle" /\ k \in sc.steps[step])
             \/ (stage[k] = "after" /\ v = "over")
  <2>1. CASE Before(k)
    BY <2>1, Zenon DEF Before
  <2>2. CASE RouteRefused(k) \/ RouteStart(k)
    BY <2>2, Zenon DEF RouteRefused, RouteStart
  <2>3. CASE RouteDecide(k)
    BY <2>3, Zenon DEF RouteDecide, Routed
  <2>4. CASE RouteDelegate(k)
    BY <2>4, Zenon DEF RouteDelegate
  <2>5. CASE RouteTier(k)
    BY <2>5, Zenon DEF RouteTier
  <2>6. CASE LegacyReject(k)
    BY <2>6, Zenon DEF LegacyReject
  <2>7. CASE Finish(k, failed)
    BY <2>7, Zenon DEF Finish
  <2> QED BY <2>1, <2>2, <2>3, <2>4, <2>5, <2>6, <2>7
<1>3. PICK v \in {"over", "routing", "classifying", "hooked"} :
        /\ stage' = [stage EXCEPT ![k] = v]
        /\ stage[k] \in {"routing", "classifying", "hooked"} \/ (stage[k] = "idle" /\ k \in sc.steps[step])
             \/ (stage[k] = "after" /\ v = "over")
  BY <1>2
<1> QED BY <1>1, <1>3, RecordsPass

LEMMA OthersRecord ==
  ASSUME RecordInv,
         \/ \E c \in Children : \/ BindStart(c) \/ Request(c)
                                \/ \E how \in {"ok", "noContext", "fail"} : BindEnd(c, how)
                                \/ \E act \in sc.acts : Act(c, act[1], act[2])
                                \/ \E i \in 1..sc.parallel : ActEnd(c, i)
         \/ ExpirePending
         \/ UNCHANGED vars
  PROVE  RecordInv'
<1>1. UNCHANGED <<sc, step, stage, records, entries, returned, session, gone>>
  <2>1. ASSUME NEW c, BindStart(c) \/ Request(c)
        PROVE  UNCHANGED <<sc, step, stage, records, entries, returned, session, gone>>
    BY <2>1, Zenon DEF BindStart, Request, routed, host, history
  <2>2. ASSUME NEW c, NEW how, BindEnd(c, how)
        PROVE  UNCHANGED <<sc, step, stage, records, entries, returned, session, gone>>
    BY <2>2, Zenon DEF BindEnd, routed, host
  <2>3. ASSUME NEW c, NEW action, NEW path, Act(c, action, path)
        PROVE  UNCHANGED <<sc, step, stage, records, entries, returned, session, gone>>
    BY <2>3, Zenon DEF Act, routed, host
  <2>4. ASSUME NEW c, NEW i, ActEnd(c, i)
        PROVE  UNCHANGED <<sc, step, stage, records, entries, returned, session, gone>>
    BY <2>4, Zenon DEF ActEnd, routed, host, history
  <2>5. ExpirePending => UNCHANGED <<sc, step, stage, records, entries, returned, session, gone>>
    BY Zenon DEF ExpirePending, routed, host, history
  <2>6. UNCHANGED vars => UNCHANGED <<sc, step, stage, records, entries, returned, session, gone>>
    BY DEF vars
  <2> QED BY <2>1, <2>2, <2>3, <2>4, <2>5, <2>6, Zenon
<1> QED BY <1>1, StillRecords

\* The next step begins when no call of this one is on its way.
LEMMA NextStepRecords ==
  ASSUME StopInv, RecordInv, ResumesApart, NextStep
  PROVE  RecordInv'
<1>1. /\ step < Len(sc.steps) /\ step' = step + 1 /\ \A k \in sc.steps[step] : stage[k] = "over"
      /\ UNCHANGED <<sc, stage, records, entries, returned, session, gone>>
  BY DEF NextStep, routed, host, history
<1>2. StepIsOne'
  <2>1. sc.steps \in Seq(SUBSET DOMAIN sc.calls)
    BY DEF ResumesApart, StopInv, HostIsSound
  <2>2. step + 1 \in DOMAIN sc.steps
    BY <1>1, <2>1 DEF RecordInv, StepIsOne
  <2> QED BY <1>1, <2>2 DEF RecordInv, StepIsOne
<1>3. GoneTogether' /\ Onward
  BY <1>1, TogetherStay DEF RecordInv, Onward
<1>4. \A k \in DOMAIN entries : Live(ChildOf(k))' => Live(ChildOf(k))
  BY <1>1 DEF Live, ChildOf
<1> QED BY <1>1, <1>2, <1>3, <1>4, RecordsStay

\* The host's side: a session begins, goes on, is forked or deleted.
LEMMA HostCreateRecords ==
  ASSUME StopInv, RecordInv, ResumesApart, NEW k \in DOMAIN sc.calls, HostCreate(k)
  PROVE  RecordInv'
<1>1. PICK s : /\ session' = Put(session, k, s) /\ s.parent = sc.calls[k].parent
               /\ stage[k] = "sent" /\ ~Resumes(k) /\ sc.calls[k].parent \notin gone
               /\ stage' = [stage EXCEPT ![k] = "running"]
               /\ UNCHANGED <<sc, step, records, entries, returned, gone>>
  BY DEF HostCreate, routed
<1>2. \A j \in DOMAIN sc.calls : stage'[j] = IF j = k THEN "running" ELSE stage[j]
  BY <1>1 DEF StopInv, HostIsSound
<1>3. StepIsOne' /\ Onward
  BY <1>1, <1>2 DEF RecordInv, StepIsOne, Onward
<1>4. DOMAIN session' = DOMAIN session \cup {k} /\ session'[k] = s
      /\ \A c \in DOMAIN session \ {k} : session'[c] = session[c]
  BY <1>1 DEF Put, remember
<1>5. GoneTogether'
  BY <1>1, <1>4 DEF RecordInv, GoneTogether
<1>6. ASSUME NEW j \in DOMAIN entries, Resumes(j), Live(ChildOf(j))' PROVE Live(ChildOf(j))
  <2>1. j \in DOMAIN sc.calls /\ stage[j] \in {"sent", "running"} /\ j # k
    BY <1>1, <1>6 DEF RecordInv, RecordsAreNamed
  <2>2. ChildOf(k) = k
    BY <1>1 DEF ChildOf, Resumes
  <2>3. ChildOf(j) # k
    BY <1>1, <2>1, <2>2, OneCallEach
  <2> QED BY <1>1, <1>4, <1>6, <2>3 DEF Live, ChildOf
<1> QED BY <1>1, <1>3, <1>5, <1>6, RecordsStay

LEMMA HostResumeRecords ==
  ASSUME StopInv, RecordInv, NEW k \in DOMAIN sc.calls, HostResume(k)
  PROVE  RecordInv'
<1>1. /\ stage[k] = "sent" /\ stage' = [stage EXCEPT ![k] = "running"]
      /\ UNCHANGED <<sc, step, records, entries, returned, gone>>
  BY DEF HostResume, routed, history
<1>2. PICK c, m, v, f, d : session' = [session EXCEPT ![c] =
                            [@ EXCEPT !.model = m, !.variant = v, !.facts = f, !.detection = d]]
  BY Zenon DEF HostResume
<1>3. /\ DOMAIN session' = DOMAIN session
      /\ \A x \in DOMAIN sc.calls \cap DOMAIN session : session'[x].parent = session[x].parent
  <2>1. PICK n : n = [session[c] EXCEPT !.model = m, !.variant = v, !.facts = f, !.detection = d]
    OBVIOUS
  <2>2. session' = [session EXCEPT ![c] = n]
    BY <1>2, <2>1
  <2>3. n.parent = session[c].parent \/ c \notin DOMAIN session
    <3>1. CASE c \in DOMAIN session
      <4>1. "parent" \in DOMAIN session[c]
        BY <3>1 DEF StopInv, HostIsSound, SessionShape
      <4> QED BY <2>1, <4>1
    <3> QED BY <3>1
  <2> QED BY <2>2, <2>3
<1>4. \A j \in DOMAIN sc.calls : stage'[j] = IF j = k THEN "running" ELSE stage[j]
  BY <1>1 DEF StopInv, HostIsSound
<1>5. StepIsOne' /\ Onward
  BY <1>1, <1>4 DEF RecordInv, StepIsOne, Onward
<1>6. GoneTogether'
  BY <1>1, <1>3 DEF RecordInv, GoneTogether
<1>7. \A j \in DOMAIN entries : Live(ChildOf(j))' => Live(ChildOf(j))
  BY <1>1, <1>3 DEF Live, ChildOf
<1> QED BY <1>1, <1>5, <1>6, <1>7, RecordsStay

LEMMA ForkRecords ==
  ASSUME StopInv, RecordInv, NEW c, Fork(c)
  PROVE  RecordInv'
<1>1. /\ session' = Put(session, "fork", session[c])
      /\ UNCHANGED <<sc, step, stage, records, entries, returned, gone>>
  BY Zenon DEF Fork, routed
<1>2. "fork" \notin DOMAIN sc.calls /\ \A k \in DOMAIN sc.calls : ChildOf(k) \in DOMAIN sc.calls
  BY ScenariosAssumption DEF StopInv, HostIsSound, ChildOf
<1>3. \A x \in DOMAIN sc.calls : (x \in DOMAIN session' <=> x \in DOMAIN session)
        /\ (x \in DOMAIN session => session'[x] = session[x])
  BY <1>1, <1>2 DEF Put, remember
<1>4. StepIsOne' /\ Onward
  BY <1>1 DEF RecordInv, StepIsOne, Onward
<1>5. GoneTogether'
  BY <1>1, <1>3 DEF RecordInv, GoneTogether
<1>6. \A k \in DOMAIN entries : Live(ChildOf(k))' => Live(ChildOf(k))
  BY <1>1, <1>2, <1>3 DEF Live, ChildOf, RecordInv, RecordsAreNamed
<1> QED BY <1>1, <1>4, <1>5, <1>6, RecordsStay

LEMMA DeleteRecords ==
  ASSUME StopInv, RecordInv, ResumesApart, NEW s, Delete(s)
  PROVE  RecordInv'
<1>1. PICK below : below = IF s \in DOMAIN session THEN {}
                           ELSE {c \in DOMAIN session \ gone : session[c].parent = s}
  OBVIOUS
<1>2. /\ gone' = gone \cup {s} \cup below /\ "delete" \in sc.faults
      /\ UNCHANGED <<sc, step, stage, records, entries, returned, session>>
  BY <1>1 DEF Delete, routed, history
<1>3. StepIsOne' /\ Onward
  BY <1>2 DEF RecordInv, StepIsOne, Onward
<1>4. GoneTogether'
  <2>1. ASSUME NEW c \in DOMAIN sc.calls \cap DOMAIN session, sc.calls[c].parent \in gone'
        PROVE  c \in gone'
    <3>1. sc.calls[c].parent \notin Children /\ DOMAIN session \subseteq Children
      BY <1>2, <2>1 DEF ResumesApart, StopInv, HostIsSound, Children
    <3>2. session[c].parent = sc.calls[c].parent
      BY <2>1 DEF RecordInv, GoneTogether
    <3>3. sc.calls[c].parent \notin below /\ (sc.calls[c].parent = s => s \notin DOMAIN session)
      BY <1>1, <3>1
    <3>4. CASE sc.calls[c].parent \in gone
      BY <1>2, <2>1, <3>4 DEF RecordInv, GoneTogether
    <3>5. CASE sc.calls[c].parent = s
      BY <1>1, <1>2, <2>1, <3>2, <3>3, <3>5
    <3> QED BY <1>2, <2>1, <3>3, <3>4, <3>5
  <2> QED BY <1>2, <2>1 DEF RecordInv, GoneTogether
<1>5. \A k \in DOMAIN entries : Live(ChildOf(k))' => Live(ChildOf(k))
  BY <1>2 DEF Live, ChildOf
<1> QED BY <1>2, <1>3, <1>4, <1>5, RecordsStay

-----------------------------------------------------------------------------
(* Records: the calls that write them. *)

\* A resume's record is the child's at once, and the one it replaced is kept with it.
LEMMA CommitRecords ==
  ASSUME StopInv, RecordInv, ResumesApart, NEW k \in DOMAIN sc.calls, Commit(k)
  PROVE  RecordInv'
<1>1. PICK c : c = ChildOf(k)
  OBVIOUS
<1>2. PICK out : out = Head(work[k].out)
  OBVIOUS
<1>3. PICK previous : previous = IF Resumes(k) THEN RecordOf(c) ELSE <<>>
  OBVIOUS
<1>4. PICK input, nr, state :
        /\ {"decision", "parent"} \subseteq DOMAIN input
        /\ input.decision = k /\ input.parent = sc.calls[k].parent
        /\ stage[k] = "hooked" /\ stage' = [stage EXCEPT ![k] = "sent"]
        /\ records' = IF Resumes(k) /\ out.recorded THEN Put(records, c, input) ELSE records
        /\ entries' = IF ~out.recorded THEN entries
                      ELSE Put(entries, k, [input |-> input, previous |-> previous,
                                            state |-> state, nr |-> nr])
        /\ UNCHANGED <<sc, step, session, gone, returned>>
  <2>1. PICK facts : facts = IF IsRole(k) /\ previous # <<>>
                             THEN [out.facts EXCEPT !.class = Head(previous).facts.class]
                             ELSE out.facts
    OBVIOUS
  <2>2. PICK input : input = [agent |-> out.agent, model |-> out.model, variant |-> out.variant,
                              tier |-> out.tier, facts |-> facts, parent |-> sc.calls[k].parent,
                              decision |-> k, picked |-> sc.calls[k].agent,
                              verification |-> out.verification]
    OBVIOUS
  <2>3. PICK state : state = IF Resumes(k) THEN "resumed" ELSE "waiting"
    OBVIOUS
  <2>4. PICK nr : nr = NextNr(Drop(entries, k))
    OBVIOUS
  <2>5. /\ stage[k] = "hooked" /\ stage' = [stage EXCEPT ![k] = "sent"]
        /\ UNCHANGED <<sc, step, session, gone, returned>>
    BY Zenon DEF Commit, host
  <2>6. records' = IF Resumes(k) /\ out.recorded THEN Put(records, c, input) ELSE records
    BY <1>1, <1>2, <1>3, <2>1, <2>2, Zenon DEF Commit
  <2>7. entries' = IF ~out.recorded THEN entries
                   ELSE Put(entries, k, [input |-> input, previous |-> previous,
                                         state |-> state, nr |-> nr])
    BY <1>1, <1>2, <1>3, <2>1, <2>2, <2>3, <2>4, Zenon DEF Commit
  <2>8. /\ {"decision", "parent"} \subseteq DOMAIN input
        /\ input.decision = k /\ input.parent = sc.calls[k].parent
    BY <2>2
  <2> QED BY <2>5, <2>6, <2>7, <2>8
<1>5. \A j \in DOMAIN sc.calls : stage'[j] = IF j = k THEN "sent" ELSE stage[j]
  BY <1>4 DEF StopInv, HostIsSound
<1>6. StepIsOne' /\ GoneTogether' /\ Onward
  BY <1>4, <1>5, TogetherStay DEF RecordInv, StepIsOne, Onward
<1>7. CASE ~out.recorded
  <2>1. UNCHANGED <<records, entries>>
    BY <1>4, <1>7
  <2>2. \A j \in DOMAIN entries : Live(ChildOf(j))' => Live(ChildOf(j))
    BY <1>4 DEF Live, ChildOf
  <2> QED BY <1>4, <1>6, <2>1, <2>2, RecordsStay
<1>8. CASE out.recorded
  <2>1. PICK entry : entry = [input |-> input, previous |-> previous, state |-> state, nr |-> nr]
    OBVIOUS
  <2>2. /\ DOMAIN entries' = DOMAIN entries \cup {k} /\ entries'[k] = entry
        /\ \A j \in DOMAIN entries \ {k} : entries'[j] = entries[j]
    BY <1>4, <1>8, <2>1 DEF Put, remember
  <2>3. /\ DOMAIN records' = DOMAIN records \cup (IF Resumes(k) THEN {c} ELSE {})
        /\ Resumes(k) => records'[c] = input
        /\ \A x \in DOMAIN records : x # c \/ ~Resumes(k) => records'[x] = records[x]
    BY <1>4, <1>8 DEF Put, remember
  <2>4. /\ \A j \in DOMAIN sc.calls : ChildOf(j)' = ChildOf(j) /\ (Resumes(j)' <=> Resumes(j))
        /\ \A x : Live(x)' <=> Live(x)
    BY <1>4 DEF ChildOf, Resumes, Live
  <2>5. ASSUME NEW j \in DOMAIN entries PROVE j \in DOMAIN sc.calls /\ j # k /\ ChildOf(j) # c
    <3>1. j \in DOMAIN sc.calls /\ stage[j] \in {"sent", "running"} /\ j # k
      BY <1>4, <2>5 DEF RecordInv, RecordsAreNamed
    <3> QED BY <1>1, <1>4, <3>1, OneCallEach
  <2>6. c \in DOMAIN sc.calls /\ (~Resumes(k) => c = k)
    BY <1>1, ScenariosAssumption DEF ChildOf, Resumes, StopInv, HostIsSound
  <2>7. OfParent(input, k) /\ OfParent(input, c)
    <3>1. "delete" \in sc.faults => sc.calls[k].parent = sc.calls[c].parent
      BY <1>1 DEF ResumesApart, ChildOf, StopInv, HostIsSound
    <3> QED BY <1>4, <3>1 DEF OfParent
  <2>8. RecordsAreNamed'
    <3>1. \A x \in DOMAIN sc.calls \cap DOMAIN records' : OfParent(records'[x], x)
      BY <2>3, <2>7 DEF RecordInv, RecordsAreNamed
    <3>2. entry.previous # <<>> => OfParent(Head(entry.previous), c)
      BY <1>3, <2>1, <2>6 DEF RecordInv, RecordsAreNamed, RecordOf
    <3>3. \A j \in DOMAIN entries' :
           /\ j \in DOMAIN sc.calls /\ stage'[j] \in {"sent", "running"}
           /\ OfParent(entries'[j].input, j)
           /\ entries'[j].input.decision = j /\ entries'[j].input.parent = sc.calls[j].parent
           /\ entries'[j].previous # <<>> => OfParent(Head(entries'[j].previous), ChildOf(j))
      <4>1. ASSUME NEW j \in DOMAIN entries
            PROVE  /\ j \in DOMAIN sc.calls /\ stage'[j] \in {"sent", "running"} /\ entries'[j] = entries[j]
                   /\ OfParent(entries[j].input, j)
                   /\ entries[j].input.decision = j /\ entries[j].input.parent = sc.calls[j].parent
                   /\ entries[j].previous # <<>> => OfParent(Head(entries[j].previous), ChildOf(j))
        BY <1>5, <2>2, <2>5 DEF RecordInv, RecordsAreNamed
      <4>2. entry.input = input
        BY <2>1
      <4> QED BY <1>1, <1>4, <1>5, <2>2, <2>7, <3>2, <4>1, <4>2
    <3> QED BY <1>4, <2>4, <3>1, <3>3 DEF RecordsAreNamed, OfParent
  <2>9. ResumedAreNoted'
    <3>1. ASSUME NEW j \in DOMAIN entries', Resumes(j), Live(ChildOf(j))
          PROVE  ChildOf(j) \in DOMAIN records' /\ records'[ChildOf(j)].decision = j
      <4>1. CASE j = k
        BY <1>1, <1>4, <2>3, <3>1, <4>1
      <4>2. CASE j # k
        BY <2>2, <2>3, <2>5, <3>1, <4>2 DEF RecordInv, ResumedAreNoted
      <4> QED BY <4>1, <4>2
    <3>2. DOMAIN entries' \subseteq DOMAIN sc.calls
      BY <2>2, <2>5
    <3> QED BY <2>4, <3>1, <3>2 DEF ResumedAreNoted
  <2>10. ReturnedAreKept'
    <3>1. ASSUME NEW x \in DOMAIN returned
          PROVE  /\ x \in DOMAIN sc.calls \cap DOMAIN records' /\ stage'[x] \in {"after", "over"}
                 /\ \A j \in DOMAIN entries' : ChildOf(j) = x =>
                      /\ records'[x].decision = j /\ entries'[j].previous # <<>>
                      /\ Head(entries'[j].previous).decision = returned[x]
                 /\ (\A j \in DOMAIN entries' : ChildOf(j) # x) => records'[x].decision = returned[x]
      <4>1. /\ x \in DOMAIN sc.calls \cap DOMAIN records /\ stage[x] \in {"after", "over"} /\ x # k
            /\ \A j \in DOMAIN entries : ChildOf(j) = x =>
                 /\ records[x].decision = j /\ entries[j].previous # <<>>
                 /\ Head(entries[j].previous).decision = returned[x]
            /\ (\A j \in DOMAIN entries : ChildOf(j) # x) => records[x].decision = returned[x]
        BY <1>4, <3>1 DEF RecordInv, ReturnedAreKept
      <4>2. CASE x = c
        <5>1. Resumes(k) /\ records[x].decision = returned[x] /\ records'[x].decision = k
          BY <1>4, <2>3, <2>5, <2>6, <4>1, <4>2
        <5>2. entry.previous = <<records[x]>>
          BY <1>3, <2>1, <4>1, <4>2, <5>1 DEF RecordOf
        <5>3. \A j \in DOMAIN entries' : ChildOf(j) = x => j = k
          BY <2>2, <2>5, <4>2
        <5>4. stage'[x] \in {"after", "over"} /\ x \in DOMAIN records'
          BY <1>5, <2>3, <4>1
        <5>5. entry.previous # <<>> /\ Head(entry.previous).decision = returned[x]
          BY <5>1, <5>2
        <5> QED BY <1>1, <2>2, <4>1, <4>2, <5>1, <5>3, <5>4, <5>5
      <4>3. CASE x # c
        <5>1. records'[x] = records[x] /\ x \in DOMAIN records'
          BY <2>3, <4>1, <4>3
        <5>2. \A j \in DOMAIN entries' : ChildOf(j) = x => j \in DOMAIN entries /\ entries'[j] = entries[j]
          BY <1>1, <2>2, <2>5, <4>3
        <5>3. (\A j \in DOMAIN entries' : ChildOf(j) # x) => \A j \in DOMAIN entries : ChildOf(j) # x
          BY <2>2
        <5>4. stage'[x] \in {"after", "over"}
          BY <1>5, <4>1
        <5> QED BY <4>1, <5>1, <5>2, <5>3, <5>4
      <4> QED BY <4>2, <4>3
    <3>2. DOMAIN entries' \subseteq DOMAIN sc.calls
      BY <2>2, <2>5
    <3> QED BY <1>4, <2>4, <3>1, <3>2 DEF ReturnedAreKept
  <2> QED BY <1>6, <2>8, <2>9, <2>10 DEF RecordInv
<1> QED BY <1>7, <1>8

\* Another baseline changes neither whose record it is nor which dispatch's.
LEMMA JudgedKeeps ==
  ASSUME NEW k, NEW recs, NEW r, r = Judged(k, recs)
  PROVE  /\ DOMAIN r = DOMAIN recs
         /\ \A x \in DOMAIN recs : {"decision", "parent"} \subseteq DOMAIN recs[x] =>
              /\ {"decision", "parent"} \subseteq DOMAIN r[x]
              /\ r[x].decision = recs[x].decision /\ r[x].parent = recs[x].parent
<1>1. PICK c : c = ChildOf(k)
  OBVIOUS
<1>2. CASE r # recs
  <2>1. PICK v : c \in DOMAIN recs /\ r = [recs EXCEPT ![c].verification = v]
    <3>1. c \in DOMAIN recs /\ \E v : r = [recs EXCEPT ![c].verification = v]
      BY <1>1, <1>2, Zenon DEF Judged
    <3> QED BY <3>1
  <2>2. PICK n : n = [recs[c] EXCEPT !.verification = v]
    OBVIOUS
  <2>3. /\ DOMAIN r = DOMAIN recs /\ r[c] = n
        /\ \A x \in DOMAIN recs : x # c => r[x] = recs[x]
    BY <2>1, <2>2
  <2>4. {"decision", "parent"} \subseteq DOMAIN recs[c] =>
          /\ {"decision", "parent"} \subseteq DOMAIN n
          /\ n.decision = recs[c].decision /\ n.parent = recs[c].parent
    BY <2>2
  <2> QED BY <2>3, <2>4
<1> QED BY <1>2

\* A call is over: its entry goes, and only its own child's record may have changed.
LEMMA CallOver ==
  ASSUME StopInv, RecordInv, ResumesApart, NEW k \in DOMAIN sc.calls, stage[k] \in {"sent", "running"},
         NEW v \in {"after", "over"}, stage' = [stage EXCEPT ![k] = v], entries' = Drop(entries, k),
         NEW c, c = ChildOf(k),
         \A x \in DOMAIN records \ {c} : x \in DOMAIN records' /\ records'[x] = records[x],
         DOMAIN records' \subseteq DOMAIN records \cup {c},
         c \in DOMAIN records' => OfParent(records'[c], c),
         \A x \in DOMAIN returned \ {c} : x \in DOMAIN returned' /\ returned'[x] = returned[x],
         DOMAIN returned' \subseteq DOMAIN returned \cup {c},
         c \in DOMAIN returned' => /\ c \in DOMAIN records' /\ stage'[c] \in {"after", "over"}
                                   /\ records'[c].decision = returned'[c],
         UNCHANGED <<sc, step, session, gone>>
  PROVE  RecordInv'
<1>1. \A j \in DOMAIN sc.calls : stage'[j] = IF j = k THEN v ELSE stage[j]
  BY DEF StopInv, HostIsSound
<1>2. StepIsOne' /\ GoneTogether'
  BY <1>1, TogetherStay DEF RecordInv, StepIsOne
<1>3. /\ DOMAIN entries' = DOMAIN entries \ {k}
      /\ \A j \in DOMAIN entries' : entries'[j] = entries[j]
  BY DEF Drop, Restrict
<1>4. ASSUME NEW j \in DOMAIN entries'
      PROVE  j \in DOMAIN sc.calls /\ j \in DOMAIN entries /\ j # k /\ ChildOf(j) # c
  <2>1. j \in DOMAIN entries /\ j # k
    BY <1>3
  <2>2. j \in DOMAIN sc.calls /\ stage[j] \in {"sent", "running"}
    BY <2>1 DEF RecordInv, RecordsAreNamed
  <2> QED BY <2>1, <2>2, OneCallEach
<1>5. /\ \A j \in DOMAIN sc.calls : ChildOf(j)' = ChildOf(j) /\ (Resumes(j)' <=> Resumes(j))
      /\ \A x : Live(x)' <=> Live(x)
  BY DEF ChildOf, Resumes, Live
<1>6. RecordsAreNamed'
  <2>1. \A x \in DOMAIN sc.calls \cap DOMAIN records' : OfParent(records'[x], x)
    BY DEF RecordInv, RecordsAreNamed
  <2>2. \A j \in DOMAIN entries' :
          /\ j \in DOMAIN sc.calls /\ stage'[j] \in {"sent", "running"}
          /\ OfParent(entries'[j].input, j)
          /\ entries'[j].input.decision = j /\ entries'[j].input.parent = sc.calls[j].parent
          /\ entries'[j].previous # <<>> => OfParent(Head(entries'[j].previous), ChildOf(j))
    BY <1>1, <1>3, <1>4 DEF RecordInv, RecordsAreNamed
  <2> QED BY <1>5, <2>1, <2>2 DEF RecordsAreNamed, OfParent
<1>7. ResumedAreNoted'
  <2>1. ASSUME NEW j \in DOMAIN entries', Resumes(j), Live(ChildOf(j))
        PROVE  ChildOf(j) \in DOMAIN records' /\ records'[ChildOf(j)].decision = j
    BY <1>4, <2>1 DEF RecordInv, ResumedAreNoted
  <2> QED BY <1>4, <1>5, <2>1 DEF ResumedAreNoted
<1>8. ReturnedAreKept'
  <2>1. ASSUME NEW x \in DOMAIN returned'
        PROVE  /\ x \in DOMAIN sc.calls \cap DOMAIN records' /\ stage'[x] \in {"after", "over"}
               /\ \A j \in DOMAIN entries' : ChildOf(j) = x =>
                    /\ records'[x].decision = j /\ entries'[j].previous # <<>>
                    /\ Head(entries'[j].previous).decision = returned'[x]
               /\ (\A j \in DOMAIN entries' : ChildOf(j) # x) => records'[x].decision = returned'[x]
    <3>1. CASE x = c
      <4>1. c \in DOMAIN sc.calls
        BY ScenariosAssumption DEF ChildOf, StopInv, HostIsSound
      <4> QED BY <1>4, <2>1, <3>1, <4>1
    <3>2. CASE x # c
      <4>1. /\ x \in DOMAIN sc.calls \cap DOMAIN records /\ stage[x] \in {"after", "over"} /\ x # k
            /\ returned'[x] = returned[x] /\ records'[x] = records[x] /\ x \in DOMAIN records'
            /\ \A j \in DOMAIN entries : ChildOf(j) = x =>
                 /\ records[x].decision = j /\ entries[j].previous # <<>>
                 /\ Head(entries[j].previous).decision = returned[x]
            /\ (\A j \in DOMAIN entries : ChildOf(j) # x) => records[x].decision = returned[x]
        BY <2>1, <3>2 DEF RecordInv, ReturnedAreKept
      <4>2. (\A j \in DOMAIN entries' : ChildOf(j) # x) => \A j \in DOMAIN entries : ChildOf(j) # x
        BY <1>3, <3>2
      <4> QED BY <1>1, <1>3, <4>1, <4>2
    <3> QED BY <3>1, <3>2
  <2> QED BY <1>4, <1>5, <2>1 DEF ReturnedAreKept
<1> QED BY <1>2, <1>6, <1>7, <1>8 DEF RecordInv

\* A child that returned is not that of a fresh call on its way.
LEMMA ReturnedResumes ==
  ASSUME RecordInv, NEW k \in DOMAIN sc.calls, stage[k] \in {"sent", "running"},
         ChildOf(k) \in DOMAIN returned
  PROVE  Resumes(k)
BY DEF RecordInv, ReturnedAreKept, ChildOf, Resumes

\* What a resume without a result replaced comes back.
LEMMA NoResultRecords ==
  ASSUME StopInv, RecordInv, ResumesApart, NEW k \in DOMAIN sc.calls, NoResult(k)
  PROVE  RecordInv'
<1>1. PICK c : c = ChildOf(k)
  OBVIOUS
<1>2. /\ stage[k] \in {"sent", "running"} /\ stage' = [stage EXCEPT ![k] = "over"]
      /\ records' = undoResume(k) /\ entries' = Drop(entries, k)
      /\ UNCHANGED <<sc, step, session, gone, returned>>
  BY DEF NoResult, EntriesWithout, host, history
<1>3. /\ \A x \in DOMAIN records \ {c} : x \in DOMAIN records' /\ records'[x] = records[x]
      /\ DOMAIN records' \subseteq DOMAIN records \cup {c}
  BY <1>1, <1>2 DEF undoResume, Drop, Restrict, Put, remember
<1>4. c \in DOMAIN sc.calls
  BY <1>1, ScenariosAssumption DEF ChildOf, StopInv, HostIsSound
<1>5. c \in DOMAIN records' => OfParent(records'[c], c)
  <2>1. c \in DOMAIN records' =>
          \/ c \in DOMAIN records /\ records'[c] = records[c]
          \/ k \in DOMAIN entries /\ entries[k].previous # <<>> /\ records'[c] = Head(entries[k].previous)
    BY <1>1, <1>2 DEF undoResume, Drop, Restrict, Put, remember
  <2> QED BY <1>1, <1>4, <2>1 DEF RecordInv, RecordsAreNamed
<1>6. ASSUME c \in DOMAIN returned
      PROVE  /\ c \in DOMAIN records' /\ stage'[c] \in {"after", "over"}
             /\ records'[c].decision = returned[c]
  <2>1. /\ Resumes(k) /\ c # k /\ c \in DOMAIN records /\ stage[c] \in {"after", "over"}
        /\ k \in DOMAIN entries =>
             /\ records[c].decision = k /\ entries[k].previous # <<>>
             /\ Head(entries[k].previous).decision = returned[c]
        /\ (\A j \in DOMAIN entries : ChildOf(j) # c) => records[c].decision = returned[c]
    BY <1>1, <1>2, <1>6, ReturnedResumes DEF RecordInv, ReturnedAreKept
  <2>2. stage'[c] \in {"after", "over"}
    BY <1>2, <2>1 DEF StopInv, HostIsSound
  <2>3. CASE k \in DOMAIN entries
    <3>1. records' = Put(records, c, Head(entries[k].previous))
      BY <1>1, <1>2, <2>1, <2>3 DEF undoResume
    <3> QED BY <2>1, <2>2, <2>3, <3>1 DEF Put, remember
  <2>4. CASE k \notin DOMAIN entries
    <3>1. records' = records
      BY <1>2, <2>4 DEF undoResume
    <3>2. \A j \in DOMAIN entries : ChildOf(j) # c
      <4>1. ASSUME NEW j \in DOMAIN entries, ChildOf(j) = c PROVE FALSE
        <5>1. j \in DOMAIN sc.calls /\ stage[j] \in {"sent", "running"} /\ j # k
          BY <2>4, <4>1 DEF RecordInv, RecordsAreNamed
        <5> QED BY <1>1, <1>2, <4>1, <5>1, OneCallEach
      <4> QED BY <4>1
    <3> QED BY <2>1, <2>2, <3>1, <3>2
  <2> QED BY <2>3, <2>4
<1> QED BY <1>1, <1>2, <1>3, <1>5, <1>6, CallOver

\* A result settles whose record it is, whoever had claimed the child.
LEMMA ReturnRecords ==
  ASSUME StopInv, RecordInv, ResumesApart, NEW k \in DOMAIN sc.calls, NEW escalated, NEW claimed,
         Return(k, escalated, claimed)
  PROVE  RecordInv'
<1>1. PICK c : c = ChildOf(k)
  OBVIOUS
<1>2. PICK recs : recs = ResultRecord(k)
  OBVIOUS
<1>3. /\ stage[k] = "running" /\ stage' = [stage EXCEPT ![k] = "after"]
      /\ records' = Judged(k, recs) /\ entries' = Drop(entries, k)
      /\ returned' = IF k \in DOMAIN entries THEN Put(returned, c, k) ELSE returned
      /\ UNCHANGED <<sc, step, session, gone>>
  BY <1>1, <1>2, Zenon DEF Return, EntriesWithout, host
<1>4. c \in DOMAIN sc.calls /\ c \in DOMAIN session \ gone
  BY <1>1, <1>3, ScenariosAssumption DEF ChildOf, StopInv, HostIsSound, Live
<1>5. /\ \A x \in DOMAIN records \ {c} : x \in DOMAIN recs /\ recs[x] = records[x]
      /\ DOMAIN recs \subseteq DOMAIN records \cup {c}
  BY <1>1, <1>2 DEF ResultRecord, Put, remember
<1>6. c \in DOMAIN recs => OfParent(recs[c], c)
  <2>1. c \in DOMAIN recs =>
          \/ c \in DOMAIN records /\ recs[c] = records[c]
          \/ k \in DOMAIN entries /\ ~Resumes(k) /\ recs[c] = entries[k].input
    BY <1>1, <1>2 DEF ResultRecord, Put, remember
  <2>2. ~Resumes(k) => c = k
    BY <1>1 DEF ChildOf, Resumes
  <2> QED BY <1>4, <2>1, <2>2 DEF RecordInv, RecordsAreNamed
<1>7. k \in DOMAIN entries => c \in DOMAIN recs /\ recs[c].decision = k
  <2>1. CASE Resumes(k)
    <3>1. recs = records
      BY <1>2, <2>1 DEF ResultRecord
    <3> QED BY <1>1, <1>4, <2>1, <3>1 DEF RecordInv, ResumedAreNoted, Live
  <2>2. CASE ~Resumes(k) /\ k \in DOMAIN entries
    <3>1. \/ recs = Put(records, c, entries[k].input)
          \/ recs = records /\ c \in DOMAIN records /\ records[c].decision = k
      BY <1>1, <1>2, <2>2 DEF ResultRecord
    <3>2. entries[k].input.decision = k
      BY <2>2 DEF RecordInv, RecordsAreNamed
    <3> QED BY <3>1, <3>2 DEF Put, remember
  <2> QED BY <2>1, <2>2
<1>8. /\ DOMAIN records' = DOMAIN recs
      /\ \A x \in DOMAIN recs : {"decision", "parent"} \subseteq DOMAIN recs[x] =>
           /\ {"decision", "parent"} \subseteq DOMAIN records'[x]
           /\ records'[x].decision = recs[x].decision /\ records'[x].parent = recs[x].parent
  BY <1>3, JudgedKeeps
<1>9. c \in DOMAIN records' => OfParent(records'[c], c) /\ records'[c].decision = recs[c].decision
  BY <1>6, <1>8 DEF OfParent
<1>10. \A x \in DOMAIN records \ {c} : x \in DOMAIN records' /\ records'[x] = records[x]
  <2>1. \A x : x # c /\ x \in DOMAIN recs => records'[x] = recs[x]
    <3>1. records' = recs \/ \E w : records' = [recs EXCEPT ![c].verification = w]
      BY <1>1, <1>3, Zenon DEF Judged
    <3>2. CASE records' = recs
      BY <3>2
    <3>3. CASE records' # recs
      <4>1. PICK w : records' = [recs EXCEPT ![c].verification = w]
        BY <3>1, <3>3
      <4>2. PICK n : n = [recs[c] EXCEPT !.verification = w]
        OBVIOUS
      <4>3. records' = [recs EXCEPT ![c] = n]
        BY <4>1, <4>2
      <4> QED BY <4>3
    <3> QED BY <3>2, <3>3
  <2> QED BY <1>5, <1>8, <2>1
<1>11. /\ \A x \in DOMAIN returned \ {c} : x \in DOMAIN returned' /\ returned'[x] = returned[x]
       /\ DOMAIN returned' \subseteq DOMAIN returned \cup {c}
  BY <1>3 DEF Put, remember
<1>12. ASSUME c \in DOMAIN returned'
       PROVE  /\ c \in DOMAIN records' /\ stage'[c] \in {"after", "over"}
              /\ records'[c].decision = returned'[c]
  <2>1. stage'[c] \in {"after", "over"}
    <3>1. \A j \in DOMAIN sc.calls : stage'[j] = IF j = k THEN "after" ELSE stage[j]
      BY <1>3 DEF StopInv, HostIsSound
    <3>2. CASE c = k
      BY <1>4, <3>1, <3>2
    <3>3. CASE c # k
      <4>1. ~Resumes(c) /\ stage[c] \in {"running", "after", "over"}
        BY <1>4 DEF StopInv, HostIsSound
      <4>2. ChildOf(c) = c
        BY <4>1 DEF ChildOf, Resumes
      <4>3. stage[c] # "running"
        BY <1>1, <1>3, <1>4, <3>3, <4>2, OneCallEach
      <4> QED BY <1>4, <3>1, <3>3, <4>1, <4>3
    <3> QED BY <3>2, <3>3
  <2>2. CASE k \in DOMAIN entries
    <3>1. returned'[c] = k
      BY <1>3, <2>2 DEF Put, remember
    <3> QED BY <1>7, <1>8, <1>9, <2>1, <2>2, <3>1
  <2>3. CASE k \notin DOMAIN entries
    <3>1. recs = records /\ returned' = returned
      BY <1>2, <1>3, <2>3 DEF ResultRecord
    <3>2. \A j \in DOMAIN entries : ChildOf(j) # c
      <4>1. ASSUME NEW j \in DOMAIN entries, ChildOf(j) = c PROVE FALSE
        <5>1. j \in DOMAIN sc.calls /\ stage[j] \in {"sent", "running"} /\ j # k
          BY <2>3, <4>1 DEF RecordInv, RecordsAreNamed
        <5> QED BY <1>1, <1>3, <4>1, <5>1, OneCallEach
      <4> QED BY <4>1
    <3>3. c \in DOMAIN records /\ records[c].decision = returned[c]
      BY <1>12, <3>1, <3>2 DEF RecordInv, ReturnedAreKept
    <3> QED BY <1>8, <1>9, <2>1, <3>1, <3>3
  <2> QED BY <2>2, <2>3
<1>13. DOMAIN records' \subseteq DOMAIN records \cup {c}
  BY <1>5, <1>8
<1> QED BY <1>1, <1>3, <1>9, <1>10, <1>11, <1>12, <1>13, CallOver

\* A child that no record names is claimed for a dispatch of its own parent.
LEMMA CreatedRecords ==
  ASSUME StopInv, RecordInv, NEW c \in DOMAIN session, SessionCreated(c),
         UNCHANGED <<sc, step, stage, session, gone, returned>>
  PROVE  RecordInv'
<1>1. CASE UNCHANGED <<records, entries>>
  BY <1>1, StillRecords
<1>2. CASE ~UNCHANGED <<records, entries>>
  <2>1. PICK k : /\ k \in DOMAIN entries /\ entries[k].input.parent = session[c].parent
                 /\ c \notin DOMAIN records
                 /\ entries' = [entries EXCEPT ![k].state = "claimed"]
                 /\ records' = Put(records, c, entries[k].input)
    <3>1. PICK waiting : waiting = {k \in DOMAIN entries : /\ entries[k].state = "waiting"
                                         /\ entries[k].input.parent = session[c].parent
                                         /\ entries[k].input.agent = session[c].agent}
      OBVIOUS
    <3>2. PICK claimed : claimed = IF session[c].title \in waiting THEN {session[c].title}
                                   ELSE Oldest(entries, waiting)
      OBVIOUS
    <3>3. /\ c \notin DOMAIN records
          /\ \E k \in claimed : /\ entries' = [entries EXCEPT ![k].state = "claimed"]
                                /\ records' = Put(records, c, entries[k].input)
      BY <1>2, <3>1, <3>2, Zenon DEF SessionCreated
    <3>4. claimed \subseteq waiting
      BY <3>2 DEF Oldest
    <3> QED BY <3>1, <3>3, <3>4
  <2>2. /\ DOMAIN entries' = DOMAIN entries
        /\ \A x \in DOMAIN entries :
             entries'[x].input = entries[x].input /\ entries'[x].previous = entries[x].previous
    BY <2>1
  <2>3. /\ DOMAIN records' = DOMAIN records \cup {c} /\ records'[c] = entries[k].input
        /\ \A x \in DOMAIN records : records'[x] = records[x]
    BY <2>1 DEF Put, remember
  <2>4. \A x \in DOMAIN sc.calls : ChildOf(x)' = ChildOf(x) /\ (Resumes(x)' <=> Resumes(x))
    BY DEF ChildOf, Resumes
  <2>5. \A x : Live(x)' <=> Live(x)
    BY DEF Live
  <2>6. StepIsOne' /\ GoneTogether'
    BY TogetherStay DEF RecordInv, StepIsOne
  <2>7. RecordsAreNamed'
    <3>1. c \in DOMAIN sc.calls => OfParent(records'[c], c)
      BY <2>1, <2>3 DEF RecordInv, RecordsAreNamed, GoneTogether, OfParent
    <3> QED BY <2>2, <2>3, <2>4, <3>1 DEF RecordInv, RecordsAreNamed, OfParent
  <2>8. ResumedAreNoted'
    BY <2>2, <2>3, <2>4, <2>5 DEF RecordInv, RecordsAreNamed, ResumedAreNoted
  <2>9. ReturnedAreKept'
    BY <2>2, <2>3, <2>4 DEF RecordInv, RecordsAreNamed, ReturnedAreKept
  <2> QED BY <2>6, <2>7, <2>8, <2>9 DEF RecordInv
<1> QED BY <1>1, <1>2

\* What is forgotten of a deleted session leaves the records of the living as they are.
LEMMA DeletedRecords ==
  ASSUME StopInv, RecordInv, NEW s \in gone, SessionDeleted(s),
         returned' = Restrict(returned, DOMAIN returned \cap DOMAIN records'),
         UNCHANGED <<sc, step, stage, entries, session, gone>>
  PROVE  RecordInv'
<1>1. records' = Restrict(records, {c \in DOMAIN records : c # s /\ records[c].parent # s})
  BY DEF SessionDeleted
<1>2. /\ DOMAIN records' = {c \in DOMAIN records : c # s /\ records[c].parent # s}
      /\ \A x \in DOMAIN records' : records'[x] = records[x]
  BY <1>1 DEF Restrict
<1>3. /\ DOMAIN returned' = DOMAIN returned \cap DOMAIN records'
      /\ \A x \in DOMAIN returned' : returned'[x] = returned[x]
  BY DEF Restrict
<1>4. \A x \in DOMAIN sc.calls : ChildOf(x)' = ChildOf(x) /\ (Resumes(x)' <=> Resumes(x))
  BY DEF ChildOf, Resumes
<1>5. StepIsOne' /\ GoneTogether'
  BY TogetherStay DEF RecordInv, StepIsOne
<1>6. RecordsAreNamed'
  BY <1>2, <1>4 DEF RecordInv, RecordsAreNamed, OfParent
<1>7. ResumedAreNoted'
  <2>1. ASSUME NEW k \in DOMAIN entries, Resumes(k), Live(ChildOf(k))
        PROVE  ChildOf(k) \in DOMAIN records' /\ records[ChildOf(k)].decision = k
    <3>1. PICK c : c = ChildOf(k)
      OBVIOUS
    <3>2. c \in DOMAIN records /\ records[c].decision = k /\ c \in DOMAIN session \ gone
      BY <2>1, <3>1 DEF RecordInv, ResumedAreNoted, Live
    <3>3. c \in DOMAIN sc.calls
      BY <2>1, <3>1, ScenariosAssumption DEF RecordInv, RecordsAreNamed, ChildOf, StopInv, HostIsSound
    <3>4. records[c].parent = sc.calls[c].parent
      BY <3>2, <3>3 DEF RecordInv, RecordsAreNamed, GoneTogether, OfParent
    <3>5. records[c].parent # s
      BY <3>2, <3>3, <3>4 DEF RecordInv, GoneTogether
    <3> QED BY <1>2, <3>1, <3>2, <3>5
  <2>2. \A k \in DOMAIN entries : k \in DOMAIN sc.calls /\ (Live(ChildOf(k))' <=> Live(ChildOf(k)))
    BY DEF RecordInv, RecordsAreNamed, Live, ChildOf
  <2> QED BY <1>2, <1>4, <2>1, <2>2 DEF ResumedAreNoted
<1>8. ReturnedAreKept'
  <2>1. \A k \in DOMAIN entries : ChildOf(k)' = ChildOf(k)
    BY <1>4 DEF RecordInv, RecordsAreNamed
  <2> SUFFICES ASSUME NEW c \in DOMAIN returned'
               PROVE  /\ c \in DOMAIN sc.calls \cap DOMAIN records' /\ stage[c] \in {"after", "over"}
                      /\ \A k \in DOMAIN entries : ChildOf(k)' = c =>
                           /\ records'[c].decision = k /\ entries[k].previous # <<>>
                           /\ Head(entries[k].previous).decision = returned'[c]
                      /\ (\A k \in DOMAIN entries : ChildOf(k)' # c) =>
                           records'[c].decision = returned'[c]
    BY Zenon DEF ReturnedAreKept
  <2>2. /\ c \in DOMAIN returned /\ c \in DOMAIN records'
        /\ records'[c] = records[c] /\ returned'[c] = returned[c]
    BY <1>2, <1>3
  <2>3. /\ c \in DOMAIN sc.calls /\ stage[c] \in {"after", "over"}
        /\ \A k \in DOMAIN entries : ChildOf(k) = c =>
             /\ records[c].decision = k /\ entries[k].previous # <<>>
             /\ Head(entries[k].previous).decision = returned[c]
        /\ (\A k \in DOMAIN entries : ChildOf(k) # c) => records[c].decision = returned[c]
    BY <2>2 DEF RecordInv, ReturnedAreKept
  <2> QED BY <2>1, <2>2, <2>3
<1> QED BY <1>5, <1>6, <1>7, <1>8 DEF RecordInv

LEMMA DeliverRecords ==
  ASSUME StopInv, RecordInv, Deliver
  PROVE  RecordInv'
<1>1. PICK e : e = Head(events)
  OBVIOUS
<1>2. /\ events # <<>> /\ UNCHANGED <<sc, step, stage, session, gone>>
      /\ \/ e.type = "created" /\ SessionCreated(e.id) /\ returned' = returned
         \/ /\ e.type # "created" /\ SessionDeleted(e.id) /\ UNCHANGED entries
            /\ returned' = Restrict(returned, DOMAIN returned \cap DOMAIN records')
  BY <1>1, Zenon DEF Deliver
<1>3. 1 \in DOMAIN events /\ e = events[1] /\ e \in Event
  BY <1>1, <1>2 DEF StopInv, HostIsSound
<1>4. CASE e.type = "created" /\ SessionCreated(e.id) /\ returned' = returned
  <2>1. PICK c : c = e.id
    OBVIOUS
  <2>2. c \in DOMAIN session
    BY <1>3, <1>4, <2>1 DEF StopInv, HostIsSound
  <2>3. SessionCreated(c)
    BY <1>4, <2>1
  <2> QED BY <1>2, <1>4, <2>2, <2>3, CreatedRecords
<1>5. CASE /\ e.type # "created" /\ SessionDeleted(e.id) /\ UNCHANGED entries
           /\ returned' = Restrict(returned, DOMAIN returned \cap DOMAIN records')
  <2>1. PICK s : s = e.id
    OBVIOUS
  <2>2. e.type = "deleted"
    BY <1>3, <1>5 DEF Event
  <2>3. s \in gone
    BY <1>3, <2>1, <2>2 DEF StopInv, HostIsSound
  <2>4. SessionDeleted(s)
    BY <1>5, <2>1
  <2> QED BY <1>2, <1>5, <2>3, <2>4, DeletedRecords
<1> QED BY <1>2, <1>4, <1>5

-----------------------------------------------------------------------------
(* Records: the whole. *)

LEMMA RecordInitial == Init /\ ResumesApart => RecordInv
<1> SUFFICES ASSUME Init, ResumesApart PROVE RecordInv
  OBVIOUS
<1>1. /\ DOMAIN session = {} /\ DOMAIN records = {} /\ DOMAIN entries = {} /\ DOMAIN returned = {}
      /\ gone = {} /\ step = 1 /\ sc \in Scenarios /\ \A k \in DOMAIN sc.calls : stage[k] = "idle"
  BY DEF Init
<1>2. step \in DOMAIN sc.steps
  <2>1. sc.steps \in Seq(SUBSET DOMAIN sc.calls) /\ sc.steps # <<>>
    BY <1>1 DEF ResumesApart
  <2> QED BY <1>1, <2>1
<1>3. StepIsOne /\ GoneTogether
  BY <1>1, <1>2 DEF StepIsOne, GoneTogether
<1>4. RecordsAreNamed /\ ResumedAreNoted /\ ReturnedAreKept
  BY <1>1 DEF RecordsAreNamed, ResumedAreNoted, ReturnedAreKept
<1> QED BY <1>3, <1>4 DEF RecordInv

LEMMA RecordStep == StopInv /\ RecordInv /\ ResumesApart /\ [Next]_vars => RecordInv'
<1> SUFFICES ASSUME StopInv, RecordInv, ResumesApart, [Next]_vars PROVE RecordInv'
  OBVIOUS
<1>1. DOMAIN stage = DOMAIN sc.calls
  BY DEF StopInv, HostIsSound
<1>2. ASSUME NEW k \in DOMAIN stage, Before(k) \/ RouteRefused(k) \/ RouteStart(k) \/ RouteDecide(k)
               \/ RouteDelegate(k) \/ RouteTier(k) \/ LegacyReject(k)
      PROVE  RecordInv'
  BY <1>1, <1>2, HooksRecord
<1>3. ASSUME NEW k \in DOMAIN stage, NEW failed \in BOOLEAN, Finish(k, failed) PROVE RecordInv'
  BY <1>1, <1>3, HooksRecord
<1>4. ASSUME NEW k \in DOMAIN stage, Commit(k) PROVE RecordInv'
  BY <1>1, <1>4, CommitRecords
<1>5. ASSUME NEW k \in DOMAIN stage, HostCreate(k) \/ HostResume(k) PROVE RecordInv'
  BY <1>1, <1>5, HostCreateRecords, HostResumeRecords
<1>6. ASSUME NEW k \in DOMAIN stage, NoResult(k) PROVE RecordInv'
  BY <1>1, <1>6, NoResultRecords
<1>7. ASSUME NEW k \in DOMAIN stage, NEW escalated \in BOOLEAN, NEW claimed \in BOOLEAN,
             Return(k, escalated, claimed)
      PROVE  RecordInv'
  BY <1>1, <1>7, ReturnRecords
<1>8. ASSUME NEW c \in Children, Fork(c) PROVE RecordInv'
  BY <1>8, ForkRecords
<1>9. ASSUME NEW s \in Children \cup sc.parents, Delete(s) PROVE RecordInv'
  BY <1>9, DeleteRecords
<1>10. CASE Deliver \/ NextStep
  BY <1>10, DeliverRecords, NextStepRecords
<1>11. CASE \/ \E c \in Children : \/ BindStart(c) \/ Request(c)
                                   \/ \E how \in {"ok", "noContext", "fail"} : BindEnd(c, how)
                                   \/ \E act \in sc.acts : Act(c, act[1], act[2])
                                   \/ \E i \in 1..sc.parallel : ActEnd(c, i)
            \/ ExpirePending
            \/ UNCHANGED vars
  BY <1>11, OthersRecord
<1> QED BY <1>2, <1>3, <1>4, <1>5, <1>6, <1>7, <1>8, <1>9, <1>10, <1>11, Zenon DEF Next

\* Where the calls of a step resume different children, and a deleted parent's children are
\* resumed by nobody else, the record of a child that some call returned is between calls that
\* of the last call that did (onCallResult, undoResume, onSessionCreated): whatever dispatch
\* claimed the child first, and whatever resume the host rejected or aborted since.
THEOREM RecordsFollow == ResumesApart => (Spec => []RecordFollowsChild)
<1>1. Init /\ ResumesApart => StopInv /\ RecordInv
  BY StopInitial, RecordInitial
<1>2. StopInv /\ RecordInv /\ ResumesApart /\ [Next]_vars => StopInv' /\ RecordInv'
  BY StopStep, RecordStep
<1>3. StopInv /\ RecordInv => RecordFollowsChild
  <2> SUFFICES ASSUME StopInv, RecordInv, NEW c \in DOMAIN returned,
                      \A k \in DOMAIN stage : ChildOf(k) = c => stage[k] \in {"idle", "after", "over"}
               PROVE  c \in DOMAIN records /\ records[c].decision = returned[c]
    BY DEF RecordFollowsChild
  <2>1. \A k \in DOMAIN entries : k \in DOMAIN stage /\ stage[k] \in {"sent", "running"}
    BY DEF RecordInv, RecordsAreNamed, StopInv, HostIsSound
  <2>2. \A k \in DOMAIN entries : ChildOf(k) # c
    BY <2>1
  <2> QED BY <2>2 DEF RecordInv, ReturnedAreKept
<1>4. ResumesApart => []ResumesApart
  OBVIOUS
<1> QED BY <1>1, <1>2, <1>3, <1>4, PTL DEF Spec

=============================================================================
