--------------------------------- MODULE Roles ---------------------------------
(***************************************************************************)
(* The life of a dispatch in roles mode: the hooks of                      *)
(* src/compat/v2-hooks.ts, the dispatch router of                          *)
(* src/routing/wire/dispatch.ts, the grant registry of                     *)
(* src/routing/roles/binding.ts, the authority requests of authority.ts,   *)
(* the dispatch records of src/router/sessions.ts and the tool-call guard, *)
(* with the host between them.                                             *)
(*                                                                         *)
(* A scenario `sc` fixes the configuration, the calls the orchestrators    *)
(* make (in steps: the calls of a step run in parallel, the next step      *)
(* begins when they are over), the faults that may happen and how many     *)
(* tool calls a guarded session may make in all (most).  The child         *)
(* of a fresh call has the call's name, which also stands for its nonce    *)
(* and its decision.  A call is [parent, agent, child (None: fresh, else   *)
(* the child it resumes), delegate, root, facts, claimed, line, block,     *)
(* claim, deferred, cwdInside, judged, pinTier, model, variant, pin,       *)
(* routeBudget, markers].  The host is told the truth; what it does is     *)
(* marked "Host".                                                          *)
(***************************************************************************)
EXTENDS DispatchRules, RoleBinding, Guards

CONSTANT Scenarios

\* A scenario makes finitely many calls, and a resume is of the child of one of them, under
\* the agent it was dispatched to; budgets are numbers (0: none).
ASSUME ScenariosAssumption ==
  \A s \in Scenarios :
    /\ IsFiniteSet(DOMAIN s.calls) /\ {"fork", None, NoOne} \cap DOMAIN s.calls = {}
    /\ \A k \in DOMAIN s.calls :
         /\ s.calls[k].child \in DOMAIN s.calls \cup {None}
         /\ s.calls[k].child # None => s.calls[k].agent = s.calls[s.calls[k].child].agent
         /\ s.calls[k].routeBudget \in Nat
    /\ \A r \in DOMAIN s.roles : s.roles[r].budget \in [DOMAIN s.roles[r].budget -> Nat]
    /\ s.directory # None

VARIABLES
  sc,        \* the scenario
  step,      \* the running step of the scenario
  stage,     \* call -> idle, routing, classifying, hooked, sent, running, after, over
  work,      \* call -> what its hooks have found out so far
  reg,       \* the grant registry
  requests,  \* the authority requests
  records,   \* child -> its dispatch record
  entries,   \* call -> [input, previous, state, nr], the committed dispatches not finished yet
  raises,    \* child -> the tier its next resume is raised to
  lastCall,  \* child -> the last call that returned it
  session,   \* Host: the sessions
  gone,      \* Host: the deleted sessions
  events,    \* Host: the session events not delivered yet
  guard,     \* child -> [g, noted, peak]: guard state, the noted [tier, asked] of its last
             \* routed resume (a sequence of none or one), largest budget so far
  calls,     \* child -> its tool calls in flight
  auth,      \* history: child -> what its dispatches were granted
  binds,     \* history: the <<nonce, session>> pairs ever bound exactly
  returned,  \* history: child -> the last call that returned it with a record
  halted,    \* history: the children a stop guard refused a call in the running attempt
  last       \* history: the last tool call allowed or budget notice given

vars == <<sc, step, stage, work, reg, requests, records, entries, raises, lastCall, session, gone,
          events, guard, calls, auth, binds, returned, halted, last>>

routed == <<records, entries, raises, lastCall>>
host == <<session, gone, events>>
history == <<auth, binds, returned, halted>>

-----------------------------------------------------------------------------
(* Names                                                                   *)

ChildOf(k) == IF sc.calls[k].child = None THEN k ELSE sc.calls[k].child
Resumes(k) == sc.calls[k].child # None
IsRole(k) == sc.calls[k].agent \in DOMAIN sc.roles
RoleOf(c) ==
  sc.roles[IF c \in DOMAIN records THEN records[c].agent ELSE session[c].agent]
Children == DOMAIN sc.calls \cup {"fork"}

NoGuard == [g |-> NoState, noted |-> <<>>, peak |-> 0]

Quiet == [kind |-> "none", who |-> None, action |-> None, path |-> <<>>, notice |-> FALSE,
          claimed |-> FALSE]

Put(map, key, value) == remember(map, key, value)
Drop(map, key) == Restrict(map, DOMAIN map \ {key})
RecordOf(c) == IF c \in DOMAIN records THEN <<records[c]>> ELSE <<>>

\* currentBinding: the cached binding under the maximum of its role as it is now.
currentBinding(c) ==
  IF c \in DOMAIN reg.bound THEN <<view(reg.bound[c], roleMax(sc.roles[reg.bound[c].agent]))>>
  ELSE <<>>

IsExact(bound) == bound # <<>> /\ (\A i \in DOMAIN bound : bound[i].kind = "exact")

-----------------------------------------------------------------------------
NoWork == [preview |-> {}, after |-> "none", afterCall |-> NoOne, bound |-> <<>>, root |-> None,
           out |-> <<>>, escalated |-> FALSE]
Init ==
  /\ sc \in Scenarios
  /\ step = 1
  /\ stage = [k \in DOMAIN sc.calls |-> "idle"]
  /\ work = [k \in DOMAIN sc.calls |-> NoWork]
  /\ reg = NewRegistry
  /\ requests = <<>> /\ records = <<>> /\ entries = <<>> /\ raises = <<>> /\ lastCall = <<>>
  /\ session = <<>> /\ gone = {} /\ events = <<>>
  /\ guard = [c \in Children |-> NoGuard]
  /\ calls = [c \in Children |-> <<>>]
  /\ auth = <<>> /\ binds = {} /\ returned = <<>> /\ halted = {}
  /\ last = Quiet

Live(c) == c \in DOMAIN session \ gone

-----------------------------------------------------------------------------
(* execute.before of a dispatch                                            *)

\* The authority request of a resumed role child is previewed; it is consumed only after the
\* call was routed.  An orchestrator resumes only a child it has seen.
Before(k) ==
  LET c == ChildOf(k)
      p == sc.calls[k].parent
      after == IF c \in DOMAIN lastCall THEN lastCall[c] ELSE NoOne
      status == resumeCheck(requests, reg, c, RoleOf(c), p, after, TRUE)
  IN  /\ stage[k] = "idle" /\ k \in sc.steps[step] /\ p \notin gone
      /\ IF Resumes(k) /\ ~Live(c)
         THEN stage' = [stage EXCEPT ![k] = "over"] /\ UNCHANGED work
         ELSE /\ stage' = [stage EXCEPT ![k] = "routing"]
              /\ work' = [work EXCEPT ![k] =
                   IF ~Resumes(k) \/ ~IsRole(k) THEN @
                   ELSE [@ EXCEPT !.afterCall = after,
                           !.preview = IF status = "widened"
                                       THEN previewAuthority(requests, reg, c, RoleOf(c)) ELSE {},
                           !.after = CASE status = "none" -> "none"
                                       [] status = "bindingUnknown" -> "evict"
                                       [] OTHER -> "consume"]]
      /\ last' = Quiet
      /\ UNCHANGED <<sc, step, reg, requests, guard, calls>>
      /\ UNCHANGED routed /\ UNCHANGED host /\ UNCHANGED history

\* A malformed route line, an unavailable session, a failing classifier: the call is refused
\* before anything was recorded.
RouteRefused(k) ==
  /\ "refuse" \in sc.faults
  /\ stage[k] \in {"routing", "classifying"}
  /\ stage' = [stage EXCEPT ![k] = "over"]
  /\ last' = Quiet
  /\ UNCHANGED <<sc, step, work, reg, requests, guard, calls>>
  /\ UNCHANGED routed /\ UNCHANGED host /\ UNCHANGED history

\* decideRoleDispatch up to its classifier call: the work root, and the child's binding as
\* it is now.
RouteStart(k) ==
  LET spec == sc.calls[k]
  IN  /\ stage[k] = "routing" /\ IsRole(k) /\ ~spec.delegate
      /\ stage' = [stage EXCEPT ![k] = "classifying"]
      /\ work' = [work EXCEPT ![k].root = resolveRoleWorkRoot(spec.root, sc.directory, sc.git, sc.real),
                              ![k].bound = IF Resumes(k) THEN currentBinding(ChildOf(k)) ELSE <<>>]
      /\ last' = Quiet
      /\ UNCHANGED <<sc, step, reg, requests, guard, calls>>
      /\ UNCHANGED routed /\ UNCHANGED host /\ UNCHANGED history

\* A resume that brings no acceptance block keeps the one of the dispatch it resumes.
Carried(k) ==
  IF Resumes(k) /\ sc.calls[k].block = "none" /\ ChildOf(k) \in DOMAIN records
  THEN records[ChildOf(k)].verification ELSE <<>>

VerificationOf(k) ==
  LET spec == sc.calls[k]
      carried == Carried(k)
  IN  IF spec.block # "none" THEN <<[block |-> spec.block, claim |-> spec.claim, baseline |-> "missing"]>>
      ELSE IF carried = <<>> THEN <<>>
      ELSE <<[Head(carried) EXCEPT !.claim = IF spec.claim # None THEN spec.claim ELSE @]>>

\* How the work of this dispatch will be checked.
DetectionFor(k, grant) ==
  LET spec == sc.calls[k]
      carried == Carried(k)
      block == IF carried = <<>> THEN spec.block ELSE Head(carried).block
      claim == IF spec.claim # None \/ carried = <<>> THEN spec.claim ELSE Head(carried).claim
      deferred == IF carried = <<>> THEN spec.deferred
                  ELSE Head(carried).baseline # "kept" /\ Head(carried).block = "checks"
      acceptance == detectionOf(block)
      verifyRoot == IF grant.root # None THEN grant.root ELSE sc.directory
      gate == roleRouterGate(sc.gate, roleGateOutsideWorkRoot(grant.root, spec.cwdInside),
                             deferred, acceptance)
  IN  effectiveDetection(roleVerificationRuns(sc.gate, roleGateOutsideWorkRoot(verifyRoot, spec.cwdInside)),
                         gate, claim, acceptance)

\* runningRungOf: the rung of the child's record, else the one its session runs on.
RunningRung(c) ==
  IF c \in DOMAIN records
  THEN [tier |-> records[c].tier, model |-> records[c].model, variant |-> records[c].variant]
  ELSE [tier |-> None, model |-> session[c].model, variant |-> session[c].variant]

PendingRaise(k) ==
  LET c == ChildOf(k)
      mine == {x \in DOMAIN raises \cap {c} : raises[x].parent = sc.calls[k].parent /\ Resumes(k)}
  IN  IF mine = {} THEN None ELSE raises[c].tier

TaskFacts(k) ==
  LET spec == sc.calls[k]
      needs == roleNeedsOf(spec.facts, spec.line, sc.roles[spec.agent])
      own == effectiveFacts([spec.facts EXCEPT !.needs = needs], spec.claimed)
      original == IF Resumes(k) THEN RecordOf(ChildOf(k)) ELSE <<>>
  IN  IF original = <<>> THEN own ELSE resumeFactsOf(Head(original).facts, own)

GrantOf(k, facts) ==
  LET w == work[k]
  IN  IF IsExact(w.bound) THEN resumedGrant(Head(w.bound).grant, w.preview)
      ELSE grantFor(sc.roles[sc.calls[k].agent], facts.needs, w.preview, w.root)

RunningOf(k) ==
  IF Resumes(k) THEN RunningRung(ChildOf(k)) ELSE [tier |-> None, model |-> NO_MODEL, variant |-> 0]

\* The window of the dispatch: from the highest floor anybody asks for up to the ceiling.
WindowOf(k, facts, grant, detection) ==
  tierBounds(sc.roles[sc.calls[k].agent], grant, facts, detection,
             higherTier(roleTierOrder(sc.cfg), sc.cfg.floorTier, PendingRaise(k)),
             RunningOf(k).tier, sc.calls[k].pinTier, roleTierOrder(sc.cfg))

\* Where candidate i ends up: under the caller's model, in the host's catalog.
Placed(k, bounds, ladder, i) ==
  LET spec == sc.calls[k]
  IN  placeInCatalog(ladder,
        IF spec.model = NO_MODEL \/ bounds.pinned # None THEN ladder.candidates[i]
        ELSE placeCallerModel(ladder, [model |-> spec.model, variant |-> spec.variant],
                              ladder.candidates[i], Resumes(k)),
        sc.missing)

\* The rest of decideRoleDispatch: the rungs it may come to, each as a sequence of one; the
\* empty sequence is a refusal.
RoleRungs(k, facts, detection, bounds, ladder) ==
  IF ladder.candidates = <<>> THEN {<<>>}
  ELSE {Placed(k, bounds, ladder, i) :
          i \in decideRole([ladder |-> ladder, facts |-> facts, resume |-> RunningOf(k),
                            detection |-> detection, routing |-> sc.routing, store |-> sc.store])}

RoleOutcome(k, rung, facts, grant, detection) ==
  [agent |-> sc.calls[k].agent, model |-> rung.model, variant |-> rung.variant, tier |-> rung.tier,
   grant |-> grant, facts |-> facts, detection |-> detection, nonce |-> ~Resumes(k),
   recorded |-> TRUE, verification |-> VerificationOf(k)]

\* A routed role call: the raise is used up, and afterRoute consumes the authority request.
Routed(k, out) ==
  LET c == ChildOf(k)
      w == work[k]
  IN  /\ stage' = [stage EXCEPT ![k] = "hooked"]
      /\ work' = [work EXCEPT ![k].out = <<out>>]
      /\ raises' = IF PendingRaise(k) = None THEN raises ELSE Drop(raises, c)
      /\ \E consumed \in {IF w.after = "consume"
                          THEN consumeAuthority(requests, reg, c, RoleOf(c), sc.calls[k].parent, w.afterCall)
                          ELSE [requests |-> IF w.after = "evict" THEN evictAuthority(requests, c)
                                             ELSE requests,
                                reg |-> reg]} :
           requests' = consumed.requests /\ reg' = consumed.reg
      /\ auth' = IF c \in DOMAIN auth THEN [auth EXCEPT ![c].actions = @ \cup w.preview] ELSE auth

RouteDecide(k) ==
  /\ stage[k] = "classifying"
  /\ last' = Quiet
  /\ \E facts \in {TaskFacts(k)} : \E grant \in {GrantOf(k, facts)} :
     \E detection \in {DetectionFor(k, grant)} :
     \E bounds \in {WindowOf(k, facts, grant, detection)} :
     \E ladder \in {buildRoleLadder(sc.cfg, sc.calls[k].agent, facts.class, facts.needs, bounds)} :
     \E rung \in RoleRungs(k, facts, detection, bounds, ladder) :
       IF rung = <<>>
       THEN /\ stage' = [stage EXCEPT ![k] = "over"]
            /\ UNCHANGED <<work, reg, requests, raises, auth>>
       ELSE Routed(k, RoleOutcome(k, Head(rung), facts, grant, detection))
  /\ UNCHANGED <<sc, step, records, entries, lastCall, guard, calls, binds, returned, halted>>
  /\ UNCHANGED host

\* decideDelegateRoleDispatch: a subagent's own role dispatch reads only, on the window's
\* floor; it gets no nonce, no record and no widening.
DelegateFacts ==
  [class |-> "other", risk |-> "low", scope |-> "single", needs |-> {}, confidence |-> 0]

DelegateLadder(k, grant) ==
  LET order == roleTierOrder(sc.cfg)
      agent == sc.calls[k].agent
  IN  buildRoleLadder(sc.cfg, agent, "other", {},
        [tierBounds(sc.roles[agent], grant, DelegateFacts, "none", sc.cfg.floorTier, None, None, order)
           EXCEPT !.pinned = None])

RouteDelegate(k) ==
  LET agent == sc.calls[k].agent
      grant == [actions |-> LOCAL_ACTIONS \cap roleMax(sc.roles[agent]), root |-> None]
  IN  /\ stage[k] = "routing" /\ IsRole(k) /\ sc.calls[k].delegate
      /\ \E ladder \in {DelegateLadder(k, grant)} :
         \E first \in {roleCandidateAt(ladder.candidates, ladder.floorRank)} :
         \E placed \in {IF first = 0 THEN <<>>
                        ELSE placeInCatalog(ladder, ladder.candidates[first], sc.missing)} :
           IF placed = <<>>
           THEN stage' = [stage EXCEPT ![k] = "over"] /\ UNCHANGED work
           ELSE /\ stage' = [stage EXCEPT ![k] = "hooked"]
                /\ work' = [work EXCEPT ![k].out =
                     <<[agent |-> agent, model |-> placed[1].model, variant |-> placed[1].variant,
                        tier |-> placed[1].tier, grant |-> grant, facts |-> DelegateFacts,
                        detection |-> "none", nonce |-> FALSE, recorded |-> FALSE,
                        verification |-> <<>>]>>]
      /\ last' = Quiet
      /\ UNCHANGED <<sc, step, reg, requests, guard, calls>>
      /\ UNCHANGED routed /\ UNCHANGED host /\ UNCHANGED history

\* A call that names a tier or a host agent.
RouteTier(k) ==
  LET spec == sc.calls[k]
      mine == IF Resumes(k) THEN SelectSeq(RecordOf(ChildOf(k)), LAMBDA r : r.parent = spec.parent)
              ELSE <<>>
      facts == effectiveFacts(spec.facts, spec.claimed)
      detection == detectionOf(spec.block)
  IN  /\ stage[k] = "routing" /\ ~IsRole(k)
      /\ stage' = [stage EXCEPT ![k] = "hooked"]
      /\ \E to \in {decideAndRecord(sc.cfg, spec, facts, detection, sc.routing, sc.store, mine,
                                    sc.parentModel)} :
           work' = [work EXCEPT ![k].out =
             <<[agent |-> to.agent, model |-> to.model, variant |-> to.variant,
                tier |-> IF to.agent \in DOMAIN sc.cfg.tiers THEN to.agent ELSE None,
                grant |-> [actions |-> {}, root |-> None], facts |-> facts, detection |-> detection,
                nonce |-> FALSE, recorded |-> to.model # NO_MODEL /\ sc.routing.engine # "static",
                verification |-> <<>>]>>]
      /\ last' = Quiet
      /\ UNCHANGED <<sc, step, reg, requests, guard, calls>>
      /\ UNCHANGED routed /\ UNCHANGED host /\ UNCHANGED history

\* The depth guard or the prompt check rejects the call: onCallFinished, with nothing
\* committed yet.
LegacyReject(k) ==
  /\ "reject" \in sc.faults
  /\ stage[k] = "hooked"
  /\ stage' = [stage EXCEPT ![k] = "over"]
  /\ last' = Quiet
  /\ UNCHANGED <<sc, step, work, reg, requests, guard, calls>>
  /\ UNCHANGED routed /\ UNCHANGED host /\ UNCHANGED history

\* The budget= of the attempt the guard knows of: the last routed resume, else the call the
\* child is exactly bound to.
RouteBudget(c) ==
  IF guard[c].noted # <<>> THEN Head(guard[c].noted).asked
  ELSE IF IsExact(currentBinding(c)) /\ c \in DOMAIN work THEN sc.calls[c].routeBudget ELSE 0

\* noteRoleDispatch and commit: a fresh role call waits for its child under its nonce, a
\* resume replaces the child's record at once.
Commit(k) ==
  LET spec == sc.calls[k]
      out == Head(work[k].out)
      c == ChildOf(k)
      previous == IF Resumes(k) THEN RecordOf(c) ELSE <<>>
      facts == IF IsRole(k) /\ previous # <<>>
               THEN [out.facts EXCEPT !.class = Head(previous).facts.class] ELSE out.facts
      input == [agent |-> out.agent, model |-> out.model, variant |-> out.variant, tier |-> out.tier,
                facts |-> facts, parent |-> spec.parent, decision |-> k, picked |-> spec.agent,
                verification |-> out.verification]
  IN  /\ stage[k] = "hooked"
      /\ stage' = [stage EXCEPT ![k] = "sent"]
      /\ guard' = IF IsRole(k) /\ Resumes(k)
                  THEN [guard EXCEPT ![c] =
                          [g |-> beginDispatch(@.g), peak |-> @.peak,
                           noted |-> <<[tier |-> out.tier,
                                        asked |-> IF spec.routeBudget > 0 THEN spec.routeBudget
                                                  ELSE RouteBudget(c)]>>]]
                  ELSE guard
      /\ halted' = IF IsRole(k) THEN halted \ {c} ELSE halted
      /\ reg' = IF out.nonce
                THEN registerPending(reg, k, [parent |-> spec.parent, agent |-> out.agent, nonce |-> k,
                                              grant |-> out.grant])
                ELSE reg
      /\ records' = IF Resumes(k) /\ out.recorded THEN Put(records, c, input) ELSE records
      /\ entries' = IF ~out.recorded THEN entries
                    ELSE Put(entries, k, [input |-> input, previous |-> previous,
                                          state |-> IF Resumes(k) THEN "resumed" ELSE "waiting",
                                          nr |-> NextNr(Drop(entries, k))])
      /\ last' = Quiet
      /\ UNCHANGED <<sc, step, work, requests, raises, lastCall, calls, auth, binds, returned>>
      /\ UNCHANGED host

-----------------------------------------------------------------------------
(* The host, and its session events                                        *)

\* Host: the child of a fresh call starts.  Another plugin may have rewritten the title or
\* the prompt, and with it the nonce.
HostCreate(k) ==
  LET out == Head(work[k].out)
      spec == sc.calls[k]
      marker(m) == IF m \in spec.markers THEN k ELSE None
  IN  /\ stage[k] = "sent" /\ ~Resumes(k) /\ spec.parent \notin gone
      /\ stage' = [stage EXCEPT ![k] = "running"]
      /\ session' = Put(session, k,
           [parent |-> spec.parent, agent |-> out.agent, model |-> out.model, variant |-> out.variant,
            title |-> marker("title"), prompt |-> IF out.nonce THEN marker("prompt") ELSE None,
            facts |-> <<out.facts>>, detection |-> out.detection])
      /\ events' = Append(events, [type |-> "created", id |-> k])
      /\ auth' = Put(auth, k, out.grant)
      /\ last' = Quiet
      /\ UNCHANGED <<sc, step, work, reg, requests, gone, guard, calls, binds, returned, halted>>
      /\ UNCHANGED routed

\* Host: the child of a resume runs again, on the rung it was sent to.
HostResume(k) ==
  LET out == Head(work[k].out)
      c == ChildOf(k)
  IN  /\ stage[k] = "sent" /\ Resumes(k) /\ Live(c)
      /\ stage' = [stage EXCEPT ![k] = "running"]
      /\ session' = [session EXCEPT ![c] = [@ EXCEPT !.model = out.model, !.variant = out.variant,
                                                     !.facts = <<out.facts>>, !.detection = out.detection]]
      /\ last' = Quiet
      /\ UNCHANGED <<sc, step, work, reg, requests, gone, events, guard, calls>>
      /\ UNCHANGED routed /\ UNCHANGED history

\* onSessionCreated: a child without a record is claimed by the waiting dispatch of its
\* parent and agent whose description is its title, else by the oldest one.
SessionCreated(c) ==
  LET s == session[c]
      waiting == {k \in DOMAIN entries : /\ entries[k].state = "waiting"
                                         /\ entries[k].input.parent = s.parent
                                         /\ entries[k].input.agent = s.agent}
      claimed == IF s.title \in waiting THEN {s.title} ELSE Oldest(entries, waiting)
  IN  IF c \in DOMAIN records \/ claimed = {} THEN UNCHANGED <<records, entries>>
      ELSE \E k \in claimed :
             /\ entries' = [entries EXCEPT ![k].state = "claimed"]
             /\ records' = Put(records, c, entries[k].input)

\* What the plugin forgets of a deleted session.
SessionDeleted(s) ==
  /\ reg' = evict(reg, s)
  /\ requests' = evictAuthority(requests, s)
  /\ lastCall' = Drop(lastCall, s)
  /\ records' = Restrict(records, {c \in DOMAIN records : c # s /\ records[c].parent # s})
  /\ guard' = IF s \in Children THEN [guard EXCEPT ![s] = NoGuard] ELSE guard

\* The event loop takes the next event.
Deliver ==
  LET e == Head(events)
  IN  /\ events # <<>>
      /\ events' = Tail(events)
      /\ IF e.type = "created"
         THEN SessionCreated(e.id) /\ UNCHANGED <<reg, requests, lastCall, guard>>
         ELSE SessionDeleted(e.id) /\ UNCHANGED entries
      /\ returned' = IF e.type = "created" THEN returned
                     ELSE Restrict(returned, DOMAIN returned \cap DOMAIN records')
      /\ last' = Quiet
      /\ UNCHANGED <<sc, step, stage, work, raises, session, gone, calls, auth, binds, halted>>

Runs(c) == \E k \in DOMAIN stage : ChildOf(k) = c /\ stage[k] = "running"

\* Host: a session is deleted, with its children when it is a parent.
Delete(s) ==
  LET below == IF s \in DOMAIN session THEN {}
               ELSE {c \in DOMAIN session \ gone : session[c].parent = s}
  IN  /\ "delete" \in sc.faults
      /\ s \in (DOMAIN session \cup (sc.parents \ Children)) \ gone
      /\ \A c \in below \cup {s} : ~Runs(c)
      /\ gone' = gone \cup {s} \cup below
      /\ events' = events \o SetToSeq({[type |-> "deleted", id |-> c] : c \in below \cup {s}})
      /\ last' = Quiet
      /\ UNCHANGED <<sc, step, stage, work, reg, requests, session, guard, calls>>
      /\ UNCHANGED routed /\ UNCHANGED history

\* Host: the user forks a child; the copy keeps the markers.
Fork(c) ==
  /\ "fork" \in sc.faults
  /\ Live(c) /\ c # "fork" /\ "fork" \notin DOMAIN session
  /\ session' = Put(session, "fork", session[c])
  /\ auth' = Put(auth, "fork", auth[c])
  /\ events' = Append(events, [type |-> "created", id |-> "fork"])
  /\ last' = Quiet
  /\ UNCHANGED <<sc, step, stage, work, reg, requests, gone, guard, calls, binds, returned, halted>>
  /\ UNCHANGED routed

\* A pending dispatch outlives its time-to-live, or the registry its size.
ExpirePending ==
  /\ "expire" \in sc.faults
  /\ \E k \in Oldest(reg.pending, DOMAIN reg.pending) : reg' = evictCall(reg, k)
  /\ last' = Quiet
  /\ UNCHANGED <<sc, step, stage, work, requests, guard, calls>>
  /\ UNCHANGED routed /\ UNCHANGED host /\ UNCHANGED history

-----------------------------------------------------------------------------
(* The child at work                                                       *)

AtWork(c) == /\ Live(c) /\ session[c].agent \in DOMAIN sc.roles
             /\ Runs(c) \/ c = "fork"

\* bind: the first tool call of a child looks its session up.
BindStart(c) ==
  /\ AtWork(c) /\ c \notin DOMAIN reg.bound \cup DOMAIN reg.inflight
  /\ reg' = [reg EXCEPT !.inflight = Put(@, c, "bind")]
  /\ last' = Quiet
  /\ UNCHANGED <<sc, step, stage, work, requests, guard, calls>>
  /\ UNCHANGED routed /\ UNCHANGED host /\ UNCHANGED history

\* The lookup answers: in full, without the first prompt, or not at all (then the one call
\* that asked reads only, and nothing is cached).
BindEnd(c, how) ==
  LET seen == IF how = "noContext" THEN [session[c] EXCEPT !.prompt = None] ELSE session[c]
      d == IF how = "fail" THEN [reg |-> reg, binding |-> unknown(None, None)]
           ELSE decideBinding(reg, c, seen)
  IN  /\ c \in DOMAIN reg.inflight
      /\ how \in {"ok", "noContext", "fail"} \cap ({"ok"} \cup sc.faults)
      /\ reg' = settleBind(d.reg, c, "bind", d.binding, how # "fail")
      /\ binds' = IF d.binding.kind = "exact" THEN binds \cup {<<NonceOf(seen), c>>} ELSE binds
      /\ last' = Quiet
      /\ UNCHANGED <<sc, step, stage, work, requests, guard, calls, auth, returned, halted>>
      /\ UNCHANGED routed /\ UNCHANGED host

\* The work root of a binding, as a path; the session's directory when it has none.
RootPath(grant) == sc.rootPath[IF grant.root = None THEN sc.directory ELSE grant.root]

\* roleAuthorityDecision, and for an external directory that its root is still a worktree.
Authorized(c, action, path) ==
  LET b == Head(currentBinding(c))
      target == canonicalAuthorityPath(path, sc.exist, sc.links)
      inside == target # <<>> /\ insideWorkRoot(target, RootPath(b.grant))
  IN  CASE action = "external" ->
             /\ b.kind = "exact" /\ b.grant.root # None /\ "read" \in b.grant.actions /\ inside
             /\ b.grant.root \in {sc.directory} \cup listedWorktrees(sc.git)
        [] action = "read" -> "read" \in b.grant.actions /\ inside
        [] action = "edit" -> /\ "edit" \in b.grant.actions /\ b.grant.root # None /\ inside
                              /\ ~Contains(path, ".git") /\ ~Contains(target, ".git")
        [] action \in {"run", "web"} -> action \in b.grant.actions
        [] OTHER -> FALSE

\* roleGuardProfileOf: the noted tier, the tier of the exactly bound call, the recorded one,
\* the role's floor; the cumulative budget never shrinks.
GuardTier(c) ==
  IF guard[c].noted # <<>> THEN Head(guard[c].noted).tier
  ELSE IF IsExact(currentBinding(c)) /\ c \in DOMAIN work THEN Head(work[c].out).tier
  ELSE IF c \in DOMAIN records THEN records[c].tier ELSE sc.roles[session[c].agent].floor

GuardPolicy(c) ==
  LET profile == roleGuardProfile(sc.roles[session[c].agent], GuardTier(c), RouteBudget(c))
      peak == Greater(guard[c].peak, profile.budget)
  IN  [policy |-> buildGuardPolicy(sc.guard, [profile EXCEPT !.cumulative =
                    Greater(@, peak * GUARD_CUMULATIVE_MULTIPLIER)]),
       peak |-> peak]

GuardCall(action, path) ==
  [kind |-> CASE action = "read" -> "read" [] action = "edit" -> "mutation" [] OTHER -> "other",
   fp |-> path]

\* The authority check, then the guard; a refusal of the first counts with the guard.
Guarded(c, mode, call, policy, ok) ==
  IF ok THEN guardBeforeCall(guard[c].g, mode, call, policy)
  ELSE [state |-> guardRefusedCall(guard[c].g, mode, policy), guard |-> "authority"]

\* A tool call of a bound child.
Act(c, action, path) ==
  LET mode == callMode(sc.guard, FALSE)
      call == GuardCall(action, path)
  IN  /\ AtWork(c) /\ c \in DOMAIN reg.bound /\ Len(calls[c]) < sc.parallel
      /\ guard[c].g.total + deniedThisDispatch(guard[c].g) + Len(calls[c]) < sc.most
      /\ \E p \in {GuardPolicy(c)} :
         \E g \in {Guarded(c, mode, call, p.policy, Authorized(c, action, path))} :
           /\ guard' = IF mode = "off" THEN guard
                       ELSE [guard EXCEPT ![c] = [@ EXCEPT !.g = g.state, !.peak = p.peak]]
           /\ halted' = IF g.guard # "none" /\ g.state.stopped = g.state.dispatches
                        THEN halted \cup {c} ELSE halted
           /\ calls' = IF g.guard = "none" /\ mode # "off" THEN [calls EXCEPT ![c] = Append(@, call)]
                       ELSE calls
           /\ last' = IF g.guard # "none" THEN Quiet
                      ELSE [Quiet EXCEPT !.kind = "act", !.who = c, !.action = action,
                              !.path = canonicalAuthorityPath(path, sc.exist, sc.links)]
      /\ UNCHANGED <<sc, step, stage, work, reg, requests, auth, binds, returned>>
      /\ UNCHANGED routed /\ UNCHANGED host

\* A tool call in flight ends; only now is it counted.
ActEnd(c, i) ==
  /\ i \in DOMAIN calls[c]
  /\ calls' = [calls EXCEPT ![c] = SubSeq(@, 1, i - 1) \o SubSeq(@, i + 1, Len(@))]
  /\ \E ok \in BOOLEAN : guard' = [guard EXCEPT ![c].g = guardAfterCall(@, calls[c][i], ok)]
  /\ last' = Quiet
  /\ UNCHANGED <<sc, step, stage, work, reg, requests>>
  /\ UNCHANGED routed /\ UNCHANGED host /\ UNCHANGED history

\* The child asks for more authority.
Request(c) ==
  LET grant == Head(currentBinding(c)).grant
  IN  /\ AtWork(c) /\ c \in DOMAIN reg.bound
      /\ \E ask \in sc.asks :
           /\ requests' = requestAuthority(requests, c, session[c].parent, RoleOf(c), grant, ask)
           /\ requests' # requests
      /\ last' = Quiet
      /\ UNCHANGED <<sc, step, stage, work, reg, guard, calls>>
      /\ UNCHANGED routed /\ UNCHANGED host /\ UNCHANGED history

-----------------------------------------------------------------------------
(* execute.after of a dispatch                                             *)

EntriesWithout(k) == Drop(entries, k)

\* Mutated form: the rejected resume's record is left in place.
undoResumeNever(k) == records

\* undoResume: the record of a resume that gave no result goes back to what it was, unless
\* somebody registered the child since.
undoResume(k) ==
  LET c == ChildOf(k)
  IN  IF ~Resumes(k) \/ k \notin DOMAIN entries \/ c \notin DOMAIN records THEN records
      ELSE IF records[c].decision # k THEN records
      ELSE IF entries[k].previous = <<>> THEN Drop(records, c)
      ELSE Put(records, c, Head(entries[k].previous))

\* onCallResult without a child: the host rejected the call, or it was aborted while it ran.
NoResult(k) ==
  /\ \/ stage[k] = "sent" /\ (\/ "hostFail" \in sc.faults
                              \/ sc.calls[k].parent \in gone
                              \/ Resumes(k) /\ ~Live(ChildOf(k)))
     \/ stage[k] = "running" /\ "abort" \in sc.faults
  /\ stage' = [stage EXCEPT ![k] = "over"]
  /\ records' = undoResume(k)
  /\ entries' = EntriesWithout(k)
  /\ reg' = IF IsRole(k) THEN evictCall(reg, k) ELSE reg
  /\ last' = Quiet
  /\ UNCHANGED <<sc, step, work, requests, raises, lastCall, guard, calls>>
  /\ UNCHANGED host /\ UNCHANGED history

\* onCallResult with a child: the record is this dispatch's, whoever claimed the child.
ResultRecord(k) ==
  LET c == ChildOf(k)
      known == IF c \in DOMAIN records THEN records[c].decision = k ELSE FALSE
  IN  IF k \notin DOMAIN entries \/ Resumes(k) \/ known THEN records
      ELSE Put(records, c, entries[k].input)

\* roleAttemptVerification: the attempt that brought the acceptance block sets the baseline,
\* a later one that carries it only joins an existing one.
Judged(k, recs) ==
  LET c == ChildOf(k)
      v == recs[c].verification
      carried == sc.calls[k].block = "none"
      next == IF ~carried THEN sc.calls[k].judged
              ELSE IF Head(v).baseline = "kept" THEN sc.calls[k].judged ELSE Head(v).baseline
  IN  IF c \notin DOMAIN recs \/ ~IsRole(k) THEN recs
      ELSE IF v = <<>> THEN recs
      ELSE [recs EXCEPT ![c].verification = <<[Head(v) EXCEPT !.baseline = next]>>]

\* The child returned: its record is settled, and a role child's budget stop is reported.
Return(k, escalated, claimed) ==
  LET c == ChildOf(k)
  IN  /\ stage[k] = "running" /\ calls[c] = <<>>
      /\ escalated => sc.asks # {}
      /\ claimed => sc.guard.mode # "off"
      /\ stage' = [stage EXCEPT ![k] = "after"]
      /\ work' = [work EXCEPT ![k].escalated = escalated]
      /\ records' = Judged(k, ResultRecord(k))
      /\ entries' = EntriesWithout(k)
      /\ returned' = IF k \in DOMAIN entries THEN Put(returned, c, k) ELSE returned
      /\ last' = IF IsRole(k)
                 THEN [Quiet EXCEPT !.kind = "return", !.who = c, !.claimed = claimed,
                         !.notice = budgetNotice(guard[c].g, GuardPolicy(c).policy, claimed)]
                 ELSE Quiet
      /\ UNCHANGED <<sc, step, reg, requests, raises, lastCall, guard, calls, auth, binds, halted>>
      /\ UNCHANGED host

\* The rest of execute.after: a failed verification raises the next resume, the authority
\* request is annotated for it or discarded, and the pending slot is released.
Finish(k, failed) ==
  LET c == ChildOf(k)
      next == nextRoleTier(roleTierOrder(sc.cfg), RoleOf(c).ceiling, records[c].tier)
  IN  /\ stage[k] = "after"
      /\ failed => "verdict" \in sc.faults
      /\ stage' = [stage EXCEPT ![k] = "over"]
      /\ raises' = IF ~failed \/ ~IsRole(k) \/ c \notin DOMAIN records THEN raises
                   ELSE IF next = None THEN raises
                   ELSE Put(raises, c, [parent |-> sc.calls[k].parent, tier |-> next])
      /\ requests' = IF ~IsRole(k) THEN requests
                     ELSE IF work[k].escalated /\ c \in DOMAIN requests
                             /\ (c \in DOMAIN requests => ~requests[c].annotated \/ requests[c].call = k)
                          THEN markAnnotated(requests, c, k, sc.calls[k].parent)
                     ELSE discardAuthority(requests, c, k)
      /\ lastCall' = IF IsRole(k) THEN Put(lastCall, c, k) ELSE lastCall
      /\ reg' = IF IsRole(k) THEN evictCall(reg, k) ELSE reg
      /\ last' = Quiet
      /\ UNCHANGED <<sc, step, work, records, entries, guard, calls>>
      /\ UNCHANGED host /\ UNCHANGED history

\* The orchestrator goes on with the next calls.
NextStep ==
  /\ step < Len(sc.steps)
  /\ \A k \in sc.steps[step] : stage[k] = "over"
  /\ step' = step + 1
  /\ last' = Quiet
  /\ UNCHANGED <<sc, stage, work, reg, requests, guard, calls>>
  /\ UNCHANGED routed /\ UNCHANGED host /\ UNCHANGED history

Next ==
  \/ \E k \in DOMAIN stage :
       \/ Before(k) \/ RouteRefused(k) \/ RouteStart(k) \/ RouteDecide(k) \/ RouteDelegate(k)
       \/ RouteTier(k) \/ LegacyReject(k) \/ Commit(k) \/ HostCreate(k) \/ HostResume(k)
       \/ NoResult(k)
       \/ \E escalated, claimed \in BOOLEAN : Return(k, escalated, claimed)
       \/ \E failed \in BOOLEAN : Finish(k, failed)
  \/ \E c \in Children :
       \/ BindStart(c) \/ Request(c) \/ Fork(c)
       \/ \E how \in {"ok", "noContext", "fail"} : BindEnd(c, how)
       \/ \E act \in sc.acts : Act(c, act[1], act[2])
       \/ \E i \in 1..sc.parallel : ActEnd(c, i)
  \/ \E s \in Children \cup sc.parents : Delete(s)
  \/ Deliver \/ ExpirePending \/ NextStep

Spec == Init /\ [][Next]_vars

-----------------------------------------------------------------------------
(* Properties                                                              *)

\* A tool call of a role child that the router lets through is one its own dispatch was
\* granted (or its own annotated request added), in its own work root: neither a parallel
\* dispatch of the same role, nor a fork, nor a lost or rewritten nonce gives it another
\* one's.  Reading the session's directory is every child's right.
UseWithinGrant ==
  last.kind = "act" =>
    LET granted == auth[last.who]
        inside(root) == IF root = None THEN FALSE ELSE insideWorkRoot(last.path, sc.rootPath[root])
    IN  /\ last.action \in granted.actions \cup LOCAL_ACTIONS \cup {"external"}
        /\ last.action \in {"edit", "external"} => inside(granted.root)
        /\ last.action = "read" => inside(granted.root) \/ inside(sc.directory)
        /\ last.action = "run" => granted.root # None

\* The nonce of a dispatch binds one session in its life: the fork of a child, or a second
\* session that shows the same marker, never gets the grant too.
NonceBindsOnce == \A x, y \in binds : x[1] = y[1] => x[2] = y[2]

\* A child that writes or runs does so on a model at or above the authority floor of what it
\* may do now and of how this attempt will be checked, whatever the resume, the widening, the
\* caller's model, the pin or the host's catalog did in between.
FloorCoversGrant ==
  last.kind = "act" /\ last.action \in WRITE \cup EXEC =>
    LET s == session[last.who]
        order == roleTierOrder(sc.cfg)
        grant == Head(currentBinding(last.who)).grant
        floor == authorityFloor(grant, s.detection, s.facts[1].risk, s.facts[1].scope)
    IN  capabilityRank([preset |-> presetRungs(sc.cfg, order)], s, 0) >= placeFloor(floor, order)

\* What the records rely on: the calls of a step are of different children, and where sessions
\* may be deleted a child is resumed by the parent of its first call, which is no child itself.
ResumesApart ==
  \A s \in Scenarios :
    LET child(k) == IF s.calls[k].child = None THEN k ELSE s.calls[k].child
    IN  /\ s.steps \in Seq(SUBSET DOMAIN s.calls) \ {<<>>}
        /\ \A i \in DOMAIN s.steps : \A j, k \in s.steps[i] : child(j) = child(k) => j = k
        /\ "delete" \in s.faults => \A k \in DOMAIN s.calls :
             /\ s.calls[k].parent = s.calls[child(k)].parent
             /\ s.calls[k].parent \notin DOMAIN s.calls \cup {"fork"}

\* Between calls, the record of a child that some call returned is that of the last call that
\* did: neither a wrong claim of a parallel dispatch's child nor a resume that the host
\* rejected or aborted leaves another dispatch's model, tier and facts behind.  Where two calls
\* resume one child at a time the earlier one's undo may fall on the later one's record: it is
\* promised where the scenarios keep the resumes of a child apart (ResumesApart).
RecordFollowsChild ==
  \A c \in DOMAIN returned :
    (\A k \in DOMAIN stage : ChildOf(k) = c => stage[k] \in {"idle", "after", "over"})
      => IF c \in DOMAIN records THEN records[c].decision = returned[c] ELSE FALSE

\* A stop is final and reported: once a stop guard refused a call of an attempt, no call of
\* that attempt runs any more and its return tells the orchestrator; no attempt is reported
\* as stopped for what an earlier one did.
StopIsFinal ==
  /\ last.kind = "act" => last.who \notin halted
  /\ last.kind = "return" =>
       /\ last.who \in halted => last.notice
       /\ last.notice /\ ~last.claimed => last.who \in halted


\* A role child uses what one dispatch granted, and no two children share a grant
\* (decideBinding, enforce).
GrantsRespected == UseWithinGrant /\ NonceBindsOnce
=============================================================================
