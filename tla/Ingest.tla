------------------------------- MODULE Ingest -------------------------------
(***************************************************************************)
(* Outcome ingestion (routing/outcomes/ingest.ts): how the steps, the ends *)
(* and the verdicts of a delegated child become statistics and log rows.   *)
(*                                                                         *)
(* One process runs several instances of the plugin, one per location.     *)
(* Each has its own subscription to the host's events and its own settings *)
(* (an outcomes directory, or ingestion off), and handles one event after  *)
(* the other; a step awaits the price of its model in the middle of its    *)
(* handler.  What they share is module state: the registry of dispatches   *)
(* (router/sessions.ts), the ids already seen, the final steps held back,  *)
(* and one store per outcomes directory, which lives as long as somebody   *)
(* holds it (routing/outcomes/index.ts).                                   *)
(*                                                                         *)
(* The child is one session.  A run is one execution of it; an attempt is  *)
(* one registration (rememberDispatch): a dispatch, a resume, or the       *)
(* correction of a wrong claim, which is a new attempt of the same run.    *)
(* An event is known by its place on the bus.  Beta masses, decay, token   *)
(* and dollar means are left out: a fold is the list of its steps.  The    *)
(* caps (4096 ids, 2000 records, the open attempts of a store) are not     *)
(* reached.                                                                *)
(***************************************************************************)
EXTENDS Integers, FiniteSets, FiniteSetsExt, SequencesExt

CONSTANTS Instances,   \* plugin instances of the process
          Owner,       \* the instance that dispatches the child
          Dirs,        \* outcomes directories
          Off,         \* settings of an instance whose engine is static
          Nil,         \* no directory, no registration, no step
          Scenarios,   \* [home, slow, role, producer, graders, faults, troubles, runs, steps]:
                       \* each instance's settings at the start; the instances whose catalog
                       \* is not loaded; whether the agent is a role; its tier and model; the
                       \* graders of its verdicts (none: it is not judged); the disturbances
                       \* that happen.  Bounds: disturbances, runs, steps of a run
          MaxRegistrations,  \* at most: the runs and the corrections of a scenario
          Rungs,       \* settings.tierRungs: sequence of [tier, model]
          Alike        \* pairs of different model names sameModel takes for one model

ASSUME IngestAssumption ==
    /\ Owner \in Instances /\ MaxRegistrations \in Nat
    /\ {Off, Nil} \intersect Dirs = {} /\ Nil \notin [step : Nat, attempt : Nat, wait : BOOLEAN]
    /\ \A s \in Scenarios :
          /\ s.home \in [Instances -> Dirs \union {Off}]
          /\ {s.troubles, s.steps} \subseteq Nat /\ s.runs \in Nat \ {0}
          /\ s.troubles + s.runs <= MaxRegistrations

VARIABLES scenario,
          bus,       \* the host's events, in order: [kind, run]
          run,       \* the child: [n, live, steps, due, gone], due: run -> what its call owes
          attempts,  \* every registration made: [runs, clean, late]
          pos,       \* instance -> events taken from its subscription
          handling,  \* instance -> the step whose price it awaits, or Nil
          catalog,   \* instance -> createCatalogPricing's state
          world,     \* the module state of the process and the instances' own
          moved,     \* instances whose settings changed around the latest registration
          troubles   \* disturbances so far

ivars == <<scenario, bus, run, attempts, pos, handling, catalog, world, moved, troubles>>

----------------------------------------------------------------------------
(* The store of a directory.  open, closed and scored are its memory and   *)
(* die with it; folded, counts and rows are what it has produced.          *)

\* One attempt per run and one per correction (IngestAssumption).
Registrations == 1..MaxRegistrations

Unscored == [a \in Registrations |-> "none"]

NewStore ==
    [open |-> [a \in Registrations |-> <<>>], idle |-> {}, closed |-> {}, scored |-> Unscored,
     renewed |-> FALSE, folded |-> <<>>,
     counts |-> [pass |-> 0, fail |-> 0, refusals |-> 0],
     rows |-> [pass |-> 0, fail |-> 0, refusals |-> 0, overrides |-> 0, unverifiable |-> 0],
     signals |-> <<>>]

foldOf(st, a, steps) ==
    [st EXCEPT !.folded = Append(@, [attempt |-> a, steps |-> steps]),
               !.open[a] = <<>>,
               !.closed = @ \union {a}]

\* recordStep: a step of a closed attempt is dropped; a final one folds the attempt.
recordStep(st, a, e, final) ==
    IF a \in st.closed THEN st
    ELSE IF final THEN foldOf(st, a, Append(st.open[a], e))
    ELSE [st EXCEPT !.open[a] = Append(@, e), !.idle = @ \ {a}]

closeAttempt(st, a) == IF st.open[a] = <<>> THEN st ELSE foldOf(st, a, st.open[a])

\* Several attempts at once: more[a] is what attempt a gets before it is folded.
foldAll(st, more) ==
    [st EXCEPT !.folded = @ \o SetToSeq({[attempt |-> a, steps |-> st.open[a] \o more[a]] :
                                            a \in DOMAIN more}),
               !.open = [a \in Registrations |-> IF a \in DOMAIN more THEN <<>> ELSE @[a]],
               !.closed = @ \union DOMAIN more]

sweepAttempts(st) ==
    foldAll(st, [a \in {x \in st.idle : st.open[x] # <<>>} |-> <<>>])

Halved == [pass |-> "half pass", fail |-> "half fail"]

\* recordVerdict counts an attempt once.  half: a grader's verdict weighs 0.5.
recordVerdict(st, a, outcome, half) ==
    [st EXCEPT !.counts[outcome] = @ + 1,
               !.scored[a] = IF half THEN Halved[outcome] ELSE outcome]

Passed == {"pass", "half pass"}

\* recordFalseRefusal takes a pass of the attempt back and tops a grader's fail up.
recordFalseRefusal(st, a) ==
    LET was == st.scored[a]
        moves == IF was \in Passed THEN 1 ELSE 0
    IN [st EXCEPT !.counts = [pass |-> @.pass - moves, fail |-> @.fail + moves,
                              refusals |-> @.refusals + 1],
                  !.scored[a] = IF was = "fail" THEN was ELSE "refusal"]

refusalChanges(st, a) == st.scored[a] \in Passed \union {"none", "half fail"}

\* release: the last holder's takes the store's memory along.
Blank(st) ==
    [st EXCEPT !.open = NewStore.open, !.idle = {}, !.closed = {}, !.scored = Unscored]

Reset(st) == [Blank(st) EXCEPT !.renewed = @ \/ st # Blank(st)]

holders(w, d) == {i \in Instances : d \in {w.inst[i].holds, w.inst[i].recorder}}

Released(w) ==
    [w EXCEPT !.store = [d \in Dirs |-> IF holders(w, d) = {} THEN Reset(w.store[d])
                                        ELSE w.store[d]]]

----------------------------------------------------------------------------
(* The registry of dispatches (router/sessions.ts).                        *)

rememberDispatch(w, a, outcomes, r, from, keepExecution) ==
    LET carried == keepExecution /\ w.slot # Nil
    IN [w EXCEPT !.slot =
          [attempt |-> a, outcomes |-> outcomes, run |-> r, idle |-> FALSE,
           from |-> IF carried THEN w.slot.from ELSE from,
           noted |-> IF carried THEN w.slot.noted ELSE {},
           ended |-> carried /\ w.slot.ended]]

touchDispatch(w) == IF w.slot = Nil THEN w ELSE [w EXCEPT !.slot.idle = FALSE]

noteStepContext(w, e) ==
    IF w.slot = Nil THEN w
    ELSE [w EXCEPT !.slot.noted = @ \union {e}, !.slot.idle = FALSE]

noteExecutionEnded(w, e) ==
    IF e \in w.seenEnds THEN w
    ELSE [w EXCEPT !.seenEnds = @ \union {e},
                   !.slot.ended = TRUE, !.slot.idle = FALSE]

sweepDispatches(w) ==
    IF w.slot # Nil /\ w.slot.idle THEN [w EXCEPT !.slot = Nil] ELSE w

----------------------------------------------------------------------------
(* What an instance does to the shared state.                              *)

settings(w, i) == w.inst[i].settings

\* Registered where ingestion was on, and on here (targetOf).
targetOf(w, i) == w.slot # Nil /\ w.slot.outcomes /\ settings(w, i) # Off

currentDir(w, i) ==
    CASE w.inst[i].holds # Nil -> w.inst[i].holds
      [] w.inst[i].holds = Nil /\ settings(w, i) # Off -> settings(w, i)
      [] OTHER -> Nil

\* storeOf is not null: through the bundle this instance has, or one it may acquire.
Reaches(w, i, d) ==
    IF w.inst[i].holds # Nil THEN w.inst[i].holds = d
    ELSE settings(w, i) = d /\ ~w.inst[i].disposed

Acquired(w, i, d) == [w EXCEPT !.inst[i].holds = d]

Stored(w, d, st) == [w EXCEPT !.store[d] = st]

HeldFor(w, d, a) == {h \in w.held : h.dir = d /\ h.attempt = a}

\* settle: the held final step becomes the attempt's last one, or a plain one.
settle(w, i, d, a, asFinal) ==
    IF HeldFor(w, d, a) = {} \/ ~Reaches(w, i, d) THEN w
    ELSE LET h == CHOOSE x \in HeldFor(w, d, a) : TRUE
         IN [Stored(Acquired(w, i, d), d, recordStep(w.store[d], a, h.step, asFinal))
              EXCEPT !.held = @ \ {h},
                     !.inst[i].owned = @ \ {<<d, a>>}]

\* Several held steps of a directory: each is the last one of its attempt.
settleAll(w, i, d, due) ==
    IF due = {} \/ ~Reaches(w, i, d) THEN w
    ELSE LET late == {h.attempt : h \in due} \ w.store[d].closed
             last == [a \in late |-> <<(CHOOSE h \in due : h.attempt = a).step>>]
         IN [Stored(Acquired(w, i, d), d, foldAll(w.store[d], last))
              EXCEPT !.held = @ \ due,
                     !.inst[i].owned = @ \ {<<d, h.attempt>> : h \in due}]

closeIn(w, i, d, a) ==
    IF Reaches(w, i, d) THEN Stored(Acquired(w, i, d), d, closeAttempt(w.store[d], a)) ELSE w

endAttempt(w, i, d, a) == closeIn(settle(w, i, d, a, TRUE), i, d, a)

closeLastAttempt(w, i, d) ==
    IF d = Nil \/ w.last[d] = 0 THEN w
    ELSE endAttempt([w EXCEPT !.last[d] = 0], i, d, w.last[d])

\* ownedHeld without what somebody else has settled.
StillHeld(w, i) ==
    [w EXCEPT !.inst[i].owned = {k \in @ : HeldFor(w, k[1], k[2]) # {}}]

settleOwned(w, i) ==
    StillHeld(LET d == currentDir(w, i)
              IN settleAll(w, i, d, {h \in w.held : /\ h.dir = d
                                                     /\ <<d, h.attempt>> \in w.inst[i].owned}),
              i)

Holding(w, i, d) == Released(Acquired(w, i, d))

\* bundleFor: a changed directory settles what the instance holds before it lets the old one go.
bundleFor(w, i) ==
    CASE w.inst[i].holds = settings(w, i) -> w
      [] w.inst[i].holds = Nil -> Acquired(w, i, settings(w, i))
      [] OTHER -> Holding(settleOwned(w, i), i, settings(w, i))

dropIfOff(w, i) ==
    IF w.inst[i].holds = Nil \/ settings(w, i) # Off THEN w
    ELSE Holding(settleOwned(w, i), i, Nil)

\* The attempt recorder's sweep: it lets its bundle go when the engine is static.
recorderSweep(w, i) ==
    IF settings(w, i) # Off THEN w
    ELSE Released([w EXCEPT !.inst[i].recorder = Nil])

----------------------------------------------------------------------------
(* The handlers of ingest.ts.                                              *)

\* Mutated form: the registration is not compared after the await.
StepDueAnyAttempt(w, i, a) == ~w.inst[i].disposed /\ targetOf(w, i)

StepDue(w, i, a) == ~w.inst[i].disposed /\ targetOf(w, i) /\ w.slot.attempt = a

\* Mutated form: the ids are not kept per directory.
firstDeliveryAnywhere(w, d, what, e) == \A o \in Dirs : <<o, what, e>> \notin w.seen

\* firstDelivery: the id of an event is recorded per directory.
firstDelivery(w, d, what, e) == <<d, what, e>> \notin w.seen

Superseded(w, i, d, a) ==
    IF w.last[d] \in {0, a} THEN w ELSE endAttempt(w, i, d, w.last[d])

rememberAttempt(w, d, a) == [w EXCEPT !.last[d] = a]

HoldBack(w, i, d, a, e) ==
    [w EXCEPT !.held = @ \union {[dir |-> d, attempt |-> a, step |-> e, idle |-> FALSE]},
              !.inst[i].owned = @ \union {<<d, a>>}]

\* A step that does not end in tool calls may be the last one: it is held back.
Place(w, i, d, a, e, kind) ==
    IF kind = "final" THEN HoldBack(w, i, d, a, e)
    ELSE Stored(w, d, recordStep(w.store[d], a, e, FALSE))

\* onStepEnded after the await: from here on it is synchronous.
recorded(w, i, d, a, e, kind) ==
    touchDispatch(
      Place(settle(rememberAttempt(Superseded(bundleFor(w, i), i, d, a), d, a), i, d, a, FALSE),
            i, d, a, e, kind))

onStepPriced(w, i, d, a, e, kind) ==
    IF ~StepDue(w, i, a) \/ ~firstDelivery(w, d, "step", e) THEN w
    ELSE recorded([w EXCEPT !.seen = @ \union {<<d, "step", e>>}], i, d, w.slot.attempt, e, kind)

FoldEnd(w, i, d, e) ==
    IF d = Nil \/ ~firstDelivery(w, d, "end", e) THEN w
    ELSE closeLastAttempt([w EXCEPT !.seen = @ \union {<<d, "end", e>>}], i, d)

onExecutionEnded(w, i, e) ==
    IF w.slot = Nil THEN w ELSE FoldEnd(noteExecutionEnded(w, e), i, currentDir(w, i), e)

\* Attempts of children no longer registered, and finals held for half an hour, are folded.
SweepIdle(w, i, d) == settleAll(w, i, d, {h \in w.held : h.dir = d /\ h.idle})

SweepDir(w, i, d) ==
    IF d = Nil THEN w
    ELSE SweepIdle(IF w.slot = Nil THEN closeLastAttempt(w, i, d) ELSE w, i, d)

SweepStore(w, d) == IF d = Nil THEN w ELSE Stored(w, d, sweepAttempts(w.store[d]))

Swept(w, i) == StillHeld(SweepDir(w, i, currentDir(w, i)), i)

sweepHeld(w, i) == SweepStore(w, w.inst[i].holds)

sweep(w, i) == sweepHeld(Swept(sweepDispatches(dropIfOff(w, i)), i), i)

onSessionGone(w, i) ==
    IF w.slot = Nil THEN w
    ELSE [closeLastAttempt(w, i, currentDir(w, i)) EXCEPT !.slot = Nil]

----------------------------------------------------------------------------
(* Verdicts, refusals and signals of the registered attempt.               *)

\* tierOfModel: the tier whose ladder names the model; 0 when none does.
tierOfModel(model) ==
    LET at == {n \in DOMAIN Rungs : Rungs[n].model = model}
    IN IF at = {} THEN 0 ELSE Rungs[Min(at)].tier

sameModel(m, n) == m = n \/ <<m, n>> \in Alike \/ <<n, m>> \in Alike

\* graderSignalOf: the lower of the tier the grader asked for and the one its model
\* stands on; a grader below the producer, or of the producer's model, does not count.
independent(grader, producer) ==
    LET byModel == tierOfModel(grader.model)
        known == {byModel, grader.tier} \ {0}
    IN /\ known # {} /\ Min(known) >= producer.tier
       /\ ~sameModel(grader.model, producer.model)

RowAdded(st, kind) == [st EXCEPT !.rows[kind] = @ + 1]

SignalKey(d, a, kind) == <<"signal", d, a, kind>>

\* appendSignal: one row per attempt, kind and directory.
appendSignal(w, d, a, kind) ==
    IF SignalKey(d, a, kind) \in w.signalled THEN w
    ELSE [w EXCEPT !.signalled = @ \union {SignalKey(d, a, kind)},
                   !.store[d].signals = Append(@, <<a, kind>>)]

Unverifiable(w, d, a) ==
    IF w.scored[a] # "none" \/ <<"unverifiable", a>> \in w.signalled THEN w
    ELSE touchDispatch(Stored([w EXCEPT !.signalled = @ \union {<<"unverifiable", a>>}], d,
                              RowAdded(w.store[d], "unverifiable")))

\* The verdict's row and its signal follow the store.
Scored(w, d, a, outcome, half) ==
    LET counted == Stored([w EXCEPT !.scored[a] = outcome], d,
                          RowAdded(recordVerdict(w.store[d], a, outcome, half), outcome))
    IN touchDispatch(IF scenario.role
                     THEN appendSignal(counted, d, a, IF half THEN "grader" ELSE "verdict")
                     ELSE counted)

\* Mutated form: the row is written although the store refused the verdict.
VerdictAlwaysLogged(w, d, a, outcome, half) ==
    IF w.store[d].scored[a] # "none" THEN Stored(w, d, RowAdded(w.store[d], outcome))
    ELSE Scored(w, d, a, outcome, half)

Verdict(w, d, a, outcome, half) ==
    IF w.store[d].scored[a] # "none" THEN w ELSE Scored(w, d, a, outcome, half)

\* A role's verdict by a grader that is not independent of the producer leaves no trace.
onVerdict(w, i, outcome, grader) ==
    LET graded == scenario.role /\ outcome # "unverifiable" /\ grader # Nil IN
    CASE ~targetOf(w, i) -> w
      [] targetOf(w, i) /\ outcome = "unverifiable" ->
            Unverifiable(bundleFor(w, i), settings(w, i), w.slot.attempt)
      [] targetOf(w, i) /\ graded /\ ~independent(grader, scenario.producer) ->
            touchDispatch(bundleFor(w, i))
      [] OTHER -> Verdict(bundleFor(w, i), settings(w, i), w.slot.attempt, outcome, graded)

RefusalKey(a) == <<"refusal", a>>

Refused(w, d, a) ==
    LET overrides == w.scored[a] = "pass" /\ refusalChanges(w.store[d], a)
        st == RowAdded(recordFalseRefusal(w.store[d], a), "refusals")
    IN touchDispatch(Stored([w EXCEPT !.scored[a] = "refusal",
                                      !.signalled = @ \union {RefusalKey(a)}], d,
                            IF overrides THEN RowAdded(st, "overrides") ELSE st))

\* One refusal per attempt.
onFalseRefusal(w, i) ==
    IF ~targetOf(w, i) \/ RefusalKey(w.slot.attempt) \in w.signalled THEN w
    ELSE Refused(bundleFor(w, i), settings(w, i), w.slot.attempt)

onSignal(w, i, kind) ==
    IF ~targetOf(w, i) THEN w
    ELSE touchDispatch(appendSignal(bundleFor(w, i), settings(w, i), w.slot.attempt, kind))

----------------------------------------------------------------------------
(* The host and the child.                                                 *)

Disturbance(fault) ==
    fault \in scenario.faults /\ troubles < scenario.troubles /\ troubles' = troubles + 1

Emit(kind) == bus' = Append(bus, [kind |-> kind, run |-> run.n])

\* A step of the child: one that ends in tool calls, one that does not, a failed one.
Step(kind) ==
    /\ run.live /\ run.steps < scenario.steps
    /\ Emit(kind)
    /\ run' = [run EXCEPT !.steps = @ + 1]
    /\ UNCHANGED <<scenario, attempts, pos, handling, catalog, world, moved, troubles>>

\* The execution ends; the tool call that started it returns.
EndRun ==
    /\ run.live
    /\ Emit("end")
    /\ run' = [run EXCEPT !.live = FALSE, !.due[run.n] = "return"]
    /\ UNCHANGED <<scenario, attempts, pos, handling, catalog, world, moved, troubles>>

\* The session is deleted.
Delete ==
    /\ Disturbance("delete")
    /\ ~run.live /\ run.n > 0 /\ ~run.gone
    /\ Emit("gone")
    /\ run' = [run EXCEPT !.gone = TRUE]
    /\ UNCHANGED <<scenario, attempts, pos, handling, catalog, world, moved>>

\* Half an hour (long: an hour) without a step or a touch, then an idle event.
Silence(long) ==
    /\ Disturbance("silence")
    /\ Emit("idle")
    /\ world' = [world EXCEPT
          !.slot = IF @ = Nil \/ ~long THEN @ ELSE [@ EXCEPT !.idle = TRUE],
          !.held = {[h EXCEPT !.idle = TRUE] : h \in @},
          !.store = [d \in Dirs |-> [world.store[d] EXCEPT
                        !.idle = {a \in Registrations : world.store[d].open[a] # <<>>}]]]
    /\ UNCHANGED <<scenario, run, attempts, pos, handling, catalog, moved>>

----------------------------------------------------------------------------
(* Registrations, by the instance that dispatches.                         *)

Dispatching == ~world.inst[Owner].disposed

\* attempt-recorder record: the registration, and the bundle for its decision row.
record(w, a, r, keepExecution) ==
    LET on == settings(w, Owner) # Off
        registered == rememberDispatch(w, a, on, r, Len(bus), keepExecution)
    IN IF ~on THEN registered
       ELSE Released([registered EXCEPT !.inst[Owner].recorder = settings(w, Owner)])

\* Instances that still hold the bundle of settings they no longer have.
Unsettled == {i \in Instances : world.inst[i].holds \notin {Nil, settings(world, i)}}

TakenAll(i, kinds) == \A e \in DOMAIN bus : bus[e].kind \in kinds => e <= pos[i]

Alive == {i \in Instances : ~world.inst[i].disposed}

StepKinds == {"step", "final", "failed"}

\* History: the steps an instance that records has still to take.
Untaken ==
    {e \in DOMAIN bus : /\ bus[e].kind \in StepKinds
                        /\ \E i \in Alive : settings(world, i) # Off /\ e > pos[i]}

NewAttempt(made, r, clean) == Append(made, [runs |-> {r}, clean |-> clean, late |-> Untaken])

\* The first registration of the child may come after its first steps.
Register ==
    /\ Dispatching /\ attempts = <<>> /\ ~run.gone
    /\ world' = record(world, 1, run.n, FALSE)
    /\ attempts' = NewAttempt(attempts, run.n, run.steps = 0)
    /\ moved' = Unsettled
    /\ UNCHANGED <<scenario, bus, run, pos, handling, catalog, troubles>>

\* onDispatchEnded: the result names the child; a heuristic claim is corrected.
Correct ==
    /\ Disturbance("correct")
    /\ Dispatching /\ attempts # <<>> /\ run.due[run.n] # "no"
    /\ Last(attempts).runs = {run.n}
    /\ world' = record(world, Len(attempts) + 1, run.n, TRUE)
    /\ attempts' = NewAttempt([attempts EXCEPT ![Len(attempts)].clean = FALSE], run.n, FALSE)
    /\ UNCHANGED <<scenario, bus, run, pos, handling, catalog, moved>>

NextRun == [run EXCEPT !.n = @ + 1, !.live = TRUE, !.steps = 0]

\* Nothing makes a resume wait for the instances that lag behind.
ResumeRegistered ==
    /\ Dispatching /\ attempts # <<>> /\ ~run.live /\ ~run.gone
    /\ run.n < scenario.runs
    /\ world' = record(world, Len(attempts) + 1, run.n + 1, FALSE)
    /\ attempts' = NewAttempt(attempts, run.n + 1, TRUE)
    /\ run' = NextRun
    /\ moved' = Unsettled
    /\ UNCHANGED <<scenario, bus, pos, handling, catalog, troubles>>

\* With the engine static the router does not register the resume: the run continues
\* the attempt the registry knows.
ResumeUnregistered ==
    /\ Dispatching /\ attempts # <<>> /\ ~run.live /\ ~run.gone
    /\ settings(world, Owner) = Off
    /\ run.n < scenario.runs
    /\ attempts' = [attempts EXCEPT ![Len(attempts)] =
                        [runs |-> @.runs \union {run.n + 1}, clean |-> FALSE, late |-> @.late]]
    /\ run' = NextRun
    /\ UNCHANGED <<scenario, bus, pos, handling, catalog, world, moved, troubles>>

----------------------------------------------------------------------------
(* The judgement of a returned tool call, in the order of its after hook.  *)
(* Calls run in parallel: one whose gate is slow is judged on the          *)
(* registration its child has by then, which may be a later call's.        *)

\* returnSignal: an observed stop comes before the return's own words, which count as
\* incomplete work only when both stops were looked for.
returnSignal(prefix, budget, authority) ==
    CASE authority = "yes" -> "authority"
      [] authority # "yes" /\ budget = "yes" -> "budget"
      [] OTHER -> IF prefix # "done" /\ "unobserved" \notin {budget, authority}
                  THEN "incomplete" ELSE "none"

ReturnSignals ==
    {returnSignal(prefix, budget, authority) : prefix \in {"done", "need-more"},
        budget \in {"no", "unobserved"}, authority \in {"yes", "no"}} \ {"none"}

Judging(n, next, w) ==
    /\ Dispatching
    /\ run' = [run EXCEPT !.due[n] = next]
    /\ world' = w
    /\ UNCHANGED <<scenario, bus, attempts, pos, handling, catalog, moved, troubles>>

\* observeRoleReturn: the signal of a role's return, then that of the acceptance runs it made.
Signal(n, kind) ==
    /\ scenario.role /\ run.due[n] \in {"return", kind}
    /\ Judging(n, IF kind = "run" THEN "refusal" ELSE "run", onSignal(world, Owner, kind))

\* detectFalseRefusal.
Refuse(n) ==
    /\ scenario.graders # {} /\ run.due[n] \in {"return", "run", "refusal"}
    /\ Judging(n, "verdict", onFalseRefusal(world, Owner))

\* The gate's verdict.
Judge(n, outcome, grader) ==
    /\ run.due[n] # "no"
    /\ Judging(n, "no", onVerdict(world, Owner, outcome, grader))

----------------------------------------------------------------------------
(* The instances' event streams.                                           *)

\* createCatalogPricing's lookup: it starts a load unless it backs off, and waits only for
\* the first load, and only until one wait has timed out.
Looked(c) ==
    IF c.loaded = "fresh" THEN c
    ELSE [c EXCEPT !.loading = @ \/ ~c.failed, !.abandoned = @ /\ c.loading]

Waits(c) == c.loaded = "no" /\ c.loading /\ ~c.abandoned /\ ~c.timedOut

Pending(i) == pos[i] < Len(bus) /\ handling[i] = Nil /\ ~world.inst[i].disposed

\* session.step.ended and session.step.failed, up to the await of the price.
TakeStep(i) ==
    /\ Pending(i)
    /\ \E e \in {pos[i] + 1}, w \in {IF bus[pos[i] + 1].kind = "failed" THEN world
                                      ELSE noteStepContext(world, pos[i] + 1)},
          c \in {Looked(catalog[i])} :
          /\ bus[e].kind \in StepKinds
          /\ world' = w
          /\ pos' = [pos EXCEPT ![i] = e]
          /\ IF targetOf(w, i)
             THEN /\ handling' = [handling EXCEPT ![i] =
                        [step |-> e, attempt |-> w.slot.attempt, wait |-> Waits(c)]]
                  /\ catalog' = [catalog EXCEPT ![i] = c]
             ELSE UNCHANGED <<handling, catalog>>
    /\ UNCHANGED <<scenario, bus, run, attempts, moved, troubles>>

\* The rest of onStepEnded.
Priced(i) ==
    /\ handling[i] # Nil /\ ~handling[i].wait
    /\ handling' = [handling EXCEPT ![i] = Nil]
    /\ world' = onStepPriced(world, i, settings(world, i), handling[i].attempt,
                             handling[i].step, bus[handling[i].step].kind)
    /\ UNCHANGED <<scenario, bus, run, attempts, pos, catalog, moved, troubles>>

\* session.execution.* and session.idle: the end, then the sweep and the flush.
TakeFlush(i) ==
    /\ Pending(i)
    /\ \E e \in {pos[i] + 1} :
          /\ bus[e].kind \in {"end", "idle"}
          /\ world' = sweep(IF bus[e].kind = "end" THEN onExecutionEnded(world, i, e) ELSE world, i)
          /\ pos' = [pos EXCEPT ![i] = e]
    /\ UNCHANGED <<scenario, bus, run, attempts, handling, catalog, moved, troubles>>

\* session.deleted.
TakeGone(i) ==
    /\ Pending(i)
    /\ bus[pos[i] + 1].kind = "gone"
    /\ world' = onSessionGone(world, i)
    /\ pos' = [pos EXCEPT ![i] = @ + 1]
    /\ UNCHANGED <<scenario, bus, run, attempts, handling, catalog, moved, troubles>>

\* A chat message runs the idle sweeper: the ingest's sweep and the recorder's.
ChatMessage(i) ==
    /\ Disturbance("chat") /\ ~world.inst[i].disposed
    /\ world' = recorderSweep(sweep(world, i), i)
    /\ UNCHANGED <<scenario, bus, run, attempts, pos, handling, catalog, moved>>

Resolved(i) == [handling EXCEPT ![i] = IF @ = Nil THEN @ ELSE [@ EXCEPT !.wait = FALSE]]

LoadDone(i) ==
    /\ catalog[i].loading
    /\ catalog' = [catalog EXCEPT ![i] = [loaded |-> "fresh", failed |-> FALSE,
                        loading |-> FALSE, abandoned |-> FALSE, timedOut |-> FALSE]]
    /\ handling' = Resolved(i)
    /\ UNCHANGED <<scenario, bus, run, attempts, pos, world, moved, troubles>>

CatalogFails(i) ==
    /\ Disturbance("catalog") /\ catalog[i].loading
    /\ catalog' = [catalog EXCEPT ![i] = [@ EXCEPT !.failed = TRUE, !.loading = FALSE,
                                                   !.abandoned = FALSE]]
    /\ handling' = Resolved(i)
    /\ UNCHANGED <<scenario, bus, run, attempts, pos, world, moved>>

\* loadTimeoutMs: the step goes on unpriced.
WaitTimesOut(i) ==
    /\ handling[i] # Nil /\ handling[i].wait
    /\ catalog' = [catalog EXCEPT ![i] = [@ EXCEPT !.failed = TRUE, !.abandoned = TRUE,
                                                   !.timedOut = TRUE]]
    /\ handling' = Resolved(i)
    /\ UNCHANGED <<scenario, bus, run, attempts, pos, world, moved, troubles>>

\* retryMs has passed since the failure; ttlMs since the load.
TimePasses(i) ==
    /\ \/ catalog[i].failed /\ catalog' = [catalog EXCEPT ![i].failed = FALSE] /\ UNCHANGED troubles
       \/ catalog[i].loaded = "fresh" /\ catalog' = [catalog EXCEPT ![i].loaded = "stale"]
          /\ Disturbance("catalog")
    /\ UNCHANGED <<scenario, bus, run, attempts, pos, handling, world, moved>>

\* The configuration of an instance that has taken every step is changed.
Switch(i, s) ==
    /\ Disturbance("switch") /\ ~world.inst[i].disposed
    /\ s # settings(world, i) /\ TakenAll(i, StepKinds)
    /\ world' = [world EXCEPT !.inst[i].settings = s]
    /\ moved' = moved \union {i}
    /\ UNCHANGED <<scenario, bus, run, attempts, pos, handling, catalog>>

\* dispose of the ingest and of the recorder; the catalog's wait is aborted.
Dispose(i) ==
    /\ Disturbance("dispose") /\ ~world.inst[i].disposed
    /\ \E w \in {[world EXCEPT !.inst[i].disposed = TRUE]} :
          world' = Released([settleOwned(w, i) EXCEPT
                        !.inst[i].holds = Nil, !.inst[i].recorder = Nil])
    /\ handling' = Resolved(i)
    /\ UNCHANGED <<scenario, bus, run, attempts, pos, catalog, moved>>

----------------------------------------------------------------------------
IngestInit ==
    /\ scenario \in Scenarios
    /\ bus = <<>> /\ attempts = <<>> /\ moved = {} /\ troubles = 0
    /\ run = [n |-> 1, live |-> TRUE, steps |-> 0, due |-> [n \in Registrations |-> "no"],
              gone |-> FALSE]
    /\ pos = [i \in Instances |-> 0]
    /\ handling = [i \in Instances |-> Nil]
    /\ catalog = [i \in Instances |->
          [loaded |-> IF i \in scenario.slow THEN "no" ELSE "fresh", failed |-> FALSE,
           loading |-> FALSE, abandoned |-> FALSE, timedOut |-> FALSE]]
    /\ world = [slot |-> Nil, seen |-> {}, seenEnds |-> {}, held |-> {}, signalled |-> {},
                last |-> [d \in Dirs |-> 0], scored |-> Unscored,
                store |-> [d \in Dirs |-> NewStore],
                inst |-> [i \in Instances |->
                    [settings |-> scenario.home[i], holds |-> Nil, recorder |-> Nil,
                     owned |-> {}, disposed |-> FALSE]]]

IngestNext ==
    \/ \E kind \in StepKinds : Step(kind)
    \/ EndRun \/ Delete \/ \E long \in BOOLEAN : Silence(long)
    \/ Register \/ Correct \/ ResumeRegistered \/ ResumeUnregistered
    \/ \E n \in Registrations :
          \/ Refuse(n)
          \/ \E outcome \in {"pass", "fail", "unverifiable"}, g \in scenario.graders : Judge(n, outcome, g)
          \/ \E kind \in ReturnSignals \union {"run"} : Signal(n, kind)
    \/ \E i \in Instances :
          \/ TakeStep(i) \/ Priced(i) \/ TakeFlush(i) \/ TakeGone(i) \/ ChatMessage(i)
          \/ LoadDone(i) \/ CatalogFails(i) \/ WaitTimesOut(i) \/ TimePasses(i)
          \/ Dispose(i) \/ \E s \in Dirs \union {Off} : Switch(i, s)

IngestSpec == IngestInit /\ [][IngestNext]_ivars

----------------------------------------------------------------------------
(* Properties.                                                             *)

\* Everything a directory has been given: the folds (numbered) and what is still open (0).
Recorded(st) ==
    {[nr |-> n, attempt |-> st.folded[n].attempt, steps |-> st.folded[n].steps] :
        n \in DOMAIN st.folded}
    \union {[nr |-> 0, attempt |-> a, steps |-> st.open[a]] : a \in Registrations}

\* A step reaches a directory's statistics at most once, whatever the number of instances
\* that deliver it and the order they do it in, and under an attempt of the run it belongs
\* to, unless the child was registered again before an instance that records had taken the
\* step: nothing makes a resume wait for such an instance.  A step whose price was awaited at that
\* time is not excused.  While a store lives an attempt is folded once.
StepsCountedOnce ==
    \A d \in Dirs :
       /\ \A x, y \in Recorded(world.store[d]) :
             \A j \in DOMAIN x.steps, k \in DOMAIN y.steps :
                x.steps[j] = y.steps[k] => x = y /\ j = k
       /\ \A x \in Recorded(world.store[d]) : \A k \in DOMAIN x.steps :
             \/ bus[x.steps[k]].run \in attempts[x.attempt].runs
             \/ x.steps[k] \in attempts[x.attempt].late
       /\ ~world.store[d].renewed =>
             \A m, n \in DOMAIN world.store[d].folded :
                m # n => world.store[d].folded[m].attempt # world.store[d].folded[n].attempt

CaughtUp == \A i \in Alive : pos[i] = Len(bus) /\ handling[i] = Nil

\* Once a run is over and every instance has caught up, nothing of its attempt is left held
\* or open in a directory one of them writes to: an end that an instance of another
\* directory, or a static one, has seen is not lost to the others.  (A child registered
\* late or anew during the run, or before the steps of its last run had all been taken, and
\* an instance whose settings changed during it, leave that to the sweep of idle attempts.)
EndedIsFolded ==
    /\ CaughtUp /\ ~run.live /\ attempts # <<>> /\ Last(attempts).clean
    /\ Last(attempts).late = {} /\ moved = {}
    => \A d \in Dirs :
          (\E i \in Alive : currentDir(world, i) = d)
          => /\ HeldFor(world, d, Len(attempts)) = {}
             /\ world.store[d].open[Len(attempts)] = <<>>

\* Attempts scored in two directories, or around the end of a store, are told apart by
\* the module's own scored map only.
OneStory ==
    /\ \A d \in Dirs : ~world.store[d].renewed
    /\ \A a \in Registrations : \A d, e \in Dirs :
          "none" \notin {world.store[d].scored[a], world.store[e].scored[a]} => d = e

\* The decision log and the statistics tell the same story, also when the hooks of several
\* calls judge one attempt: every counted verdict has its row, a refusal that takes a pass back
\* says so, no attempt's refusal is counted twice, and an attempt has one signal of a kind.
RowsFollowStore ==
    \A d \in Dirs :
       LET st == world.store[d] IN
       /\ OneStory => /\ st.rows.pass - st.rows.overrides = st.counts.pass
                      /\ st.rows.fail + st.rows.overrides = st.counts.fail
       /\ st.rows.refusals = st.counts.refusals
       /\ st.counts.refusals <= Cardinality({a \in Registrations : RefusalKey(a) \in world.signalled})
       /\ \A m, n \in DOMAIN st.signals : m # n => st.signals[m] # st.signals[n]

=============================================================================
