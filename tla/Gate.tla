-------------------------------- MODULE Gate ---------------------------------
(***************************************************************************)
(* One verification of a dispatch: verify/gate.ts drives the checks of     *)
(* verify/deterministic.ts or the grader of verify/checker.ts under the    *)
(* gate budget.  A command runs in a scope that holds a verification slot; *)
(* a failing test run is rerun at the dispatch reference; the scope is     *)
(* closed in the background when the budget is short.  The caller races    *)
(* the whole gate against its budget.                                      *)
(*                                                                         *)
(* A case is a world w (Scoping) with the truth about its tests and a      *)
(* delegation d:                                                           *)
(*   w.failsNow, w.failsRef   the tests that fail in the tree, and that    *)
(*                            failed in it at dispatch                     *)
(*   w.atRef                  the files the reference holds                *)
(*   w.reference              "exact", "approximate", "none", "disabled"   *)
(*   w.unreproduced           ignored files the reference lacks; one that  *)
(*                            tests read makes a rerun there mislead       *)
(* Tests are deterministic, and a test that no changed file reaches does   *)
(* what it did at dispatch.                                                *)
(***************************************************************************)
EXTENDS Judging

CONSTANT Cases      \* the cases [w, d] to verify

\* Where the kind of a tool cache e may lie: at the root, of a package, or anywhere.
AtOwnPlace(e) == e.scope = "anywhere" \/ e.depth = 0 \/ (e.scope = "package" /\ e.depth = 2 /\ ~e.inTests)

\* A test that failed at dispatch was in the tree, and no test reads a tool
\* cache that lies where caches of its kind do.
ASSUME CasesAssumption ==
  \A c \in Cases :
    /\ IsLookup(c.w.py) /\ IsFiniteSet(c.w.exists)
    /\ \A id \in c.w.failsRef : id.file \in c.w.atRef
    /\ \A e \in c.w.unreproduced : e.known /\ AtOwnPlace(e) => ~e.read

VARIABLES
  w, d,       \* the case
  dod,        \* its definition of done
  pc,         \* where the gate is
  i,          \* the check that is running
  results,    \* the results of the finished checks
  failures,   \* completedFailures: the checks reported through onFailure
  budget,     \* "ample", "short" (under the recheck minimum) or "spent"
  scopes,     \* per check: [hold, slot, closed, inflight]
  spec,       \* the run being made: [type |-> "none"] between runs
  proc,       \* its process: "none", "live" or "dying"
  survivors,  \* history: the checks whose process outlived its kill and was left running
  scoped,     \* the outcome of the scoped run
  recheck,    \* the outcome of the rerun at the reference
  ref,        \* the materialized reference: "none", "present" or "removing"
  verdict     \* what the caller was told

vars == <<w, d, dod, pc, i, results, failures, budget, scopes, spec, proc, survivors, scoped, recheck, ref, verdict>>

-----------------------------------------------------------------------------
(* What the runs do (the runners are external).                            *)

\* Tests a run of the JS runners reaches from its inputs: the import graph.
Importers(S) == {f \in Tests \cup Modules : f \in w.exists /\ w.mentions[f] \cap S # {}}
Related(S) == LET one == S \cup Importers(S) IN (one \cup Importers(one)) \cap Tests
TestsOf(s) ==
  CASE s.type = "full" -> Tests \cap w.exists
    [] s.kind \in JsKinds /\ s.mode = "related" -> Related(s.inputs) \cap w.exists
    [] OTHER -> s.inputs

\* What a run leaves behind.  A report is lost when the runner crashes.
Left(s, fails, report) ==
  LET ran == TestsOf(s)
      failed == {id \in fails : id.file \in ran}
  IN [code |-> IF failed # {} THEN 1 ELSE IF ran = {} /\ s.type = "spec" /\ s.kind = "pytest" THEN 5 ELSE 0,
      ran |-> ran, failed |-> failed, collectionError |-> \E id \in failed : bare(id),
      report |-> report, named |-> failed, count |-> Cardinality(failed)]

\* What fails when tests are rerun at the reference: what failed at dispatch,
\* unless the reference is not what the tree was.
Misleading == w.reference = "approximate" \/ \E e \in w.unreproduced : e.read
FailsAt(s) ==
  IF ~(s.type = "spec" /\ s.mode = "rerun") THEN {w.failsNow}
  ELSE IF Misleading THEN {w.failsRef, {}} ELSE {w.failsRef}

-----------------------------------------------------------------------------
Outcome(kind) == [kind |-> kind]
NoSpec == [type |-> "none"]
NewScope == [hold |-> "none", slot |-> "free", closed |-> FALSE, inflight |-> {}]
Kind == dod.checks[i]
Spent == budget = "spent"

Init ==
  /\ w = NoSpec /\ d = NoSpec /\ dod = NoDoD
  /\ pc = "start" /\ i = 1 /\ results = <<>> /\ failures = {} /\ budget = "ample"
  /\ scopes = <<NewScope, NewScope>> /\ spec = NoSpec /\ proc = "none" /\ survivors = {}
  /\ scoped = Outcome("none") /\ recheck = Recheck("none") /\ ref = "none" /\ verdict = NoVerdict

\* A dispatch returned: its definition of done is the block of its text or
\* inferred from it, and accept decides whether there is anything to run.
Begin ==
  /\ pc = "start"
  /\ \E c \in Cases :
       LET block == parseAcceptanceBlock(c.d.lines)
           done == IF block = NoDoD THEN inferDoD(c.d.lines, c.d.hints) ELSE block
           early == accept(c.d, done)
       IN /\ w' = c.w /\ d' = c.d /\ dod' = done /\ verdict' = early
          /\ pc' = IF early # NoVerdict THEN "done" ELSE IF done.kind = "checker" THEN "grade" ELSE "check"
  /\ UNCHANGED <<i, results, failures, budget, scopes, spec, proc, survivors, scoped, recheck, ref>>

\* runDeterministic's loop: the result of check i, reported when it fails.
Result(r) ==
  /\ results' = Append(results, r)
  /\ failures' = IF r = "fail" THEN failures \cup {i} ELSE failures

-----------------------------------------------------------------------------
(* Checks that run no process.                                             *)

\* isCommandAllowed: an allowlisted head without shell syntax or an
\* interpreter's eval flag; uv only as "uv run pytest".
isCommandAllowed(c) ==
  /\ c.shell = "plain"
  /\ \/ c.head = "uv" /\ c.tool = "pytest"
     \/ c.head # "uv" /\ c.head # "unlisted"
  /\ ~(c.head = "interpreter" /\ c.opt = "eval")

\* The directory of d and the file of the check: "unresolved" without a
\* working directory, "missing" when the check names none.
runFileExists == CASE d.file = "unresolved" -> "unverifiable" [] d.file = "present" -> "ok" [] OTHER -> "fail"
runSchemaMatch == CASE d.file = "unresolved" -> "unverifiable" [] d.file = "matching" -> "ok" [] OTHER -> "fail"

PureCheck ==
  /\ pc = "check" /\ i <= Len(dod.checks)
  /\ Kind \in {"fileExists", "schemaMatch"}
  /\ Result(IF Kind = "fileExists" THEN runFileExists ELSE runSchemaMatch)
  /\ i' = i + 1
  /\ UNCHANGED <<w, d, dod, pc, budget, scopes, spec, proc, survivors, scoped, recheck, ref, verdict>>

-----------------------------------------------------------------------------
(* Checks that run a command.                                              *)

\* The build command: the configured one, the build script, or tsc when there
\* is a tsconfig.json; "none" when nothing can be built.
BuildCommand == IF d.build \in {"configured", "script", "tsconfig"} THEN d.build ELSE "none"

\* What a command check does before it runs: a result, or a run.
commandPlan ==
  LET lint == planScopedLint(w)
      scopedLint == Kind = "lintClean" /\ isCommandAllowed(w.cmd)
  IN CASE Kind = "buildPasses" /\ BuildCommand = "none" -> [type |-> "result", result |-> "unverifiable"]
       [] Kind = "run" /\ d.file = "missing" -> [type |-> "result", result |-> "fail"]
       [] Kind # "buildPasses" /\ ~isCommandAllowed(w.cmd) -> [type |-> "result", result |-> "unverifiable"]
       [] scopedLint /\ lint.type = "noAffected" ->
            [type |-> "result", result |-> IF d.carried THEN "unverifiable" ELSE "ok"]
       [] OTHER -> [type |-> "shell"]

StartCommand ==
  /\ pc = "check" /\ i <= Len(dod.checks)
  /\ Kind \in {"run", "buildPasses", "lintClean"}
  /\ \E plan \in {commandPlan} :
       IF plan.type = "result"
       THEN /\ Result(plan.result) /\ i' = i + 1
            /\ UNCHANGED <<pc, spec>>
       ELSE /\ spec' = plan /\ pc' = "hold"
            /\ UNCHANGED <<results, failures, i>>
  /\ UNCHANGED <<w, d, dod, budget, scopes, proc, survivors, scoped, recheck, ref, verdict>>

\* runTestsPass and the hook: the plan is a run, nothing to run, or a refusal.
testsPlan ==
  CASE ~isCommandAllowed(w.cmd) \/ d.cwd = "relative" -> S6("unsupported-command")
    [] d.testScope = "full" -> [type |-> "full"]
    [] OTHER -> planScopedRun(w)

StartTests ==
  /\ pc = "check" /\ i <= Len(dod.checks)
  /\ Kind = "testsPass"
  /\ spec' = testsPlan
  /\ IF spec'.type \in {"spec", "full"}
       THEN /\ pc' = "hold" /\ UNCHANGED <<scoped, results, failures, i>>
       ELSE /\ scoped' = Outcome(IF spec'.type = "noAffected" THEN "no-affected" ELSE "unverifiable")
            /\ Result(IF d.carried /\ scoped'.kind = "no-affected" THEN "unverifiable"
                      ELSE judgeScoped(scoped', Recheck("none")))
            /\ i' = i + 1 /\ pc' = pc
  /\ recheck' = Recheck("none")
  /\ UNCHANGED <<w, d, dod, budget, scopes, proc, survivors, ref, verdict>>

\* acquireHold: one acquisition per scope; a spent budget is a busy slot.
Hold(outcome) ==
  scopes' = [scopes EXCEPT ![i].hold = outcome, ![i].slot = IF outcome = "held" THEN "held" ELSE @]

\* A run that never started: the outcome of the attempt.
Blocked(kind) ==
  IF spec.type = "spec" /\ spec.mode = "rerun"
    THEN /\ recheck' = Recheck(IF kind = "aborted" THEN "skipped-deadline" ELSE "unusable")
         /\ pc' = "dispose" /\ UNCHANGED scoped
    ELSE /\ scoped' = Outcome(kind) /\ pc' = "judge" /\ UNCHANGED recheck

Acquire ==
  /\ pc = "hold" /\ scopes[i].hold = "none"
  /\ \E outcome \in {"held", "slot-busy", "error"} :
       /\ Spent => outcome = "slot-busy"
       /\ Hold(outcome)
       /\ IF outcome = "held" THEN pc' = "launch" /\ UNCHANGED <<scoped, recheck>> ELSE Blocked(outcome)
  /\ UNCHANGED <<w, d, dod, i, results, failures, budget, spec, proc, survivors, ref, verdict>>

\* attempt: the process is spawned unless the budget ran out meanwhile.
Launch ==
  /\ pc = "launch"
  /\ \/ /\ Spent /\ Blocked("aborted") /\ UNCHANGED <<proc, scopes>>
     \/ /\ ~Spent /\ Blocked("error") /\ UNCHANGED <<proc, scopes>>
     \/ /\ ~Spent /\ proc' = "live" /\ pc' = "running"
        /\ scopes' = [scopes EXCEPT ![i].inflight = @ \cup {"run"}]
        /\ UNCHANGED <<scoped, recheck>>
  /\ UNCHANGED <<w, d, dod, i, results, failures, budget, spec, ref, verdict, survivors>>

\* exec.ts: the run's own bound or the deadline's abort kills the process tree.
Kill ==
  /\ proc = "live" /\ proc' = "dying"
  /\ UNCHANGED <<w, d, dod, pc, i, results, failures, budget, scopes, spec, scoped, recheck, ref, verdict, survivors>>

\* A result of the rerun at the reference, and what it is worth (rerunAt).
rerunOutcome(r) ==
  IF ~r.complete \/ r.collectionError \/ r.total = 0 THEN Recheck("unusable")
  ELSE [kind |-> "exact", ran |-> spec.inputs, absent |-> recheck.absent, failing |-> r.failingIds]

\* The run settles: its process has ended, or KILL_GRACE_MS after a kill it is
\* left to itself.  Killed, it timed out (or was cut by the deadline); else its
\* result is read.  A shell check's result is its exit code.
Exit ==
  /\ pc = "running" /\ proc \in {"live", "dying"}
  /\ proc' = "none"
  /\ \/ UNCHANGED survivors
     \/ proc = "dying" /\ survivors' = survivors \cup {i}
  /\ scopes' = [scopes EXCEPT ![i].inflight = @ \ {"run"}]
  /\ \E report \in {"full", "none"}, code \in {0, 1}, fails \in FailsAt(spec) :
       /\ spec.type # "spec" => report = "none"
       /\ spec.type # "shell" => code = 0
       /\ LET now == Left(spec, fails, report)
              stopped == IF proc = "dying" THEN (IF Spent THEN "aborted" ELSE "timed-out") ELSE "none"
              rerun == spec.type = "spec" /\ spec.mode = "rerun"
          IN CASE rerun ->
                    /\ pc' = "dispose" /\ UNCHANGED scoped
                    /\ recheck' = IF stopped # "none" THEN Recheck("timed-out") ELSE rerunOutcome(readResult(spec, now))
               [] ~rerun /\ stopped # "none" -> scoped' = Outcome(stopped) /\ pc' = "judge" /\ UNCHANGED recheck
               [] stopped = "none" /\ spec.type = "shell" ->
                    scoped' = [kind |-> "exit", code |-> code] /\ pc' = "judge" /\ UNCHANGED recheck
               [] OTHER ->
                    /\ scoped' = [kind |-> "ran",
                                  result |-> IF spec.type = "full" THEN synthesizeFullResult(now) ELSE readResult(spec, now)]
                    /\ pc' = "recheck" /\ UNCHANGED recheck
  /\ UNCHANGED <<w, d, dod, i, results, failures, budget, spec, ref, verdict>>

-----------------------------------------------------------------------------
(* The rerun of the failing files at the dispatch reference.               *)

\* Mutated form: a known cache directory is inert wherever it lies.
isInertUnreproducedAnywhere(e) == e.known
\* Ignored files no test reads: tool caches that lie where their kind may.
isInertUnreproduced(e) == e.known /\ AtOwnPlace(e)

\* recheckFor and recheck: whether there is something to rerun and a usable
\* reference; pytest imports the live sources and is never rerun.
RecheckableFor(det) ==
  CASE scoped.result.failingIds = {} -> "none"
       [] w.reference = "disabled" -> "disabled"
       [] w.reference = "none" -> "unusable"
       [] budget # "ample" -> "skipped-deadline"
       [] isS6(det) -> "unusable"
       [] det.kind = "pytest" -> "unusable"
       [] OTHER -> "go"

StartRecheck ==
  /\ pc = "recheck"
  /\ \E found \in {RecheckableFor(detectImpl(w, JsKinds \cup {"pytest"}))} :
       IF found = "go" THEN pc' = "materialize" /\ UNCHANGED recheck
       ELSE pc' = "judge" /\ recheck' = Recheck(found)
  /\ UNCHANGED <<w, d, dod, i, results, failures, budget, scopes, spec, proc, survivors, scoped, ref, verdict>>

\* materialize and the start of rerunAt: the failing files that exist at the
\* reference are planned again there.
Materialize ==
  /\ pc = "materialize"
  /\ \/ /\ pc' = "judge" /\ recheck' = Recheck(IF Spent THEN "skipped-deadline" ELSE "unusable")
        /\ UNCHANGED <<ref, spec>>
     \/ /\ ~Spent /\ ref' = "present"
        /\ LET files == {id.file : id \in scoped.result.failingIds}
               here == files \cap w.atRef
               none == [Recheck("exact") EXCEPT !.absent = files \ w.atRef]
           IN \E again \in {planRerun(w, detectImpl(w, JsKinds \cup {"pytest"}), files, w.atRef)} :
              CASE w.reference = "approximate" -> pc' = "dispose" /\ recheck' = Recheck("approximate") /\ UNCHANGED spec
                [] \E e \in w.unreproduced : ~isInertUnreproduced(e) ->
                     pc' = "dispose" /\ recheck' = Recheck("unusable") /\ UNCHANGED spec
                [] here = {} -> pc' = "dispose" /\ recheck' = none /\ UNCHANGED spec
                [] again.type # "spec" -> pc' = "dispose" /\ recheck' = Recheck("unusable") /\ UNCHANGED spec
                [] OTHER -> pc' = "launch" /\ recheck' = [none EXCEPT !.kind = "running"] /\ spec' = again
  /\ UNCHANGED <<w, d, dod, i, results, failures, budget, scopes, proc, survivors, scoped, verdict>>

\* The reference is removed in the background, tracked by the scope.
Dispose ==
  /\ pc = "dispose"
  /\ ref' = "removing" /\ pc' = "judge"
  /\ scopes' = [scopes EXCEPT ![i].inflight = @ \cup {"dispose"}]
  /\ UNCHANGED <<w, d, dod, i, results, failures, budget, spec, proc, survivors, scoped, recheck, verdict>>

DisposeDone(j) ==
  /\ "dispose" \in scopes[j].inflight
  /\ ref' = "none"
  /\ scopes' = [scopes EXCEPT ![j].inflight = @ \ {"dispose"}]
  /\ UNCHANGED <<w, d, dod, pc, i, results, failures, budget, spec, proc, survivors, scoped, recheck, verdict>>

-----------------------------------------------------------------------------
(* The end of a check and of the gate.                                     *)

\* blockedResult and the exit code of a shell check: running out of the
\* check's own time fails it, running out of the gate's does not.
shellResult ==
  CASE scoped.kind = "exit" -> IF scoped.code = 0 THEN "ok" ELSE "fail"
    [] scoped.kind = "timed-out" -> IF Spent THEN "unverifiable" ELSE "fail"
    [] OTHER -> "unverifiable"

\* The check's result is known; its scope closes before the next check starts.
Judge ==
  /\ pc = "judge" /\ ~scopes[i].closed
  /\ scopes' = [scopes EXCEPT ![i].closed = TRUE]
  /\ pc' = "closing"
  /\ UNCHANGED <<w, d, dod, i, results, failures, budget, spec, proc, survivors, scoped, recheck, ref, verdict>>

\* Mutated form: close does not wait for what the scope still runs.
CloseReadyAtOnce(j) == scopes[j].closed
\* close: everything in flight settles first, then the slot is released.
CloseReady(j) == scopes[j].closed /\ scopes[j].inflight = {}
Release(j) ==
  /\ CloseReady(j) /\ scopes[j].slot \in {"held", "lost"}
  /\ scopes' = [scopes EXCEPT ![j].slot = "released"]
  /\ UNCHANGED <<w, d, dod, pc, i, results, failures, budget, spec, proc, survivors, scoped, recheck, ref, verdict>>

\* closeWithinDeadline: a testsPass check does not wait for the close past the
\* deadline; the other checks do.
NextCheck ==
  /\ pc = "closing"
  /\ \/ scopes[i].slot \in {"free", "released"} /\ scopes[i].inflight = {}
     \/ Kind = "testsPass" /\ budget # "ample"
  /\ Result(IF Kind = "testsPass" THEN judgeScoped(scoped, recheck) ELSE shellResult)
  /\ i' = i + 1 /\ pc' = "check" /\ spec' = NoSpec
  /\ UNCHANGED <<w, d, dod, budget, scopes, proc, survivors, scoped, recheck, ref, verdict>>

\* The checks are done: the verdict, unless the gate already timed out.
Finish ==
  /\ pc = "check" /\ i > Len(dod.checks)
  /\ pc' = "done"
  /\ verdict' = IF verdict = NoVerdict THEN runDeterministic(results, d.strict) ELSE verdict
  /\ UNCHANGED <<w, d, dod, i, results, failures, budget, scopes, spec, proc, survivors, scoped, recheck, ref>>

\* runChecker: the criteria that fit are graded by a session of its own.
Grade ==
  /\ pc = "grade" /\ pc' = "done"
  /\ LET fit == fitCriteria(dod.criteria)
     IN \E session \in {"own", "other", "none"}, text \in {"pass", "fail", "garbled"}, failed \in BOOLEAN :
          LET outcome == IF fit.kept = 0 \/ failed THEN "unverifiable"
                         ELSE gradeOutcome([session |-> session, text |-> text], fit.omitted)
          IN verdict' = IF verdict = NoVerdict
                          THEN gateResult(outcome, outcome = "unverifiable", FALSE, d.strict) ELSE verdict
  /\ UNCHANGED <<w, d, dod, i, results, failures, budget, scopes, spec, proc, survivors, scoped, recheck, ref>>

\* makeDeadline: the budget runs down.
Tick ==
  /\ pc \notin {"start", "done"}
  /\ budget' = IF budget = "ample" THEN "short" ELSE "spent"
  /\ budget # "spent"
  /\ UNCHANGED <<w, d, dod, pc, i, results, failures, scopes, spec, proc, survivors, scoped, recheck, ref, verdict>>

\* The caller's timer: the gate is answered without its checks, which go on
\* in the background until they notice the abort.
GateTimeout ==
  /\ Spent /\ verdict = NoVerdict /\ pc # "done"
  /\ verdict' = unverifiableGateResult(failures, d.strict)
  /\ UNCHANGED <<w, d, dod, pc, i, results, failures, budget, scopes, spec, proc, survivors, scoped, recheck, ref>>

\* Another process reclaims the slot (onLost); the run goes on and is noted.
SlotLost(j) ==
  /\ scopes[j].slot = "held"
  /\ scopes' = [scopes EXCEPT ![j].slot = "lost"]
  /\ UNCHANGED <<w, d, dod, pc, i, results, failures, budget, spec, proc, survivors, scoped, recheck, ref, verdict>>

Next ==
  \/ Begin \/ PureCheck \/ StartCommand \/ StartTests \/ Acquire \/ Launch \/ Kill \/ Exit
  \/ StartRecheck \/ Materialize \/ Dispose \/ Judge \/ NextCheck \/ Finish \/ Grade \/ Tick \/ GateTimeout
  \/ \E j \in DOMAIN scopes : DisposeDone(j) \/ Release(j) \/ SlotLost(j)

Spec == Init /\ [][Next]_vars

-----------------------------------------------------------------------------
(* The promises.                                                           *)

\* The tests a change reaches, as far as the planner follows it: changed tests;
\* tests that name a changed source or a deleted test (through the import graph
\* for the JS runners, unless the file is gone); for a deleted module the tests that name
\* the package re-exporting it; and every test when a conftest, a trigger or a
\* setup file changed or a conftest names a changed file.
Reached ==
  LET js == detectImpl(w, JsKinds \cup {"pytest"}).kind \in JsKinds
      ch == w.changed \ Docs
      live == ch \cap w.exists
      naming(S) == {t \in Tests : w.mentions[t] \cap S # {}}
      reexported == {PackageOf[m] : m \in {n \in ch \cap Modules : n \notin w.exists /\ PackageOf[n] # "none"
                                                                  /\ n \in w.mentions[PackageOf[n]]}}
      packages == {t \in Tests : \E n \in w.mentions[t] \cap Modules : PackageOf[n] \in ch}
      all == \/ ch \cap Configs # {}
             \/ js /\ \E f \in ch \cap Setups : w.setup[f] # "none"
             \/ ~js /\ (ch \cap Conftests # {} \/ \E c \in Conftests \cap w.exists : w.mentions[c] \cap ch # {})
  IN IF all THEN Tests
     ELSE (ch \cap Tests) \cup naming(IF js THEN ch \ Tests ELSE ch \ (Tests \cap w.exists))
            \cup (IF js THEN Related(live) ELSE naming(reexported) \cup packages)

\* The tests the user's command runs.
Covered ==
  LET det == detectImpl(w, JsKinds \cup {"pytest"})
  IN {t \in det.scope \cap w.exists : det.kind = "pytest" => isPyTestFile(det, t)}

NewFailures == {id \in w.failsNow : id \notin w.failsRef}

\* A verdict "pass" with a testsPass check means that no test the change
\* reaches fails now without having failed at dispatch (planScopedRun,
\* readResult, judgeScoped).
PassIsSound ==
  verdict.outcome = "pass" /\ "testsPass" \in Range(dod.checks) =>
    ~\E id \in NewFailures : id.file \in Covered \cap Reached

\* A testsPass check is failed only for a failure that is new since dispatch
\* (recheck, rerunAt, judgeScoped).
FailIsIntroduced ==
  \A k \in DOMAIN results : dod.checks[k] = "testsPass" /\ results[k] = "fail" => NewFailures # {}

\* A slot is not given up while a command of its scope runs or its reference is
\* being removed.  Only a command that outlived its kill by the grace goes on
\* without a slot, and its check does not pass (attempt, track, close and
\* onGrace of exec.ts:296).
SlotCoversRuns ==
  /\ \A j \in DOMAIN scopes :
       (j = i /\ proc # "none") \/ scopes[j].inflight # {} => scopes[j].slot \in {"held", "lost"}
  /\ \A j \in survivors \cap DOMAIN results : results[j] # "ok"

\* A check that failed before the gate ran out of time is not lost with it
\* (onFailure and unverifiableGateResult).
NoFailureForgotten ==
  [][verdict = NoVerdict /\ verdict' # NoVerdict /\ failures # {} => verdict'.outcome = "fail" /\ ~verdict'.accepted]_vars

\* A scoped pytest command reads the configuration and has the rootdir of the
\* user's command, under every pytest release (pytestPin).
ConfigPinned ==
  pc = "hold" /\ spec.type = "spec" /\ spec.kind = "pytest" =>
    SameConfiguration(w.py, SetToSeq({DirOf[f] : f \in spec.inputs}), spec.pin)

\* What the gate says of the tests is right both ways (judgeScoped).
VerdictIsRight == PassIsSound /\ FailIsIntroduced
=============================================================================
