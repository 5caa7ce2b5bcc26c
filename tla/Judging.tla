------------------------------ MODULE Judging --------------------------------
(***************************************************************************)
(* The decisions of the verification gate: the definition of done of a     *)
(* dispatch (verify/dod.ts), what a return text admits and how a grader is *)
(* chosen and read (verify/checker.ts), the attribution of test failures   *)
(* (verify/baseline.ts) and the verdict (verify/gate.ts).                  *)
(*                                                                         *)
(* A failing test is [file, case]; the case 0 is the bare file, a file     *)
(* that could not be collected.  A check's result is "ok", "fail" or       *)
(* "unverifiable".  Texts are the classes of their lines and words.        *)
(***************************************************************************)
EXTENDS Scoping

CONSTANTS
  CriteriaBudget,   \* CRITERIA_BUDGET_CHARS
  Ladder            \* the tiers, cheapest first

CheckKinds == {"fileExists", "run", "testsPass", "buildPasses", "lintClean", "schemaMatch"}

-----------------------------------------------------------------------------
(* The definition of done.  A dispatch text is a sequence of lines         *)
(* [t |-> class, v |-> value]: "open", "close", "check" (v its kind),      *)
(* "criteria" (v its length), "directive", "text" (v its words).           *)

NoDoD == [kind |-> "none", checks |-> <<>>, criteria |-> <<>>, source |-> "none"]

normalizeDoD(checks, criteria, source) ==
  [kind |-> IF checks # <<>> THEN "deterministic" ELSE IF criteria # <<>> THEN "checker" ELSE "none",
   checks |-> checks, criteria |-> criteria, source |-> source]

\* The first [acceptance] block; a block that is never closed is none.
parseAcceptanceBlock(lines) ==
  LET open == SelectInSeq(lines, LAMBDA l : l.t = "open")
      rest == SubSeq(lines, open + 1, Len(lines))
      close == SelectInSeq(rest, LAMBDA l : l.t = "close")
      inner == SubSeq(rest, 1, close - 1)
      valuesOf(t, S) == LET ls == SelectSeq(inner, LAMBDA l : l.t = t /\ l.v \in S)
                        IN [i \in DOMAIN ls |-> ls[i].v]
  IN IF open = 0 \/ close = 0 THEN NoDoD
     ELSE normalizeDoD(valuesOf("check", CheckKinds), valuesOf("criteria", 1..CriteriaBudget + 1), "explicit")

\* The category of a task by its words, and the checks it stands for when the
\* repository's commands are known (hints).
Category(words, hints) ==
  CASE "fix" \in words -> "bugfix"
    [] "refactor" \in words -> "refactor"
    [] "write" \in words /\ "path" \in hints -> "writeFile"
    [] "implement" \in words -> "impl"
    [] "test" \in words -> "test"
    [] OTHER -> "unknown"

inferDoD(lines, hints) ==
  LET category == Category(UNION {l.v : l \in {m \in Range(lines) : m.t = "text"}}, hints)
      wanted == CASE category \in {"bugfix", "impl"} -> <<"buildPasses", "testsPass">>
                  [] category = "refactor" -> <<"buildPasses", "lintClean">>
                  [] category = "writeFile" -> <<"fileExists">>
                  [] category = "test" -> <<"testsPass">>
                  [] OTHER -> <<>>
      checks == SelectSeq(wanted, LAMBDA k : k = "fileExists" \/ k \in hints)
  IN normalizeDoD(checks, IF checks = <<>> THEN <<1>> ELSE <<>>, "inferred")

isCheckable(dod) == dod.kind # "none" /\ (dod.checks # <<>> \/ dod.criteria # <<>>)

\* The criteria that fit the budget, taken in order, longer ones skipped.
fitCriteria(criteria) ==
  LET add(acc, n) == IF acc.used + n <= CriteriaBudget
                       THEN [acc EXCEPT !.used = @ + n, !.kept = @ + 1] ELSE [acc EXCEPT !.omitted = @ + 1]
  IN FoldLeft(add, [used |-> 0, kept |-> 0, omitted |-> 0], criteria)

-----------------------------------------------------------------------------
(* The producer's return.  text is "done", "note" (a progress note),       *)
(* "need-budget" (NEED MORE: budget) or "plain"; snap is the budget        *)
(* snapshot of its session.                                                *)

isProgressNote(text) == text = "note"
claimsNeedMoreBudget(text) == text = "need-budget"
\* The claim counts when the counters cannot refute it.
claimHonoured(snap) == ~snap.tracked \/ snap.usedUp \/ snap.readCapReached

\* A return that says the work is unfinished is never judged as a result.
incompleteVerdict(text, snap, contract) ==
  \/ snap.stopped /\ text \notin {"done", "need-budget"}
  \/ claimsNeedMoreBudget(text) /\ claimHonoured(snap)
  \/ contract /\ isProgressNote(text)

\* A grader's answer: its session ("own" when it is the producer's, "none"
\* when it has none) and its text ("pass", "fail" or anything unreadable).
parseGraderVerdict(text) == IF text \in {"pass", "fail"} THEN text ELSE "null"
gradeOutcome(answer, omitted) ==
  CASE answer.session \in {"own", "none"} -> "fail"
    [] parseGraderVerdict(answer.text) = "null" -> "fail"
    [] answer.text = "fail" -> "fail"
    [] OTHER -> IF omitted > 0 THEN "unverifiable" ELSE "pass"

-----------------------------------------------------------------------------
(* Attribution of test failures.                                           *)

fileKeyOfId(id) == id.file
bare(id) == id.case = 0

\* A whole-suite run has no report: its text output is complete when it exits
\* with 0 or its summary counts as many failures as it names.
observeTests(x) == [failures |-> x.named, complete |-> x.code = 0 \/ (x.named # {} /\ x.count = Cardinality(x.named))]
synthesizeFullResult(x) ==
  LET obs == observeTests(x)
  IN [failingIds |-> obs.failures, collectionError |-> x.code # 0 /\ obs.failures = {}, total |-> -1,
      source |-> "text", complete |-> obs.complete]

Recheck(kind) == [kind |-> kind, ran |-> {}, absent |-> {}, failing |-> {}]

\* A failure of the run c against the exact rerun r at the reference.
classOf(c, r, id) ==
  LET f == fileKeyOfId(id)
  IN IF f \in r.absent THEN "introduced"
     ELSE IF f \notin r.ran THEN "unknown"
     ELSE IF bare(id) THEN "introduced"
     ELSE IF id \in r.failing THEN "preexisting"
     ELSE IF c.source = "report" \/ f \notin {fileKeyOfId(x) : x \in r.failing} THEN "introduced"
     ELSE "unknown"
classifyFailures(c, r) == {classOf(c, r, id) : id \in c.failingIds}

\* The judgement of a testsPass check.
judgeScoped(scoped, recheck) ==
  LET c == scoped.result
      classes == classifyFailures(c, recheck)
  IN IF scoped.kind # "ran" THEN IF scoped.kind = "no-affected" THEN "ok" ELSE "unverifiable"
     ELSE IF c.failingIds = {} THEN IF c.complete /\ ~c.collectionError THEN "ok" ELSE "unverifiable"
     ELSE IF recheck.kind # "exact" THEN "unverifiable"
     ELSE IF "introduced" \in classes THEN "fail"
     ELSE IF "unknown" \notin classes /\ c.complete /\ ~c.collectionError THEN "ok"
     ELSE "unverifiable"

-----------------------------------------------------------------------------
(* The verdict.                                                            *)

NoVerdict == [outcome |-> "none", accepted |-> FALSE]
Skipped(accepted) == [outcome |-> "skipped", accepted |-> accepted]

\* Anything but a failure is accepted, unless the work is unfinished or the
\* configuration is strict about what could not be verified.
gateResult(outcome, caveats, incomplete, strict) ==
  [outcome |-> outcome, accepted |-> outcome # "fail" /\ ~incomplete /\ ~(strict /\ caveats)]

\* Mutated form: a gate that runs out of time forgets the checks that failed.
unverifiableGateResultBlank(completedFailures, strict) == gateResult("unverifiable", TRUE, FALSE, strict)
\* A gate without an answer keeps the failures already observed.
unverifiableGateResult(completedFailures, strict) ==
  gateResult(IF completedFailures # {} THEN "fail" ELSE "unverifiable", TRUE, FALSE, strict)

\* Every check is run; one failure fails the whole, and only all ok is a pass.
runDeterministic(results, strict) ==
  LET outcome == CASE "fail" \in Range(results) -> "fail"
                   [] \A i \in DOMAIN results : results[i] = "ok" -> "pass"
                   [] OTHER -> "unverifiable"
  IN gateResult(outcome, "unverifiable" \in Range(results), FALSE, strict)

\* What accept decides before any check runs; NoVerdict when it runs them.
\* at is where the checks would run against the work: "inside", "outside" the
\* work root, or "elsewhere" (every changed file is outside the directory).
accept(d, dod) ==
  CASE d.require = "never" -> Skipped(TRUE)
    [] d.trivial /\ dod.source = "inferred" -> Skipped(TRUE)
    [] ~isCheckable(dod) -> Skipped(d.trivial)
    [] incompleteVerdict(d.text, d.snap, d.contract) -> gateResult("unverifiable", TRUE, TRUE, d.strict)
    [] d.at = "outside" -> gateResult("unverifiable", TRUE, FALSE, d.strict)
    [] dod.kind = "deterministic" /\ d.at = "elsewhere" -> gateResult("unverifiable", TRUE, FALSE, d.strict)
    [] OTHER -> NoVerdict

=============================================================================
