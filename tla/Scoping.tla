------------------------------- MODULE Scoping -------------------------------
(***************************************************************************)
(* The runner planner of verify/runner.ts: from a test (or lint) command   *)
(* and the files a dispatch changed to the scoped run that covers them,    *)
(* and from the run's report back to its result.                           *)
(*                                                                         *)
(* Every operator is a function of a world w, the facts the planner reads: *)
(*   w.cmd       the command, as the classes of its words (see Commands)   *)
(*   w.flaws     what is wrong with the repository or the host             *)
(*   w.exists    the files on disk                                         *)
(*   w.mentions  the files each file names in its text                     *)
(*   w.changed   the files changed since dispatch (when w.attributed)      *)
(*   w.scope     the tests inside the command's own path scopes            *)
(*   w.patterns  the python_files patterns each pytest release would use   *)
(*   w.setup     how the JS config names each setup file                   *)
(*   w.search    whether the test search answers                           *)
(*   w.py        what pytest's configuration lookup reads: the files of    *)
(*               each directory, the command's own arguments and options   *)
(* Names, globs, quoting and reasons are left out; a refusal keeps the     *)
(* code the source gives it (S6Code).                                      *)
(***************************************************************************)
EXTENDS PytestConfig

CONSTANTS
  Tests,            \* files a test pattern can match
  Modules,          \* source files
  Inits,            \* package __init__.py files
  Conftests,        \* conftest.py files
  Setups,           \* files a JS config may name as setup files
  Configs,          \* files whose name is a trigger of every runner
  Docs,             \* files that are no test input (isNonInput)
  PackageOf,        \* the __init__.py beside a module, or "none"
  NamedAfter,       \* the tests named after a module
  LikePackage,      \* modules named like their package (app/app.py)
  PatternOf,        \* the python_files pattern that matches a test
  DirOf,            \* the directory (see PytestConfig) a test is in
  SearchLimit,      \* SEARCH_LIMIT
  StemMatchLimit,   \* STEM_MATCH_LIMIT
  MaxInputs,        \* the inputs MAX_ARGV_CHARS leaves room for
  SetupRefLimit,    \* SETUP_REF_LIMIT
  MaxWorkers,       \* the worker budget of the configuration
  Cores             \* host.cores

Files == Tests \cup Modules \cup Inits \cup Conftests \cup Setups \cup Configs \cup Docs
JsKinds == {"vitest", "jest"}

S6(code) == [type |-> "unverifiable", code |-> code]
isS6(x) == x.type = "unverifiable"
noAffected == [type |-> "noAffected"]
unscoped == [type |-> "unscoped"]

\* The code of the first flaw of a list of early returns, in source order.
FirstFlaw(w, order) ==
  LET hit == SelectInSeq(order, LAMBDA c : c \in w.flaws)
  IN IF hit = 0 THEN "none" ELSE order[hit]

-----------------------------------------------------------------------------
(* Commands.  w.cmd is [env, head, tool, sub, opt, args]: the assignment   *)
(* before the command (none, cross-env or inline), its first word, the     *)
(* tool it names, the manager's subcommand, the manager's own options, and *)
(* the tool's arguments as a sequence of [t |-> class, cap |-> worker cap].*)
(* The positional filters of vitest and jest are dropped, so the scoped    *)
(* run is not narrower than the command; pytest's paths bound the scope.   *)

\* findComposite and tokenize: a composite command or an open quote is refused.
shellWords(w) == FirstFlaw(w, <<"composite", "unterminated-quote">>)

direct(tool, launcher) == [type |-> "direct", kind |-> tool, launcher |-> launcher]

\* The package-manager heads: a script, unless the manager's own options
\* change where it runs; "bun test" is Bun's own runner.
scriptInvocation(c) ==
  CASE c.head = "bun" /\ c.sub = "test" -> S6("bun-test")
    [] c.sub \notin {"test", "run"} -> S6("unsupported-command")
    [] c.opt = "location" \/ (c.head = "npm" /\ c.opt = "other") -> S6("unsupported-command")
    [] OTHER -> [type |-> "script", kind |-> c.tool, launcher |-> "script"]

parseInvocation(c, tools, allowScripts) ==
  CASE c.env = "inline" -> S6("inline-env")
    [] c.env = "cross-only" -> S6("unsupported-command")
    [] c.head = "tool" /\ c.tool \in tools -> direct(c.tool, "direct")
    [] c.head \in {"npx", "pnpm-exec"} /\ c.tool \in tools \ {"pytest"} -> direct(c.tool, c.head)
    [] c.head = "uv" /\ c.tool = "pytest" /\ "pytest" \in tools -> direct("pytest", "uv-run")
    [] c.head \in {"npm", "pnpm", "yarn", "bun"} /\ allowScripts -> scriptInvocation(c)
    [] OTHER -> S6("unsupported-command")

\* A worker cap: a count (0 only for pytest), a percentage (vitest and jest)
\* or "auto" (pytest and eslint); anything else is ignored with a note.
parseCap(kind, cap) ==
  CASE cap.type = "count" /\ (cap.n >= 1 \/ (cap.n = 0 /\ kind = "pytest")) -> cap
    [] cap.type = "percent" /\ kind \in JsKinds /\ cap.n \in 1..100 -> cap
    [] cap.type = "auto" /\ kind \in {"pytest", "eslint"} -> cap
    [] OTHER -> [type |-> "none", n |-> 0]

\* The argument tables: what becomes of a word of the class t.  "bad" refuses
\* the command, "ambiguous" does so because the next word may be its value.
ArgAction(kind, t, addopts) ==
  CASE t \in {"--", "help", "group"} -> "bad"
    [] t = "drop" -> "drop"
    [] t = "workers" -> "cap"
    [] t = "in-band" -> IF kind = "vitest" THEN "cap1-keep" ELSE "cap1-drop"
    [] t = "keep" -> "keep"
    [] t = "unknown" -> IF kind \in JsKinds THEN "bad" ELSE "keep"
    [] t = "unknown-value" -> IF kind \in JsKinds THEN "bad"
                              ELSE IF addopts THEN "keep" ELSE "ambiguous"
    [] t = "subcommand" -> IF kind = "vitest" THEN "unsupported" ELSE "drop"
    [] t = "word" -> IF addopts THEN "bad" ELSE IF kind \in JsKinds THEN "filter" ELSE "scope"
    [] t = "outside" -> IF kind \in JsKinds /\ ~addopts THEN "filter" ELSE "bad"

RefusedArg ==
  [bad |-> "unsupported-argument", ambiguous |-> "ambiguous-option", unsupported |-> "unsupported-subcommand"]

\* The last worker option wins.
processArgs(kind, args, addopts) ==
  LET act == [i \in DOMAIN args |-> ArgAction(kind, args[i].t, addopts)]
      refused == SelectInSeq(act, LAMBDA a : a \in DOMAIN RefusedArg)
      capped == SelectLastInSeq(act, LAMBDA a : a \in {"cap", "cap1-keep", "cap1-drop"})
      one == [type |-> "count", n |-> 1]
  IN IF refused # 0 THEN S6(RefusedArg[act[refused]])
     ELSE [type |-> "args",
           scoped |-> \E i \in DOMAIN args : act[i] = "scope",
           xdist |-> \E i \in DOMAIN args : act[i] = "cap",
           cap |-> IF capped = 0 THEN [type |-> "none", n |-> 0]
                   ELSE parseCap(kind, IF act[capped] = "cap" THEN args[capped].cap ELSE one)]

-----------------------------------------------------------------------------
(* Detection.                                                              *)

\* npm redirected to a workspace by the environment or by an .npmrc.
npmWorkspaceConfig(w) ==
  CASE "npm-workspace" \in w.flaws -> "unsupported-command"
    [] "npmrc-too-large" \in w.flaws -> "config-too-large"
    [] OTHER -> "none"

\* pytest's own facts: the python_files patterns of every release the command
\* may run under, and whether xdist and coverage are on.
pytestFacts(w, a) ==
  [patterns |-> UNION {w.patterns[r] : r \in DOMAIN w.patterns},
   xdist |-> a.xdist /\ "no-xdist" \notin w.flaws,
   cov |-> "cov" \in w.flaws]

detectedWith(w, inv, a) ==
  CASE inv.launcher = "npx" /\ npmWorkspaceConfig(w) # "none" -> S6(npmWorkspaceConfig(w))
    [] isS6(a) -> a
    [] inv.kind = "jest" /\ "bad-inline-config" \in w.flaws -> S6("unsupported-argument")
    [] inv.kind = "pytest" /\ "bad-addopts" \in w.flaws -> S6("unsupported-argument")
    [] OTHER -> [type |-> "detected", kind |-> inv.kind, launcher |-> inv.launcher,
                 cap |-> a.cap, py |-> pytestFacts(w, a),
                 scope |-> IF a.scoped THEN w.scope ELSE Tests]

finishDetection(w, inv) == detectedWith(w, inv, processArgs(inv.kind, w.cmd.args, FALSE))

\* A script is read from the nearest package.json; its text is a direct
\* invocation of a tool, with the words of the command after its own.
detectInvocation(w, inv, inner) ==
  LET ws == npmWorkspaceConfig(w)
      pkg == FirstFlaw(w, <<"no-package-json", "bad-package-json", "no-script">>)
  IN CASE "no-git-root" \in w.flaws -> S6("no-git-root")
       [] shellWords(w) # "none" -> S6(shellWords(w))
       [] isS6(inv) -> inv
       [] inv.type = "direct" -> finishDetection(w, inv)
       [] w.cmd.head = "npm" /\ ws # "none" -> S6(ws)
       [] pkg # "none" -> S6(pkg)
       [] isS6(inner) -> inner
       [] OTHER -> finishDetection(w, inner)

detectImpl(w, tools) ==
  detectInvocation(w, parseInvocation(w.cmd, tools, TRUE),
                   parseInvocation([w.cmd EXCEPT !.head = w.cmd.script], tools, FALSE))

\* The node executable JS tools run under: the configured one, this process
\* when it is node, else the first usable one on PATH.
resolveNode(w) == IF "node-not-found" \in w.flaws THEN "node-not-found" ELSE "none"

\* Where the tool is installed: uv and pytest on PATH or in a .venv, a JS tool
\* in node_modules with a bin entry inside its package.
resolveEntryImpl(w, kind, launcher) ==
  CASE launcher = "uv-run" \/ kind = "pytest" -> FirstFlaw(w, <<"runner-not-installed">>)
    [] OTHER ->
         LET flaw == FirstFlaw(w, <<"yarn-pnp", "runner-not-installed", "bad-bin">>)
         IN IF flaw # "none" THEN flaw ELSE resolveNode(w)

\* The report is written to the temp directory, which must not be in the tree.
preflight(w, det) ==
  IF "tmpdir-in-repo" \in w.flaws THEN "tmpdir-in-repo"
  ELSE resolveEntryImpl(w, det.kind, det.launcher)

-----------------------------------------------------------------------------
(* Changed files.                                                          *)

isPyTestFile(det, f) == f \in Tests /\ PatternOf[f] \in det.py.patterns
isNonInput(f) == f \in Docs

\* Files whose change may reach any test: trigger names, and for the JS
\* runners the setup files the configuration names literally or by a path
\* whose head it computes ("floating": matched by its tail).
configLiterals(w) == {f \in Setups : w.setup[f] = "literal"}
floatingTails(w) == {f \in Setups : w.setup[f] = "floating"}
jsConfigFacts(w) == configLiterals(w) \cup floatingTails(w)
isTrigger(w, det, f) ==
  \/ f \in Configs
  \/ f \in Conftests /\ det.kind = "pytest"
  \/ f \in jsConfigFacts(w) /\ det.kind \in JsKinds
  \/ f \in Setups /\ w.setup[f] = "by-name" /\ det.kind \in JsKinds

jsCheapChecks(w, changed) ==
  LET live == {f \in changed : ~isNonInput(f) /\ f \in w.exists}
      gone == {f \in changed : ~isNonInput(f) /\ f \notin w.exists /\ f \notin Tests}
  IN IF Cardinality(gone) > SearchLimit THEN "too-many-searches"
     ELSE IF Cardinality(live) > MaxInputs THEN "argv-too-long" ELSE "none"

-----------------------------------------------------------------------------
(* The test search (git grep in the source): files that name a file.       *)

\* Files whose text contains the name of m.  A file that names a module names
\* its package too, and a module named like its package shares its name with
\* the package's importers.
findByContent(w, m) ==
  {f \in Tests \cup Conftests :
     /\ f \in w.exists
     /\ \/ m \in w.mentions[f]
        \/ m \in LikePackage /\ PackageOf[m] \in w.mentions[f]
        \/ \E n \in w.mentions[f] \cap Modules : PackageOf[n] = m}

\* The hits that name the module and not just its package; a file that cannot
\* be read is kept.
keepImporters(w, hits, m) == {f \in hits : m \in w.mentions[f] \/ f \in w.unreadable}

acceptHits(w, det, hits) == {f \in hits : f \in w.exists /\ f \in det.scope}

\* A search result that cannot be turned into inputs: the search failed, a
\* conftest names the module, or too many tests do.
searchRefusal(w, content) ==
  CASE ~w.search -> "search-failed"
    [] content \cap Conftests # {} -> "unmapped-module"
    [] Cardinality(content) > StemMatchLimit -> "stem-too-common"
    [] OTHER -> "none"

\* An existing module: every test that names it, and the tests named after it.
moduleInputs(w, det, m) ==
  LET hits == {f \in findByContent(w, m) : f \in Conftests \/ isPyTestFile(det, f)}
      content == IF m \in LikePackage THEN keepImporters(w, hits, m) ELSE hits
      refusal == searchRefusal(w, content)
      ok == acceptHits(w, det, content \cup (NamedAfter[m] \cap w.exists))
  IN IF refusal # "none" THEN S6(refusal)
     ELSE IF ok = {} THEN S6("unmapped-module") ELSE [type |-> "inputs", files |-> ok]

\* Mutated form: the importers of the package that re-exports a deleted module
\* are left out.
reExportersNone(w, det, m) == {}
\* The importers of the package whose __init__.py still names a deleted
\* module; one that cannot be read is taken to name it.
reExporters(w, det, m) ==
  LET init == PackageOf[m]
  IN IF init # "none" /\ init \in w.exists /\ (m \in w.mentions[init] \/ init \in w.unreadable)
       THEN {f \in findByContent(w, init) : f \in Conftests \/ isPyTestFile(det, f)}
       ELSE {}

\* A deleted module: its importers, the tests named after it and the
\* importers of a package that re-exports it.
goneModuleInputs(w, det, m) ==
  LET hits == {f \in findByContent(w, m) : f \in Conftests \/ isPyTestFile(det, f)}
      extra == reExporters(w, det, m)
      refusal == searchRefusal(w, hits)
      refusal2 == searchRefusal(w, extra)
      ok == acceptHits(w, det, hits \cup extra \cup (NamedAfter[m] \cap w.exists))
  IN IF refusal # "none" THEN S6(refusal)
     ELSE IF refusal2 # "none" THEN S6(refusal2)
     ELSE IF ok = {} THEN S6("deleted-no-tests") ELSE [type |-> "inputs", files |-> ok]

\* A deleted test file: the tests that import it (none is fine).
goneTestInputs(w, det, t) ==
  LET hits == {f \in findByContent(w, t) : f \in Conftests \/ isPyTestFile(det, f)}
      refusal == searchRefusal(w, hits)
  IN IF refusal # "none" THEN S6(refusal) ELSE [type |-> "inputs", files |-> acceptHits(w, det, hits)]

\* A deleted JS source: the tests that name it, which must be some.
goneSourceInputs(w, m) ==
  LET hits == findByContent(w, m) \cap Tests
  IN CASE ~w.search -> S6("search-failed")
       [] hits = {} -> S6("deleted-no-tests")
       [] Cardinality(hits) > StemMatchLimit -> S6("stem-too-common")
       [] OTHER -> [type |-> "inputs", files |-> hits]

-----------------------------------------------------------------------------
(* The plan.                                                               *)

\* min(user cap, budget); a percentage is of the cores, "auto" is the cores.
effectiveWorkers(cap) ==
  LET least(a, b) == IF a < b THEN a ELSE b
      share == (cap.n * Cores + 99) \div 100
  IN CASE cap.type = "count" -> least(cap.n, MaxWorkers)
       [] cap.type = "percent" -> least(IF share < 1 THEN 1 ELSE share, MaxWorkers)
       [] cap.type = "auto" -> least(Cores, MaxWorkers)
       [] OTHER -> MaxWorkers

\* The options that keep a scoped pytest run on the command's configuration.
pytestAtInputs(w, det, inputs) ==
  LET p == w.py
      setups == pytestSetups(p.conf, p.explicit, p.args, p.cwd, p.rootdirGiven)
  IN IF det.kind # "pytest" THEN NoPin
     ELSE pytestPin(p.conf, p.explicit, setups, SetToSeq({DirOf[f] : f \in inputs}), p.cwd, p.extra, p.rootdirGiven)

pinnedSpec(det, inputs, mode, pin) ==
  CASE Cardinality(inputs) > MaxInputs -> S6("argv-too-long")
    [] pin.type = "refused" -> S6("unsupported-argument")
    [] OTHER ->
    [type |-> "spec", kind |-> det.kind, mode |-> mode, inputs |-> inputs, pin |-> pin,
     inputsAreTests |-> mode = "rerun" \/ det.kind = "pytest",
     workers |-> IF det.kind = "pytest" /\ ~det.py.xdist THEN 0 ELSE effectiveWorkers(det.cap)]

buildSpec(w, det, inputs, mode) == pinnedSpec(det, inputs, mode, pytestAtInputs(w, det, inputs))

\* What each changed file asks for: an input of its own, a search, or nothing.
pytestParts(w, det, changed) ==
  LET inputs == {f \in changed : ~isNonInput(f) /\ f \notin Setups}
  IN [own |-> {f \in inputs : f \in w.exists /\ isPyTestFile(det, f) /\ f \in det.scope},
      modules |-> {f \in inputs : f \in w.exists /\ ~isPyTestFile(det, f)},
      goneInits |-> {f \in inputs : f \notin w.exists /\ f \in Inits},
      goneTests |-> {f \in inputs : f \notin w.exists /\ isPyTestFile(det, f)},
      goneModules |-> {f \in inputs : f \notin w.exists /\ ~isPyTestFile(det, f) /\ f \notin Inits}]

\* Every part of a plan is mapped or the plan is refused; nothing to run is
\* reported only when no part is left.
Combine(w, det, own, parts) ==
  LET inputs == own \cup UNION {p.files : p \in {q \in parts : ~isS6(q)}}
      flaw == preflight(w, det)
  IN IF \E p \in parts : isS6(p) THEN CHOOSE p \in parts : isS6(p)
     ELSE IF inputs = {} THEN noAffected
     ELSE IF flaw # "none" THEN S6(flaw)
     ELSE buildSpec(w, det, inputs, "related")

classifyPytest(w, det, changed) ==
  LET p == pytestParts(w, det, changed)
  IN CASE p.goneInits # {} -> S6("unmapped-module")
       [] Cardinality(p.modules \cup p.goneModules \cup p.goneTests) > SearchLimit -> S6("too-many-searches")
       [] OTHER -> Combine(w, det, p.own,
                     {moduleInputs(w, det, m) : m \in p.modules}
                       \cup {goneModuleInputs(w, det, m) : m \in p.goneModules}
                       \cup {goneTestInputs(w, det, t) : t \in p.goneTests})

classifyJs(w, det, changed) ==
  LET inputs == {f \in changed : ~isNonInput(f)}
      gone == {f \in inputs : f \notin w.exists /\ f \notin Tests}
  IN IF Cardinality(gone) > SearchLimit THEN S6("too-many-searches")
     ELSE Combine(w, det, inputs \cap w.exists, {goneSourceInputs(w, m) : m \in gone})

classify(w, det, changed) ==
  IF det.kind = "pytest" THEN classifyPytest(w, det, changed) ELSE classifyJs(w, det, changed)

\* The plan of a command: the checks before the changed files are mapped, and
\* the mapping.
planDetected(w, det) ==
  LET cheap == jsCheapChecks(w, w.changed)
      js == det.kind \in JsKinds
  IN CASE ~w.attributed -> S6("attribution-unavailable")
       [] w.changed = {} -> noAffected
       [] isS6(det) -> det
       [] "paths-outside" \in w.flaws -> S6("attribution-unavailable")
       [] js /\ cheap # "none" -> S6(cheap)
       [] js /\ Cardinality(jsConfigFacts(w)) > SetupRefLimit -> S6("config-too-large")
       [] \E f \in w.changed : isTrigger(w, det, f) -> S6("config-changed")
       [] OTHER -> classify(w, det, w.changed)

planScopedRun(w) == planDetected(w, detectImpl(w, JsKinds \cup {"pytest"}))

\* The files of a failing run, rerun at the reference: those that exist there.
planRerun(w, det, files, existing) ==
  LET inputs == files \cap existing
      flaw == preflight(w, det)
  IN CASE "no-git-root" \in w.flaws -> S6("no-git-root")
       [] inputs = {} -> noAffected
       [] flaw # "none" -> S6(flaw)
       [] OTHER -> buildSpec(w, det, inputs, "rerun")

\* Lint is scoped to the changed files it can see, or runs as it stands.
lintDetected(w, det) ==
  LET inputs == {f \in w.changed : f \in w.exists /\ f \notin Docs}
  IN CASE ~w.attributed -> unscoped
       [] w.changed = {} -> noAffected
       [] isS6(det) -> unscoped
       [] "paths-outside" \in w.flaws \/ \E f \in w.changed : f \in Configs -> unscoped
       [] inputs = {} -> noAffected
       [] resolveEntryImpl(w, "eslint", det.launcher) # "none" -> unscoped
       [] "old-eslint-max-warnings" \in w.flaws \/ Cardinality(inputs) > MaxInputs -> unscoped
       [] OTHER -> [type |-> "spec", kind |-> "eslint", mode |-> "lint", inputs |-> inputs,
                    inputsAreTests |-> FALSE, workers |-> effectiveWorkers(det.cap)]

planScopedLint(w) == lintDetected(w, detectImpl(w, {"eslint"}))

-----------------------------------------------------------------------------
(* The result of a run.  x is what the run left behind: [code, ran,        *)
(* failed, report, named]: its exit code, the tests it ran, those that     *)
(* failed, the report ("full", "unmapped", "garbled" or "none") and the    *)
(* failures its text output names.                                         *)

\* A runner that exits with a failure code but reports none is incomplete.
finishResult(ids, collectionError, total, exitOk, forced) ==
  [failingIds |-> ids, collectionError |-> collectionError, total |-> total, source |-> "report",
   complete |-> ~forced /\ ~(~exitOk /\ ids = {} /\ ~collectionError)]

\* Every failing test is in the report.
parseJestJson(x) == finishResult(x.failed, x.collectionError, Cardinality(x.ran), x.code = 0, FALSE)

\* A case that maps to no test file, or a usage error, makes the report
\* incomplete; exit code 5 is a run that collected nothing.
parseJunit(x) ==
  finishResult(x.failed, x.collectionError, Cardinality(x.ran), x.code \in {0, 5},
               x.report = "unmapped" \/ x.code \in {3, 4})

\* No report: the text output is all there is, and it is never complete.
textResult(x) ==
  [failingIds |-> x.named, collectionError |-> x.code # 0, total |-> -1, source |-> "text", complete |-> FALSE]

\* A run of test files that ran nothing shows nothing.
zeroTestsGuard(spec, r) ==
  IF r.total # 0 \/ ~r.complete \/ r.failingIds # {} \/ r.collectionError \/ spec.inputs = {} THEN r
  ELSE [r EXCEPT !.complete = ~(spec.inputsAreTests \/ spec.inputs \cap Tests # {})]

readResult(spec, x) ==
  IF x.report \in {"none", "garbled"} THEN textResult(x)
  ELSE zeroTestsGuard(spec, IF spec.kind = "pytest" THEN parseJunit(x) ELSE parseJestJson(x))

=============================================================================
