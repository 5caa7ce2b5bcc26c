------------------------------- MODULE MCGate --------------------------------
(***************************************************************************)
(* Gate on families of cases: how changed files map to pytest and to JS    *)
(* tests, commands and repository flaws, pytest configurations, failures   *)
(* against a reference, and delegations.                                   *)
(***************************************************************************)
EXTENDS Gate

MCTests == {"t1", "t2"}
MCModules == {"m", "p"}
AllFiles == {"t1", "t2", "m", "p", "i", "c", "s", "k", "x"}
MCPackageOf == [f \in AllFiles |-> IF f \in MCModules THEN "i" ELSE "none"]
MCNamedAfter == [f \in AllFiles |-> IF f = "m" THEN {"t1"} ELSE {}]
MCPatternOf == [t1 |-> "prefix", t2 |-> "suffix"]
MCDirOf == [t1 |-> 2, t2 |-> 3]
MCLadder == <<"fast", "heavy">>

Id(f, n) == [file |-> f, case |-> n]
Cap(t, n) == [type |-> t, n |-> n]
Cmd(head, tool) ==
  [env |-> "none", shell |-> "plain", head |-> head, tool |-> tool, sub |-> "none", opt |-> "none",
   script |-> "tool", args |-> <<>>]
Py(conf, args, given) ==
  [conf |-> conf, explicit |-> NoPath, args |-> args, cwd |-> 1, extra |-> <<>>, rootdirGiven |-> given]

Base(cmd) ==
  [cmd |-> cmd, flaws |-> {}, exists |-> AllFiles, unreadable |-> {},
   mentions |-> [f \in AllFiles |-> IF f \in MCTests THEN {"m"} ELSE {}],
   attributed |-> TRUE, changed |-> {"m"}, scope |-> {"t1"}, patterns |-> <<{"prefix", "suffix"}, {"prefix"}>>,
   setup |-> [s |-> "none"], search |-> TRUE, py |-> Py(<<{}, {}, {}>>, <<>>, FALSE),
   failsNow |-> {Id("t2", 1)}, failsRef |-> {}, atRef |-> AllFiles, reference |-> "exact", unreproduced |-> {}]
Pytest == Base(Cmd("tool", "pytest"))
Vitest == Base(Cmd("tool", "vitest"))

Line(t, v) == [t |-> t, v |-> v]
Block(checks) == <<Line("open", 0)>> \o [j \in DOMAIN checks |-> Line("check", checks[j])] \o <<Line("close", 0)>>
D ==
  [require |-> "whenDoDPresent", trivial |-> FALSE, strict |-> FALSE, carried |-> FALSE, contract |-> TRUE,
   text |-> "done", snap |-> [stopped |-> FALSE, tracked |-> TRUE, usedUp |-> FALSE, readCapReached |-> FALSE],
   at |-> "inside", cwd |-> "absolute", file |-> "present", build |-> "script", testScope |-> "affected",
   hints |-> {}, lines |-> Block(<<"testsPass">>)]

Pairs(S) == {T \in SUBSET S : Cardinality(T) \in 1..2}
New == {<<{Id("t1", 1)}, {}>>, <<{Id("t2", 1)}, {}>>, <<{Id("t1", 1), Id("t2", 1)}, {Id("t1", 1)}>>}

\* Changed and deleted Python files, who names them, and what fails.
Mapping(base, files, first, second, third) ==
  UNION {UNION {{[base EXCEPT !.changed = ch, !.exists = AllFiles \ gone, !.failsNow = {id \in f[1] : id.file \notin gone},
                              !.failsRef = f[2],
                              !.mentions = [@ EXCEPT !["t1"] = a, !["t2"] = b, !["i"] = x[1], !["c"] = x[2], !["m"] = x[3]]] :
                   f \in New, a \in first, b \in second, x \in third} :
                 gone \in SUBSET ch} : ch \in Pairs(files)}
PyMapping ==
  Mapping(Pytest, {"t1", "m", "p", "i", "c", "x"}, {{"m"}, {"i"}}, {{"i"}, {"t1"}, {"p"}},
          {<<{}, {}, {}>>, <<{"m"}, {}, {}>>, <<{}, {"m"}, {}>>})
JsMapping ==
  Mapping(Vitest, {"t1", "m", "p", "k"}, {{"m"}, {"p"}}, {{}, {"m"}}, {<<{}, {}, {}>>, <<{}, {}, {"p"}>>})
    \cup {[Vitest EXCEPT !.changed = {"s"}, !.setup = [s |-> k]] : k \in {"none", "literal", "floating", "by-name"}}

\* Failures in the tree and at the reference, and how good the reference is.
Cache(scope, depth, inTests, read) == [known |-> TRUE, scope |-> scope, depth |-> depth, inTests |-> inTests, read |-> read]
Ids == {Id("t1", 0), Id("t1", 1), Id("t2", 1)}
Rechecked ==
  {[Vitest EXCEPT !.failsNow = now, !.failsRef = {id \in then : id.file \in at}, !.atRef = at,
                  !.reference = r[1], !.unreproduced = r[2]] :
     now \in SUBSET Ids, then \in SUBSET Ids, at \in {AllFiles, AllFiles \ {"t2"}},
     r \in {<<"exact", {}>>, <<"approximate", {}>>, <<"none", {}>>, <<"disabled", {}>>,
            <<"exact", {Cache("package", 2, FALSE, FALSE)}>>, <<"exact", {Cache("package", 2, TRUE, TRUE)}>>}}

\* Commands, their arguments, and what is wrong with the repository.
Flaws == {"composite", "unterminated-quote", "no-git-root", "npm-workspace", "npmrc-too-large", "no-package-json",
          "no-script", "bad-addopts", "bad-inline-config", "yarn-pnp", "runner-not-installed", "bad-bin",
          "node-not-found", "tmpdir-in-repo", "paths-outside", "config-too-large", "old-eslint-max-warnings"}
Heads == {Cmd("tool", t) : t \in {"vitest", "jest", "pytest", "eslint", "other"}}
           \cup {Cmd("npx", "vitest"), Cmd("pnpm-exec", "jest"), Cmd("uv", "pytest"), Cmd("unlisted", "vitest")}
           \cup {[Cmd(h, "vitest") EXCEPT !.sub = s, !.opt = o] :
                   h \in {"npm", "yarn", "bun"}, s \in {"test", "run", "install"}, o \in {"none", "location", "other"}}
           \cup {[Cmd("tool", "vitest") EXCEPT !.env = e] : e \in {"inline", "cross-only"}}
           \cup {[Cmd("tool", "vitest") EXCEPT !.shell = "composite"], [Cmd("interpreter", "vitest") EXCEPT !.opt = "eval"]}
Args == {<<[t |-> t, cap |-> Cap("count", 3)]>> :
           t \in {"--", "help", "drop", "workers", "in-band", "keep", "unknown", "unknown-value", "subcommand", "word", "outside"}}
Commands ==
  {Base(c) : c \in Heads}
    \cup {Base([Cmd("tool", t) EXCEPT !.args = a]) : t \in {"vitest", "pytest"}, a \in Args}
    \cup {[Base(c) EXCEPT !.flaws = {f}] : c \in {Cmd("npx", "vitest"), Cmd("tool", "pytest"), Cmd("tool", "eslint")}, f \in Flaws}
    \cup {[Pytest EXCEPT !.search = FALSE], [Pytest EXCEPT !.changed = {}], [Pytest EXCEPT !.attributed = FALSE],
          [Pytest EXCEPT !.patterns = <<{"suffix"}, {}>>], [Pytest EXCEPT !.unreadable = {"t1", "i"}]}

\* Configuration files along the way from the root to the tests.
ConfSets == {{}, {"ini"}, {"toml"}, {"bare"}, {"setup.py"}}
Configured ==
  {[Pytest EXCEPT !.py = Py(<<a, b, c>>, args, given), !.changed = {t}, !.failsNow = {},
                  !.cmd.args = [k \in DOMAIN args |-> [t |-> "word", cap |-> Cap("none", 0)]],
                  !.scope = {u \in MCTests : \E k \in DOMAIN args : MCDirOf[u] >= args[k]}] :
     a \in ConfSets \cup {{"conftest"}}, b \in ConfSets \cup {{"dot"}}, c \in {{}, {"ini"}, {"bare"}},
     args \in {<<>>, <<2>>, <<3>>, <<2, 3>>}, given \in BOOLEAN, t \in MCTests}

\* Delegations: the acceptance block or the text it is inferred from, where the
\* checks run, and what the producer returned.
Blocks == {Block(cs) : cs \in {<<k>> : k \in CheckKinds} \cup {<<"buildPasses", "testsPass">>, <<"lintClean", "fileExists">>}}
            \cup {<<Line("open", 0), Line("check", "run")>>, <<>>,
                  <<Line("open", 0), Line("criteria", 1), Line("criteria", 3), Line("close", 0)>>,
                  <<Line("open", 0), Line("criteria", 3), Line("close", 0)>>}
            \cup {<<Line("directive", {}), Line("text", {v})>> : v \in {"fix", "refactor", "write", "implement", "test", "other"}}
Delegations ==
  {[D EXCEPT !.lines = l, !.hints = h] : l \in Blocks, h \in {{}, {"testsPass", "buildPasses", "lintClean", "path"}}}
    \cup {[D EXCEPT !.lines = l, !.strict = TRUE, !.carried = c, !.file = f, !.build = b] :
            l \in {Block(<<"buildPasses", "testsPass">>), Block(<<"run">>), Block(<<"fileExists", "schemaMatch">>)},
            c \in BOOLEAN, f \in {"present", "absent", "unresolved", "missing", "matching"}, b \in {"tsconfig", "none"}}
    \cup {[D EXCEPT !.require = "never"], [D EXCEPT !.trivial = TRUE], [D EXCEPT !.at = "outside"],
          [D EXCEPT !.at = "elsewhere"], [D EXCEPT !.cwd = "relative"], [D EXCEPT !.testScope = "full"],
          [D EXCEPT !.trivial = TRUE, !.lines = <<Line("text", {"fix"})>>],
          [D EXCEPT !.text = "note"], [D EXCEPT !.text = "need-budget"], [D EXCEPT !.snap.stopped = TRUE, !.text = "plain"],
          [D EXCEPT !.text = "need-budget", !.snap.usedUp = TRUE]}

MCCases ==
  {[w |-> v, d |-> D] : v \in PyMapping \cup JsMapping \cup Rechecked \cup Commands \cup Configured}
    \cup {[w |-> v, d |-> e] : v \in {Vitest, [Pytest EXCEPT !.changed = {"x"}]}, e \in Delegations}
=============================================================================
