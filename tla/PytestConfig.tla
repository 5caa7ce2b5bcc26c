---------------------------- MODULE PytestConfig ----------------------------
(***************************************************************************)
(* Which configuration file and rootdir a pytest command uses, and how the *)
(* planner of verify/runner.ts keeps a scoped command on the same ones.    *)
(*                                                                         *)
(* pytest picks both from its arguments, so a command over other files may *)
(* pick others, and its releases differ in the files they look at.  The    *)
(* planner does not know the release: it follows the lookup of each one.   *)
(* The directories are one chain, 1 (the git root) to the deepest; in a    *)
(* chain the common path of some directories is the least of them.         *)
(* conf[d] is the set of files in directory d, of: "toml" (pytest.toml),   *)
(* "ini" (pytest.ini), "dot" (.pytest.ini), "bare" (a pyproject.toml with  *)
(* no pytest table), "setup.py" and "conftest".                            *)
(***************************************************************************)
EXTENDS Integers, Sequences, FiniteSets, SequencesExt

NoPath == [dir |-> 0, name |-> "none"]
ConfigFiles == {"toml", "ini", "dot", "bare", "setup.py", "conftest"}

\* What a lookup reads: the files of each directory, and the directories the
\* command names and runs in.
IsLookup(p) ==
  /\ p.conf \in Seq(SUBSET ConfigFiles)
  /\ p.cwd \in Nat \ {0} /\ p.args \in Seq(Nat \ {0}) /\ p.extra \in Seq(Nat \ {0})
  /\ p.rootdirGiven \in BOOLEAN

\* The names of a release's lookup line, in order (PYTEST_CONFIG_LINES).
Lines == << <<"toml", "ini", "dot">>, <<"ini", "dot">>, <<"ini">> >>

\* The releases: their lookup line, and whether a pyproject.toml without a
\* pytest table still fixes the rootdir (PYTEST_SETUPS).
Releases == << [line |-> 1, pyproject |-> TRUE], [line |-> 2, pyproject |-> TRUE],
               [line |-> 2, pyproject |-> FALSE], [line |-> 3, pyproject |-> FALSE] >>

\* A lookup's outcome: the ini file, the file whose values apply (parsed), and
\* the rootdir (0 while undecided, or given on the command line).
Setup(ini, config, rootdir) == [ini |-> ini, config |-> config, rootdir |-> rootdir]
NoSetup == Setup(NoPath, NoPath, 0)

Dirs(conf) == DOMAIN conf
Least(S) == CHOOSE x \in S : \A y \in S : x <= y
Greatest(S) == CHOOSE x \in S : \A y \in S : x >= y
commonPath(dirs) == Least(Range(dirs))

\* The file name of directory d is there and has a pytest table or section
\* (iniPytest, tomlPytest); "bare" is a pyproject.toml that has none.
parsePytestConfig(conf, d, name) == name \in conf[d]

\* The first name of a release's line that directory d holds and that is
\* accepted as a pytest configuration.
ConfigIn(conf, v, d) ==
  LET hit == SelectInSeq(Lines[v.line], LAMBDA n : parsePytestConfig(conf, d, n))
  IN IF hit = 0 THEN NoPath ELSE [dir |-> d, name |-> Lines[v.line][hit]]

\* One argument's walk, from its directory up to the root or to stop (excluded).
WalkUp(conf, v, from, stop) ==
  LET seen == {d \in Dirs(conf) : d <= from /\ d > stop}
      at == {d \in seen : ConfigIn(conf, v, d) # NoPath}
  IN IF at = {} THEN NoPath ELSE ConfigIn(conf, v, Greatest(at))

SetupAt(c) == Setup(c, c, c.dir)

\* The first argument with a configuration above it; failing that, the first
\* pyproject.toml met on the way.
locateConfig(conf, v, args, stop) ==
  LET hit == SelectInSeq(args, LAMBDA a : WalkUp(conf, v, a, stop) # NoPath)
      bares(a) == {d \in Dirs(conf) : d <= a /\ d > stop /\ "bare" \in conf[d]}
      bare == SelectInSeq(args, LAMBDA a : bares(a) # {})
  IN IF hit # 0 THEN SetupAt(WalkUp(conf, v, args[hit], stop))
     ELSE IF v.pyproject /\ bare # 0
       THEN LET d == Greatest(bares(args[bare])) IN Setup([dir |-> d, name |-> "bare"], NoPath, d)
     ELSE NoSetup

\* The nearest directory at or above from that holds a setup.py.
dirWithFile(conf, from, name) ==
  LET at == {d \in Dirs(conf) : d <= from /\ name \in conf[d]}
  IN IF at = {} THEN 0 ELSE Greatest(at)

\* The lookup of one release: above the common ancestor, by its setup.py, then above each
\* argument.
lookup(conf, v, args, cwd, ancestor, rootdirGiven) ==
  LET choose(first, setupPy, second) ==
        IF first.ini # NoPath \/ rootdirGiven THEN first
        ELSE IF setupPy # 0 THEN Setup(NoPath, NoPath, setupPy)
        ELSE IF args # <<ancestor>> /\ second.ini # NoPath THEN second
        ELSE Setup(NoPath, NoPath, Least({cwd, ancestor}))
  IN choose(locateConfig(conf, v, <<ancestor>>, 0), dirWithFile(conf, ancestor, "setup.py"),
            locateConfig(conf, v, IF args = <<>> THEN <<cwd>> ELSE args, ancestor))

\* The lookup of every release for a command over args run in cwd.
pytestSetups(conf, explicit, args, cwd, rootdirGiven) ==
  LET ancestor == IF args = <<>> THEN cwd ELSE commonPath(args)
      rooted(s) == IF rootdirGiven THEN [s EXCEPT !.rootdir = 0] ELSE s
  IN [r \in DOMAIN Releases |->
       rooted(IF explicit # NoPath THEN Setup(explicit, explicit, explicit.dir) 
              ELSE lookup(conf, Releases[r], args, cwd, ancestor, rootdirGiven))]

\* The one pyproject.toml that every release that looks at one uses, when no
\* release has a configuration and no conftest.py lies above the root.
bareProject(conf, setups, root) ==
  LET inis == {setups[r].ini : r \in DOMAIN setups} \ {NoPath}
  IN IF /\ Cardinality(inis) = 1 /\ root # 0
        /\ \A r \in DOMAIN setups : setups[r].config = NoPath
        /\ \A d \in Dirs(conf) : d < root => "conftest" \notin conf[d]
       THEN CHOOSE p \in inis : TRUE ELSE NoPath

Pin(config, root) == [type |-> "pin", config |-> config, root |-> root]
NoPin == Pin(NoPath, 0)
Refused == [type |-> "refused", config |-> NoPath, root |-> 0]

\* Mutated form: a lookup that differs at the inputs is not noticed.
InputsAgreeAlways(conf, setups, at) == TRUE
\* At the inputs' common directory every release finds the same file.
InputsAgree(conf, setups, at) ==
  \A r \in DOMAIN setups : locateConfig(conf, Releases[r], <<at>>, 0).ini = setups[r].ini

\* The options that keep a run over the inputs F (with the kept path values
\* extra) on the configuration of the user's command: none when it is explicit
\* or F leads to the same one anyway, else -c and --rootdir, else a refusal.
pytestPin(conf, explicit, setups, F, cwd, extra, rootdirGiven) ==
  LET agree(own) == \A r \in DOMAIN setups :
                      own[r].ini = setups[r].ini /\ own[r].rootdir = setups[r].rootdir
      unpinned == IF agree(pytestSetups(conf, NoPath, extra \o F, cwd, rootdirGiven)) THEN NoPin ELSE Refused
      roots == {setups[r].rootdir : r \in DOMAIN setups}
      root == IF rootdirGiven THEN 0 ELSE CHOOSE x \in roots : TRUE
      configs == {setups[r].config : r \in DOMAIN setups}
      bare == bareProject(conf, setups, root)
  IN IF explicit # NoPath THEN NoPin
     ELSE IF ~rootdirGiven /\ Cardinality(roots) > 1 THEN unpinned
     ELSE IF Cardinality(configs) = 1 /\ configs # {NoPath} THEN Pin(setups[1].config, root)
     ELSE IF InputsAgree(conf, setups, commonPath(extra \o F)) THEN Pin(NoPath, root)
     ELSE IF unpinned.type = "pin" THEN unpinned
     ELSE IF bare # NoPath THEN Pin(bare, root)
     ELSE Refused

\* The lookup pytest itself makes for the scoped command: a pinned file is
\* read (a pyproject.toml without a table has no values), a pinned rootdir
\* stops the search for one.
ScopedSetups(conf, pin, F, cwd, extra, rootdirGiven) ==
  LET given == rootdirGiven \/ pin.root # 0
      looked == pytestSetups(conf, NoPath, extra \o F, cwd, given)
  IN [r \in DOMAIN Releases |->
       Setup(IF pin.config # NoPath THEN pin.config ELSE looked[r].ini,
             IF pin.config = NoPath THEN looked[r].config
             ELSE IF pin.config.name = "bare" THEN NoPath ELSE pin.config,
             IF pin.root # 0 THEN pin.root ELSE looked[r].rootdir)]

\* The scoped command reads the values and has the rootdir of the user's
\* command, under every pytest release.  p is what the lookup reads, F the
\* directories of the scoped inputs.
SameConfiguration(p, F, pin) ==
  LET user == pytestSetups(p.conf, p.explicit, p.args, p.cwd, p.rootdirGiven)
      scoped == ScopedSetups(p.conf, pin, F, p.cwd, p.extra, p.rootdirGiven)
  IN p.explicit = NoPath =>
       \A r \in DOMAIN Releases : scoped[r].config = user[r].config /\ scoped[r].rootdir = user[r].rootdir

=============================================================================
