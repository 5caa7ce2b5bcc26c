----------------------------- MODULE GateProofs ------------------------------
(***************************************************************************)
(* Proofs about Gate, for any set of cases that satisfies its assumption:  *)
(* any repository, command, configuration chain, change and set of         *)
(* failures.                                                               *)
(***************************************************************************)
EXTENDS Gate, FiniteSetTheorems, WellFoundedInduction, TLAPS

-----------------------------------------------------------------------------
(* Pytest's configuration lookup.                                          *)

\* The file whose values apply is the ini file, unless that is a
\* pyproject.toml without a pytest table.
ConfigOf(ini) == IF ini.name = "bare" THEN NoPath ELSE ini
Sound(s) ==
  s = Setup(s.ini, s.config, s.rootdir) /\ s.config = ConfigOf(s.ini) /\ s.config.name # "bare"

LEMMA LeastNatural ==
  ASSUME NEW T \in SUBSET Nat, T # {}
  PROVE  \E m \in T : \A k \in T : m <= k
<1>1. PICK m \in T : \A k \in T : ~(<<k, m>> \in OpToRel(<, Nat))
  BY NatLessThanWellFounded, WFMin
<1>2. \A k \in T : m <= k
  <2> TAKE k \in T
  <2>1. <<k, m>> \in Nat \X Nat
    OBVIOUS
  <2>2. ~(k < m)
    BY <1>1, <2>1 DEF OpToRel
  <2> QED BY <2>2, k \in Nat, m \in Nat
<1> QED BY <1>2

LEMMA GreatestIsIn ==
  ASSUME NEW n \in Nat, NEW S \in SUBSET (1..n), S # {}
  PROVE  Greatest(S) \in S
<1> DEFINE T == {n - x : x \in S}
<1>1. T \in SUBSET Nat
  <2> SUFFICES ASSUME NEW x \in S PROVE n - x \in Nat
    OBVIOUS
  <2> QED BY x \in 1..n
<1>2. T # {}
  OBVIOUS
<1>3. PICK m \in T : \A k \in T : m <= k
  <2> HIDE DEF T
  <2> QED BY <1>1, <1>2, LeastNatural
<1>4. PICK x \in S : m = n - x
  BY <1>3
<1>5. \A y \in S : x >= y
  <2> TAKE y \in S
  <2>1. n - y \in T
    OBVIOUS
  <2> QED BY <2>1, <1>3, <1>4
<1> QED BY <1>4, <1>5 DEF Greatest

LEMMA FirstHit ==
  ASSUME NEW n \in Nat, NEW I \in SUBSET (1..n), I # {}
  PROVE  Min(I) \in I
<1>1. PICK m \in I : \A k \in I : m <= k
  BY LeastNatural, I \in SUBSET Nat
<1> QED BY <1>1 DEF Min

LEMMA ConfigInIsSound ==
  ASSUME NEW conf, NEW v \in Range(Releases), NEW dd
  PROVE  LET c == ConfigIn(conf, v, dd) IN c = NoPath \/ (c.dir = dd /\ c.name # "bare")
<1> DEFINE I == {k \in 1..Len(Lines[v.line]) : parsePytestConfig(conf, dd, Lines[v.line][k])}
<1>1. v.line \in 1..3
  BY DEF Releases, Range
<1>2. Len(Lines[v.line]) \in Nat /\ \A k \in 1..Len(Lines[v.line]) : Lines[v.line][k] # "bare"
  BY <1>1 DEF Lines
<1>3. CASE I = {}
  BY <1>3 DEF ConfigIn, SelectInSeq
<1>4. CASE I # {}
  <2>1. Min(I) \in I
    BY <1>2, <1>4, FirstHit
  <2> QED BY <2>1, <1>2, <1>4 DEF ConfigIn, SelectInSeq
<1> QED BY <1>3, <1>4

LEMMA WalkIsSound ==
  ASSUME NEW conf, NEW v \in Range(Releases), NEW from, NEW stop
  PROVE  LET c == WalkUp(conf, v, from, stop) IN c = NoPath \/ c.name # "bare"
BY ConfigInIsSound DEF WalkUp

LEMMA LocateIsSound ==
  ASSUME NEW conf, NEW v \in Range(Releases), NEW args, NEW stop
  PROVE  Sound(locateConfig(conf, v, args, stop))
<1> DEFINE hit == SelectInSeq(args, LAMBDA a : WalkUp(conf, v, a, stop) # NoPath)
           bares(a) == {dd \in Dirs(conf) : dd <= a /\ dd > stop /\ "bare" \in conf[dd]}
           chosen == SelectInSeq(args, LAMBDA a : bares(a) # {})
           c == WalkUp(conf, v, args[hit], stop)
           g == Greatest(bares(args[chosen]))
<1>1. locateConfig(conf, v, args, stop) \in
        {SetupAt(c), Setup([dir |-> g, name |-> "bare"], NoPath, g), NoSetup}
  BY DEF locateConfig
<1>2. Sound(SetupAt(c))
  BY WalkIsSound DEF Sound, SetupAt, Setup, ConfigOf, NoPath
<1>3. Sound(Setup([dir |-> g, name |-> "bare"], NoPath, g)) /\ Sound(NoSetup)
  BY DEF Sound, Setup, NoSetup, ConfigOf, NoPath
<1> HIDE DEF c, g
<1> QED BY <1>1, <1>2, <1>3

LEMMA LookupIsSound ==
  ASSUME NEW conf, NEW v \in Range(Releases), NEW args, NEW cwd, NEW ancestor, NEW given \in BOOLEAN
  PROVE  Sound(lookup(conf, v, args, cwd, ancestor, given))
<1> DEFINE first == locateConfig(conf, v, <<ancestor>>, 0)
           setupPy == dirWithFile(conf, ancestor, "setup.py")
           second == locateConfig(conf, v, IF args = <<>> THEN <<cwd>> ELSE args, ancestor)
           rest == Least({cwd, ancestor})
<1>1. Sound(first) /\ Sound(second)
  BY LocateIsSound
<1>2. Sound(Setup(NoPath, NoPath, setupPy)) /\ Sound(Setup(NoPath, NoPath, rest))
  BY DEF Sound, Setup, ConfigOf, NoPath
<1>3. lookup(conf, v, args, cwd, ancestor, given)
        \in {first, second, Setup(NoPath, NoPath, setupPy), Setup(NoPath, NoPath, rest)}
  BY DEF lookup
<1> HIDE DEF first, second, setupPy, rest
<1> QED BY <1>1, <1>2, <1>3

LEMMA WalkFinds ==
  ASSUME NEW conf \in Seq(SUBSET ConfigFiles), NEW v \in Range(Releases), NEW from, NEW stop,
         WalkUp(conf, v, from, stop) # NoPath
  PROVE  WalkUp(conf, v, from, stop).dir \in 1..Len(conf)
<1> DEFINE at == {dd \in {e \in Dirs(conf) : e <= from /\ e > stop} : ConfigIn(conf, v, dd) # NoPath}
<1>1. at # {} /\ WalkUp(conf, v, from, stop) = ConfigIn(conf, v, Greatest(at))
  BY DEF WalkUp
<1>2. at \in SUBSET (1..Len(conf)) /\ Len(conf) \in Nat
  BY DEF Dirs
<1>3. Greatest(at) \in at
  <2> HIDE DEF at
  <2> QED BY <1>1, <1>2, GreatestIsIn
<1>4. ConfigIn(conf, v, Greatest(at)).dir = Greatest(at)
  <2> HIDE DEF at
  <2> QED BY <1>1, ConfigInIsSound
<1> QED BY <1>1, <1>2, <1>3, <1>4

LEMMA LocateFinds ==
  ASSUME NEW conf \in Seq(SUBSET ConfigFiles), NEW v \in Range(Releases), NEW args \in Seq(Nat), NEW stop,
         locateConfig(conf, v, args, stop).ini # NoPath
  PROVE  locateConfig(conf, v, args, stop).rootdir \in 1..Len(conf)
<1> DEFINE hit == SelectInSeq(args, LAMBDA a : WalkUp(conf, v, a, stop) # NoPath)
           bares(a) == {dd \in Dirs(conf) : dd <= a /\ dd > stop /\ "bare" \in conf[dd]}
           I == {k \in 1..Len(args) : bares(args[k]) # {}}
           chosen == SelectInSeq(args, LAMBDA a : bares(a) # {})
           c == WalkUp(conf, v, args[hit], stop)
           g == Greatest(bares(args[chosen]))
<1>1. CASE hit # 0
  <2>1. locateConfig(conf, v, args, stop) = SetupAt(c)
    BY <1>1 DEF locateConfig
  <2>2. c # NoPath
    BY <2>1 DEF SetupAt, Setup
  <2> QED BY <2>1, <2>2, WalkFinds DEF SetupAt, Setup
<1>2. CASE hit = 0
  <2>1. chosen # 0 /\ locateConfig(conf, v, args, stop) = Setup([dir |-> g, name |-> "bare"], NoPath, g)
    BY <1>2 DEF locateConfig, NoSetup, Setup
  <2>2. I # {} /\ chosen = Min(I)
    BY <2>1 DEF SelectInSeq
  <2>3. chosen \in I
    <3>1. I \in SUBSET (1..Len(args)) /\ Len(args) \in Nat
      OBVIOUS
    <3> HIDE DEF I
    <3> QED BY <2>2, <3>1, FirstHit
  <2>4. bares(args[chosen]) # {}
    <3> HIDE DEF chosen, bares
    <3> QED BY <2>3
  <2>5. bares(args[chosen]) \in SUBSET (1..Len(conf)) /\ Len(conf) \in Nat
    <3>1. \A a : bares(a) \in SUBSET (1..Len(conf))
      BY DEF Dirs
    <3> HIDE DEF bares, chosen
    <3> QED BY <3>1
  <2>6. g \in 1..Len(conf)
    <3> HIDE DEF bares, chosen
    <3> QED BY <2>4, <2>5, GreatestIsIn
  <2> QED BY <2>1, <2>6 DEF Setup
<1> QED BY <1>1, <1>2

LEMMA LeastOfTwo ==
  ASSUME NEW a \in Nat \ {0}, NEW b \in Nat \ {0}
  PROVE  Least({a, b}) \in Nat \ {0}
BY DEF Least

LEMMA CommonPathIsPath ==
  ASSUME NEW args \in Seq(Nat \ {0}), args # <<>>
  PROVE  commonPath(args) \in Nat \ {0}
<1>1. Range(args) \in SUBSET Nat /\ Range(args) # {} /\ Range(args) \subseteq Nat \ {0}
  <2>1. \A k \in DOMAIN args : args[k] \in Nat \ {0}
    OBVIOUS
  <2>2. 1 \in DOMAIN args
    OBVIOUS
  <2>3. Range(args) = {args[k] : k \in DOMAIN args}
    BY DEF Range
  <2> QED BY <2>1, <2>2, <2>3
<1>2. PICK m \in Range(args) : \A k \in Range(args) : m <= k
  <2> HIDE DEF Range
  <2> QED BY <1>1, LeastNatural
<1> QED BY <1>1, <1>2 DEF commonPath, Least

\* Without --rootdir, every lookup finds a rootdir.
LEMMA RootIsKnown ==
  ASSUME NEW conf \in Seq(SUBSET ConfigFiles), NEW v \in Range(Releases), NEW args \in Seq(Nat \ {0}),
         NEW cwd \in Nat \ {0}, NEW ancestor \in Nat \ {0}
  PROVE  lookup(conf, v, args, cwd, ancestor, FALSE).rootdir # 0
<1> DEFINE first == locateConfig(conf, v, <<ancestor>>, 0)
           setupPy == dirWithFile(conf, ancestor, "setup.py")
           args2 == IF args = <<>> THEN <<cwd>> ELSE args
           second == locateConfig(conf, v, args2, ancestor)
           rest == Least({cwd, ancestor})
           s == lookup(conf, v, args, cwd, ancestor, FALSE)
<1>1. first.ini # NoPath => first.rootdir # 0
  <2>1. <<ancestor>> \in Seq(Nat) /\ 0 \notin 1..Len(conf)
    OBVIOUS
  <2> QED BY <2>1, LocateFinds
<1>2. second.ini # NoPath => second.rootdir # 0
  <2>1. args2 \in Seq(Nat) /\ 0 \notin 1..Len(conf)
    OBVIOUS
  <2> HIDE DEF args2
  <2> QED BY <2>1, LocateFinds
<1>3. rest # 0
  BY LeastOfTwo
<1>4. \/ s = first /\ first.ini # NoPath
      \/ s = Setup(NoPath, NoPath, setupPy) /\ setupPy # 0
      \/ s = second /\ second.ini # NoPath
      \/ s = Setup(NoPath, NoPath, rest)
  BY DEF lookup
<1> HIDE DEF first, second, setupPy, rest, s
<1>5. s.rootdir # 0
  BY <1>1, <1>2, <1>3, <1>4 DEF Setup
<1> QED BY <1>5 DEF s

LEMMA SetupsAreSound ==
  ASSUME NEW conf, NEW args, NEW cwd, NEW given \in BOOLEAN, NEW r \in 1..4
  PROVE  Sound(pytestSetups(conf, NoPath, args, cwd, given)[r])
<1> DEFINE at == IF args = <<>> THEN cwd ELSE commonPath(args)
           s == pytestSetups(conf, NoPath, args, cwd, given)[r]
           t == lookup(conf, Releases[r], args, cwd, at, given)
<1>1. r \in DOMAIN Releases /\ Releases[r] \in Range(Releases)
  BY DEF Releases, Range
<1>2. s = IF given THEN [t EXCEPT !.rootdir = 0] ELSE t
  BY <1>1 DEF pytestSetups
<1>3. Sound(t)
  BY <1>1, LookupIsSound
<1> HIDE DEF t
<1>4. [t EXCEPT !.rootdir = 0] = Setup(t.ini, t.config, 0)
  BY <1>3 DEF Sound, Setup
<1>5. Sound(Setup(t.ini, t.config, 0))
  BY <1>3 DEF Sound, Setup
<1> HIDE DEF s
<1>6. Sound(s)
  BY <1>2, <1>3, <1>4, <1>5
<1> QED BY <1>6 DEF s

LEMMA SetupsWithRoot ==
  ASSUME NEW conf, NEW args, NEW cwd, NEW r \in 1..4
  PROVE  /\ pytestSetups(conf, NoPath, args, cwd, TRUE)[r].rootdir = 0
         /\ args # <<>> => pytestSetups(conf, NoPath, args, cwd, TRUE)[r].ini
                             = locateConfig(conf, Releases[r], <<commonPath(args)>>, 0).ini
<1> DEFINE at == IF args = <<>> THEN cwd ELSE commonPath(args)
           s == pytestSetups(conf, NoPath, args, cwd, TRUE)[r]
           t == locateConfig(conf, Releases[r], <<at>>, 0)
<1>1. r \in DOMAIN Releases /\ Releases[r] \in Range(Releases)
  BY DEF Releases, Range
<1>2. s = [t EXCEPT !.rootdir = 0]
  BY <1>1 DEF pytestSetups, lookup
<1>3. Sound(t)
  BY <1>1, LocateIsSound
<1> HIDE DEF t
<1>4. s.rootdir = 0 /\ s.ini = t.ini
  BY <1>2, <1>3 DEF Sound, Setup
<1> HIDE DEF s
<1> QED BY <1>4 DEF s, t

LEMMA SetupsWithoutRoot ==
  ASSUME NEW conf, NEW args, NEW cwd, NEW r \in 1..4
  PROVE  pytestSetups(conf, NoPath, args, cwd, FALSE)[r]
           = lookup(conf, Releases[r], args, cwd, IF args = <<>> THEN cwd ELSE commonPath(args), FALSE)
<1>1. r \in DOMAIN Releases
  BY DEF Releases
<1> QED BY <1>1 DEF pytestSetups

LEMMA OneElement ==
  ASSUME NEW T, IsFiniteSet(T), ~(Cardinality(T) > 1), NEW a \in T, NEW b \in T
  PROVE  a = b
<1> SUFFICES ASSUME a # b PROVE FALSE
  OBVIOUS
<1>1. IsFiniteSet({a, b}) /\ Cardinality({a, b}) = 2
  <2>1. IsFiniteSet({a}) /\ Cardinality({a}) = 1 /\ b \notin {a}
    BY FS_Singleton
  <2>2. IsFiniteSet({a} \cup {b}) /\ Cardinality({a} \cup {b}) = Cardinality({a}) + 1
    BY <2>1, FS_AddElement
  <2> QED BY <2>1, <2>2, {a, b} = {a} \cup {b}
<1>2. Cardinality({a, b}) <= Cardinality(T)
  BY FS_Subset, {a, b} \subseteq T
<1> QED BY <1>1, <1>2, FS_CardinalityType

LEMMA FieldsAreFinite ==
  ASSUME NEW g
  PROVE  IsFiniteSet({g[r].rootdir : r \in 1..4}) /\ IsFiniteSet({g[r].config : r \in 1..4})
<1>1. IsFiniteSet(1..4)
  <2>1. 1 \in Int /\ 4 \in Int
    OBVIOUS
  <2> QED BY <2>1, FS_Interval
<1>2. ASSUME NEW T, NEW f \in [1..4 -> T], \A t \in T : \E r \in 1..4 : f[r] = t
      PROVE  IsFiniteSet(T)
  <2>1. f \in Surjection(1..4, T)
    BY <1>2 DEF Surjection
  <2> QED BY <1>1, <2>1, FS_Surjection
<1>3. IsFiniteSet({g[r].rootdir : r \in 1..4})
  <2> DEFINE T == {g[r].rootdir : r \in 1..4}
             f == [r \in 1..4 |-> g[r].rootdir]
  <2>1. f \in [1..4 -> T] /\ \A t \in T : \E r \in 1..4 : f[r] = t
    OBVIOUS
  <2> HIDE DEF T, f
  <2>2. IsFiniteSet(T)
    BY <1>2, <2>1
  <2> QED BY <2>2 DEF T
<1>4. IsFiniteSet({g[r].config : r \in 1..4})
  <2> DEFINE T == {g[r].config : r \in 1..4}
             f == [r \in 1..4 |-> g[r].config]
  <2>1. f \in [1..4 -> T] /\ \A t \in T : \E r \in 1..4 : f[r] = t
    OBVIOUS
  <2> HIDE DEF T, f
  <2>2. IsFiniteSet(T)
    BY <1>2, <2>1
  <2> QED BY <2>2 DEF T
<1> QED BY <1>3, <1>4

\* What SameConfiguration asks of one release.
Keeps(pin, looked, user) ==
  /\ (IF pin.config # NoPath THEN IF pin.config.name = "bare" THEN NoPath ELSE pin.config
      ELSE looked.config) = user.config
  /\ (IF pin.root # 0 THEN pin.root ELSE looked.rootdir) = user.rootdir

LEMMA KeepsIsSame ==
  ASSUME NEW p, NEW pin, NEW F, p.explicit = NoPath,
         NEW user, user = pytestSetups(p.conf, NoPath, p.args, p.cwd, p.rootdirGiven),
         NEW looked, looked = pytestSetups(p.conf, NoPath, p.extra \o F, p.cwd, p.rootdirGiven \/ pin.root # 0),
         \A r \in 1..4 : Keeps(pin, looked[r], user[r])
  PROVE  SameConfiguration(p, F, pin)
<1> DEFINE scoped2 == ScopedSetups(p.conf, pin, F, p.cwd, p.extra, p.rootdirGiven)
<1>1. DOMAIN Releases = 1..4
  BY DEF Releases
<1>2. ASSUME NEW r \in 1..4 PROVE scoped2[r].config = user[r].config /\ scoped2[r].rootdir = user[r].rootdir
  <2>1. scoped2[r] = Setup(IF pin.config # NoPath THEN pin.config ELSE looked[r].ini,
                           IF pin.config = NoPath THEN looked[r].config
                           ELSE IF pin.config.name = "bare" THEN NoPath ELSE pin.config,
                           IF pin.root # 0 THEN pin.root ELSE looked[r].rootdir)
    BY <1>1 DEF ScopedSetups
  <2> HIDE DEF scoped2
  <2>2. Keeps(pin, looked[r], user[r])
    OBVIOUS
  <2> QED BY <2>1, <2>2 DEF Setup, Keeps
<1> HIDE DEF scoped2
<1> QED BY <1>1, <1>2 DEF SameConfiguration, scoped2

\* A plan whose pin is not a refusal keeps the configuration and the rootdir of the
\* user's command under every release.
LEMMA PinKeeps ==
  ASSUME NEW conf \in Seq(SUBSET ConfigFiles), NEW args \in Seq(Nat \ {0}), NEW extra \in Seq(Nat \ {0}),
         NEW cwd \in Nat \ {0}, NEW given \in BOOLEAN, NEW S, NEW F \in Seq(S), F # <<>>,
         NEW user, user = pytestSetups(conf, NoPath, args, cwd, given),
         NEW pin, pin = pytestPin(conf, NoPath, user, F, cwd, extra, given), pin.type # "refused",
         NEW looked, looked = pytestSetups(conf, NoPath, extra \o F, cwd, given \/ pin.root # 0)
  PROVE  \A r \in 1..4 : Keeps(pin, looked[r], user[r])
<1> DEFINE dirs == extra \o F
           own == pytestSetups(conf, NoPath, dirs, cwd, given)
           pinned == given \/ pin.root # 0
           agree == \A r \in DOMAIN user : own[r].ini = user[r].ini /\ own[r].rootdir = user[r].rootdir
           roots == {user[r].rootdir : r \in DOMAIN user}
           root == IF given THEN 0 ELSE CHOOSE x \in roots : TRUE
           configs == {user[r].config : r \in DOMAIN user}
           chosen == bareProject(conf, user, root)
           unpinned == IF agree THEN NoPin ELSE Refused
<1>1. DOMAIN Releases = 1..4 /\ \A r \in 1..4 : Releases[r] \in Range(Releases)
  <2>1. DOMAIN Releases = 1..4
    BY DEF Releases
  <2> QED BY <2>1 DEF Range
<1>2. DOMAIN user = 1..4
  BY <1>1 DEF pytestSetups
<1>3. dirs # <<>>
  <2>1. Len(F) # 0 /\ Len(dirs) = Len(extra) + Len(F)
    OBVIOUS
  <2> QED BY <2>1
\* What the lookups are.
<1>4. pinned \in BOOLEAN
  OBVIOUS
<1>5. \A r \in 1..4 : Sound(user[r]) /\ Sound(own[r]) /\ Sound(looked[r])
  <2> HIDE DEF pinned
  <2>1. \A r \in 1..4 : Sound(user[r]) /\ Sound(own[r])
    BY SetupsAreSound
  <2>2. looked = pytestSetups(conf, NoPath, dirs, cwd, pinned)
    BY DEF pinned
  <2>3. \A r \in 1..4 : Sound(looked[r])
    BY <1>4, <2>2, SetupsAreSound
  <2> QED BY <2>1, <2>3
<1>6. given => \A r \in 1..4 : user[r].rootdir = 0
  <2> SUFFICES ASSUME given = TRUE PROVE \A r \in 1..4 : user[r].rootdir = 0
    OBVIOUS
  <2> QED BY SetupsWithRoot
<1>7. pinned => \A r \in 1..4 : looked[r].rootdir = 0
                   /\ looked[r].ini = locateConfig(conf, Releases[r], <<commonPath(dirs)>>, 0).ini
  <2> HIDE DEF pinned, dirs
  <2> SUFFICES ASSUME pinned = TRUE
               PROVE  \A r \in 1..4 : looked[r].rootdir = 0
                         /\ looked[r].ini = locateConfig(conf, Releases[r], <<commonPath(dirs)>>, 0).ini
    BY <1>4
  <2>1. looked = pytestSetups(conf, NoPath, dirs, cwd, TRUE)
    BY DEF pinned, dirs
  <2> TAKE r \in 1..4
  <2>2. pytestSetups(conf, NoPath, dirs, cwd, TRUE)[r].rootdir = 0
        /\ pytestSetups(conf, NoPath, dirs, cwd, TRUE)[r].ini
             = locateConfig(conf, Releases[r], <<commonPath(dirs)>>, 0).ini
    BY <1>3, SetupsWithRoot
  <2> QED BY <2>1, <2>2
<1>8. ~given => \A r \in 1..4 : user[r].rootdir # 0
  <2> DEFINE at == IF args = <<>> THEN cwd ELSE commonPath(args)
  <2>1. at \in Nat \ {0}
    BY CommonPathIsPath
  <2>2. ~given => \A r \in 1..4 : user[r] = lookup(conf, Releases[r], args, cwd, at, FALSE)
    <3> SUFFICES ASSUME given = FALSE
                 PROVE  \A r \in 1..4 : user[r] = lookup(conf, Releases[r], args, cwd, at, FALSE)
      OBVIOUS
    <3> QED BY SetupsWithoutRoot
  <2> HIDE DEF at
  <2> QED BY <1>1, <2>1, <2>2, RootIsKnown
<1>9. IsFiniteSet(roots) /\ IsFiniteSet(configs)
  <2>1. roots = {user[r].rootdir : r \in 1..4} /\ configs = {user[r].config : r \in 1..4}
    BY <1>2
  <2>2. IsFiniteSet({user[r].rootdir : r \in 1..4}) /\ IsFiniteSet({user[r].config : r \in 1..4})
    BY FieldsAreFinite
  <2> QED BY <2>1, <2>2
<1>10. pin = IF ~given /\ Cardinality(roots) > 1 THEN unpinned
             ELSE IF Cardinality(configs) = 1 /\ configs # {NoPath} THEN Pin(user[1].config, root)
             ELSE IF InputsAgree(conf, user, commonPath(dirs)) THEN Pin(NoPath, root)
             ELSE IF unpinned.type = "pin" THEN unpinned
             ELSE IF chosen # NoPath THEN Pin(chosen, root)
             ELSE Refused
  BY DEF pytestPin
<1>11. (given \/ ~(Cardinality(roots) > 1)) =>
         (\A r \in 1..4 : user[r].rootdir = root) /\ (root = 0 => given)
  <2> SUFFICES ASSUME given \/ ~(Cardinality(roots) > 1)
               PROVE  (\A r \in 1..4 : user[r].rootdir = root) /\ (root = 0 => given)
    OBVIOUS
  <2>1. CASE given
    BY <1>6, <2>1
  <2>2. CASE ~given /\ ~(Cardinality(roots) > 1)
    <3>1. root \in roots /\ \A r \in 1..4 : user[r].rootdir \in roots
      <4>1. \A r \in 1..4 : user[r].rootdir \in roots
        BY <1>2
      <4> QED BY <4>1, <2>2
    <3>2. \A r \in 1..4 : user[r].rootdir = root
      <4> HIDE DEF roots, root
      <4> QED BY <1>9, <2>2, <3>1, OneElement
    <3> HIDE DEF root, roots
    <3>3. user[1].rootdir = root /\ user[1].rootdir # 0
      BY <1>8, <2>2, <3>2
    <3> QED BY <3>2, <3>3
  <2> HIDE DEF root, roots
  <2> QED BY <2>1, <2>2, Zenon
<1>12. given => \A r \in 1..4 : looked[r].rootdir = 0
  BY <1>7
<1> TAKE r \in 1..4
<1>13. Sound(user[r]) /\ Sound(own[r]) /\ Sound(looked[r]) /\ Sound(user[1])
  BY <1>5
<1> HIDE DEF agree, root, chosen
<1>14. CASE pin = unpinned
  <2>1. agree /\ pin = NoPin
    BY <1>14 DEF NoPin, Refused, Pin
  <2>2. pin.config = NoPath /\ pin.root = 0 /\ pinned = given
    BY <2>1 DEF NoPin, Pin
  <2>3. looked = own
    BY <2>2
  <2>4. looked[r].ini = user[r].ini /\ looked[r].rootdir = user[r].rootdir
    BY <1>2, <2>1, <2>3 DEF agree
  <2> HIDE DEF own, unpinned
  <2> QED BY <1>13, <2>2, <2>4 DEF Keeps, Sound
<1>15. CASE /\ given \/ ~(Cardinality(roots) > 1)
            /\ Cardinality(configs) = 1 /\ configs # {NoPath} /\ pin = Pin(user[1].config, root)
  <2>1. user[r].config \in configs /\ user[1].config \in configs
    BY <1>2
  <2>2. user[r].config = user[1].config
    <3> HIDE DEF configs
    <3> QED BY <1>9, <1>15, <2>1, OneElement
  <2>3. user[1].config # NoPath
    <3> SUFFICES ASSUME user[1].config = NoPath PROVE configs = {NoPath}
      BY <1>15
    <3>1. ASSUME NEW k \in 1..4 PROVE user[k].config = NoPath
      <4>1. user[k].config \in configs
        BY <1>2
      <4> HIDE DEF configs
      <4> QED BY <1>9, <1>15, <2>1, <4>1, OneElement
    <3> QED BY <1>2, <3>1
  <2>4. pin.config = user[r].config /\ pin.config.name # "bare" /\ pin.root = root
    BY <1>13, <1>15, <2>2 DEF Pin, Sound
  <2> QED BY <1>11, <1>12, <1>15, <2>2, <2>3, <2>4 DEF Keeps
<1>16. CASE /\ given \/ ~(Cardinality(roots) > 1)
            /\ InputsAgree(conf, user, commonPath(dirs)) /\ pin = Pin(NoPath, root)
  <2>1. pin.config = NoPath /\ pin.root = root
    BY <1>16 DEF Pin
  <2>2. pinned
    BY <1>11, <1>16, <2>1
  <2>3. looked[r].ini = user[r].ini
    BY <1>2, <1>7, <1>16, <2>2 DEF InputsAgree
  <2>4. looked[r].config = user[r].config
    BY <1>13, <2>3 DEF Sound
  <2> QED BY <1>11, <1>12, <1>16, <2>1, <2>4 DEF Keeps
<1>17. CASE (given \/ ~(Cardinality(roots) > 1)) /\ chosen # NoPath /\ pin = Pin(chosen, root)
  <2> DEFINE inis == {user[k].ini : k \in DOMAIN user} \ {NoPath}
  <2>1. /\ Cardinality(inis) = 1 /\ root # 0 /\ \A k \in 1..4 : user[k].config = NoPath
        /\ chosen = CHOOSE p \in inis : TRUE
    BY <1>2, <1>17 DEF bareProject, chosen
  <2>2. inis # {}
    <3> SUFFICES ASSUME inis = {} PROVE FALSE
      OBVIOUS
    <3>1. Cardinality(inis) = 0
      <4> HIDE DEF inis
      <4> QED BY FS_EmptySet
    <3> QED BY <2>1, <3>1
  <2>3. PICK k \in 1..4 : chosen = user[k].ini
    BY <1>2, <2>1, <2>2
  <2>4. chosen.name = "bare"
    BY <1>5, <1>17, <2>1, <2>3 DEF Sound, ConfigOf
  <2>5. pin.config = chosen /\ pin.root = root
    BY <1>17 DEF Pin
  <2> QED BY <1>11, <1>17, <2>1, <2>4, <2>5 DEF Keeps
<1> HIDE DEF roots, configs, unpinned
<1> QED BY <1>10, <1>14, <1>15, <1>16, <1>17 DEF Refused

-----------------------------------------------------------------------------
(* The planner.                                                            *)

LEMMA SpecIsBuilt ==
  ASSUME NEW v, NEW det, NEW inputs, NEW mode, NEW s, s = buildSpec(v, det, inputs, mode), s.type = "spec"
  PROVE  /\ s.mode = mode /\ s.inputs = inputs /\ s.kind = det.kind
         /\ s.pin = pytestAtInputs(v, det, inputs) /\ s.pin.type # "refused"
<1> DEFINE at == pytestAtInputs(v, det, inputs)
<1>1. s = pinnedSpec(det, inputs, mode, at)
  BY DEF buildSpec
<1> HIDE DEF at
<1>2. /\ s.mode = mode /\ s.inputs = inputs /\ s.kind = det.kind
      /\ s.pin = at /\ at.type # "refused"
  BY <1>1 DEF pinnedSpec, S6
<1> QED BY <1>2 DEF at

\* The tests that a search maps a file to are on disk.
LEMMA MappedOnDisk ==
  ASSUME NEW v, NEW det, NEW m,
         NEW part \in {moduleInputs(v, det, m), goneModuleInputs(v, det, m),
                       goneTestInputs(v, det, m), goneSourceInputs(v, m)},
         ~isS6(part)
  PROVE  part.files \subseteq v.exists
<1>1. \A hits : acceptHits(v, det, hits) \subseteq v.exists
  BY DEF acceptHits
<1>2. \A code : isS6(S6(code))
  BY DEF isS6, S6
<1>3. CASE part = moduleInputs(v, det, m)
  BY <1>1, <1>2, <1>3 DEF moduleInputs
<1>4. CASE part = goneModuleInputs(v, det, m)
  BY <1>1, <1>2, <1>4 DEF goneModuleInputs
<1>5. CASE part = goneTestInputs(v, det, m)
  BY <1>1, <1>2, <1>5 DEF goneTestInputs
<1>6. CASE part = goneSourceInputs(v, m)
  <2> DEFINE hits == findByContent(v, m) \cap Tests
  <2>1. hits \subseteq v.exists
    BY DEF findByContent
  <2> HIDE DEF hits
  <2>2. part = [type |-> "inputs", files |-> hits]
    BY <1>2, <1>6 DEF goneSourceInputs, hits
  <2> QED BY <2>1, <2>2
<1> QED BY <1>3, <1>4, <1>5, <1>6

LEMMA CombineBuilds ==
  ASSUME NEW v, NEW det, NEW files, NEW parts, files \subseteq v.exists,
         \A part \in parts : ~isS6(part) => part.files \subseteq v.exists,
         Combine(v, det, files, parts).type = "spec"
  PROVE  \E inputs \in SUBSET v.exists :
           inputs # {} /\ Combine(v, det, files, parts) = buildSpec(v, det, inputs, "related")
<1> DEFINE inputs == files \cup UNION {part.files : part \in {q \in parts : ~isS6(q)}}
           refusal == CHOOSE part \in parts : isS6(part)
<1>1. inputs \subseteq v.exists
  OBVIOUS
<1>2. (\E part \in parts : isS6(part)) => refusal.type = "unverifiable"
  BY DEF isS6
<1> HIDE DEF inputs
<1>3. inputs # {} /\ Combine(v, det, files, parts) = buildSpec(v, det, inputs, "related")
  BY <1>2 DEF Combine, noAffected, S6, inputs
<1> QED BY <1>1, <1>3

\* A planned run is not a rerun, it runs something, and its pin is the one of its inputs.
LEMMA PlannedRun ==
  ASSUME NEW v, NEW s, s = planScopedRun(v), s.type = "spec"
  PROVE  \E det, inputs :
           /\ inputs \subseteq v.exists /\ inputs # {} /\ s.mode = "related" /\ s.inputs = inputs /\ s.kind = det.kind
           /\ s.pin = pytestAtInputs(v, det, inputs) /\ s.pin.type # "refused"
<1> DEFINE det == detectImpl(v, JsKinds \cup {"pytest"})
<1>1. s = planDetected(v, det)
  BY DEF planScopedRun
<1> HIDE DEF det
<1>2. s = classify(v, det, v.changed)
  BY <1>1 DEF planDetected, S6, noAffected, isS6
<1>3. \E inputs \in SUBSET v.exists : inputs # {} /\ s = buildSpec(v, det, inputs, "related")
  <2>1. CASE det.kind = "pytest"
    <3> DEFINE p == pytestParts(v, det, v.changed)
               parts == {moduleInputs(v, det, m) : m \in p.modules}
                         \cup {goneModuleInputs(v, det, m) : m \in p.goneModules}
                         \cup {goneTestInputs(v, det, t) : t \in p.goneTests}
    <3>1. p.own \subseteq v.exists
      BY DEF pytestParts
    <3>2. \A part \in parts : ~isS6(part) => part.files \subseteq v.exists
      BY MappedOnDisk
    <3> HIDE DEF p
    <3>3. s = Combine(v, det, p.own, parts)
      BY <1>2, <2>1 DEF classify, classifyPytest, S6, p
    <3> HIDE DEF parts
    <3> QED BY <3>1, <3>2, <3>3, CombineBuilds
  <2>2. CASE det.kind # "pytest"
    <3> DEFINE inputs == {f \in v.changed : ~isNonInput(f)}
               gone == {f \in inputs : f \notin v.exists /\ f \notin Tests}
               parts == {goneSourceInputs(v, m) : m \in gone}
               there == inputs \cap v.exists
    <3>1. there \subseteq v.exists
      OBVIOUS
    <3>2. \A part \in parts : ~isS6(part) => part.files \subseteq v.exists
      BY MappedOnDisk
    <3>3. s = Combine(v, det, there, parts)
      BY <1>2, <2>2 DEF classify, classifyJs, S6
    <3> HIDE DEF parts, there
    <3> QED BY <3>1, <3>2, <3>3, CombineBuilds
  <2> QED BY <2>1, <2>2
<1> QED BY <1>3, SpecIsBuilt

-----------------------------------------------------------------------------
(* ConfigPinned.                                                           *)

LEMMA SetToSeqIsSeq ==
  ASSUME NEW T, IsFiniteSet(T), T # {}
  PROVE  SetToSeq(T) \in Seq(T) /\ SetToSeq(T) # <<>>
<1> DEFINE n == Cardinality(T)
<1>1. n \in Nat /\ n # 0
  BY FS_CardinalityType, FS_EmptySet
<1>2. PICK f \in Bijection(1..n, T) : TRUE
  BY FS_CountingElements, FS_NatBijection, FS_CardinalityType DEF ExistsBijection
<1>3. f \in [1..n -> T] /\ IsInjective(f)
  BY <1>2 DEF Bijection, Injection, IsInjective
<1>4. SetToSeq(T) \in [1..n -> T]
  BY <1>3 DEF SetToSeq
<1> HIDE DEF n
<1> QED BY <1>1, <1>4

\* The world is one of the cases, and a run about to start is the one planned for it.
PlanInv ==
  /\ pc # "start" => \E c \in Cases : w = c.w
  /\ pc = "hold" => spec.type \in {"shell", "full"} \/ spec = planScopedRun(w)

LEMMA PlanInvInit == Init => PlanInv
BY DEF Init, PlanInv

LEMMA PlanInvStep == PlanInv /\ [Next]_vars => PlanInv'
<1> SUFFICES ASSUME PlanInv, [Next]_vars PROVE PlanInv'
  OBVIOUS
<1> USE DEF PlanInv
<1>1. CASE Begin
  BY <1>1 DEF Begin
<1>2. CASE StartCommand
  <2>1. PICK plan \in {commandPlan} : IF plan.type = "result" THEN UNCHANGED <<pc, spec>> ELSE spec' = plan
    BY <1>2 DEF StartCommand
  <2>2. commandPlan.type \in {"result", "shell"}
    BY DEF commandPlan
  <2>3. UNCHANGED w /\ pc = "check"
    BY <1>2 DEF StartCommand
  <2> QED BY <2>1, <2>2, <2>3
<1>3. CASE StartTests
  <2>1. testsPlan.type = "full" \/ testsPlan = planScopedRun(w) \/ testsPlan.type = "unverifiable"
    BY DEF testsPlan, S6
  <2>2. planScopedRun(w') = planScopedRun(w)
    BY <1>3 DEF StartTests
  <2> QED BY <1>3, <2>1, <2>2 DEF StartTests
<1>4. CASE PureCheck \/ Acquire \/ Launch \/ Kill \/ Exit \/ StartRecheck \/ Materialize \/ Dispose
             \/ Judge \/ NextCheck \/ Finish \/ Grade \/ Tick \/ GateTimeout
             \/ \E j \in DOMAIN scopes : DisposeDone(j) \/ Release(j) \/ SlotLost(j)
  <2>1. UNCHANGED w /\ (pc' # "start" => pc # "start") /\ (pc' = "hold" => pc = "hold" /\ spec' = spec)
    BY <1>4 DEF PureCheck, Acquire, Launch, Blocked, Kill, Exit, StartRecheck, Materialize, Dispose, Judge,
                NextCheck, Finish, Grade, Tick, GateTimeout, DisposeDone, Release, SlotLost
  <2> QED BY <2>1
<1>5. CASE UNCHANGED vars
  BY <1>5 DEF vars
<1> QED BY <1>1, <1>2, <1>3, <1>4, <1>5 DEF Next

\* What the pin of a planned run does, for the run's own case.
LEMMA PlannedIsPinned ==
  ASSUME NEW c \in Cases, NEW s, s = planScopedRun(c.w), s.type = "spec", s.kind = "pytest"
  PROVE  SameConfiguration(c.w.py, SetToSeq({DirOf[f] : f \in s.inputs}), s.pin)
<1> DEFINE p == c.w.py
           T == {DirOf[f] : f \in s.inputs}
           F == SetToSeq(T)
           user == pytestSetups(p.conf, NoPath, p.args, p.cwd, p.rootdirGiven)
           looked == pytestSetups(p.conf, NoPath, p.extra \o F, p.cwd, p.rootdirGiven \/ s.pin.root # 0)
<1>1. IsLookup(p) /\ IsFiniteSet(c.w.exists)
  BY CasesAssumption
<1>2. CASE p.explicit # NoPath
  BY <1>2 DEF SameConfiguration
<1>3. CASE p.explicit = NoPath
  <2>1. PICK det, inputs :
           /\ inputs \subseteq c.w.exists /\ inputs # {} /\ s.inputs = inputs /\ s.kind = det.kind
           /\ s.pin = pytestAtInputs(c.w, det, inputs) /\ s.pin.type # "refused"
    BY PlannedRun
  <2>2. s.pin = pytestPin(p.conf, NoPath, user, F, p.cwd, p.extra, p.rootdirGiven)
    BY <1>3, <2>1 DEF pytestAtInputs
  <2>3. IsFiniteSet(T) /\ T # {}
    <3>1. IsFiniteSet(inputs)
      BY <1>1, <2>1, FS_Subset
    <3>2. [f \in inputs |-> DirOf[f]] \in Surjection(inputs, T)
      <4> DEFINE g == [f \in inputs |-> DirOf[f]]
      <4>1. g \in [inputs -> T] /\ \A t \in T : \E f \in inputs : g[f] = t
        BY <2>1
      <4> QED BY <4>1 DEF Surjection
    <3>3. IsFiniteSet(T)
      <4> HIDE DEF T
      <4> QED BY <3>1, <3>2, FS_Surjection
    <3> QED BY <3>3, <2>1
  <2>4. F \in Seq(T) /\ F # <<>>
    <3> HIDE DEF T
    <3> QED BY <2>3, SetToSeqIsSeq
  <2>5. /\ p.conf \in Seq(SUBSET ConfigFiles) /\ p.args \in Seq(Nat \ {0}) /\ p.extra \in Seq(Nat \ {0})
        /\ p.cwd \in Nat \ {0} /\ p.rootdirGiven \in BOOLEAN
    BY <1>1 DEF IsLookup
  <2>6. \A r \in 1..4 : Keeps(s.pin, looked[r], user[r])
    <3> DEFINE conf == p.conf
               args == p.args
               extra == p.extra
               cwd == p.cwd
               given == p.rootdirGiven
               pin == s.pin
    <3>1. user = pytestSetups(conf, NoPath, args, cwd, given)
      OBVIOUS
    <3>2. looked = pytestSetups(conf, NoPath, extra \o F, cwd, given \/ pin.root # 0)
      OBVIOUS
    <3>3. pin = pytestPin(conf, NoPath, user, F, cwd, extra, given) /\ pin.type # "refused"
      BY <2>1, <2>2
    <3>4. /\ conf \in Seq(SUBSET ConfigFiles) /\ args \in Seq(Nat \ {0}) /\ extra \in Seq(Nat \ {0})
          /\ cwd \in Nat \ {0} /\ given \in BOOLEAN
      BY <2>5
    <3> HIDE DEF user, looked, pin, conf, args, extra, cwd, given, F, T
    <3>5. \A r \in 1..4 : Keeps(pin, looked[r], user[r])
      <4>1. pin = pytestPin(conf, NoPath, user, F, cwd, extra, given)
        BY <3>3
      <4>2. pin.type # "refused"
        BY <3>3
      <4>3. conf \in Seq(SUBSET ConfigFiles)
        BY <3>4
      <4>4. args \in Seq(Nat \ {0})
        BY <3>4
      <4>5. extra \in Seq(Nat \ {0})
        BY <3>4
      <4>6. cwd \in Nat \ {0}
        BY <3>4
      <4>7. given \in BOOLEAN
        BY <3>4
      <4>8. F \in Seq(T)
        BY <2>4
      <4>9. F # <<>>
        BY <2>4
      <4> QED BY ONLY <3>1, <3>2, <4>1, <4>2, <4>3, <4>4, <4>5, <4>6, <4>7, <4>8, <4>9, PinKeeps, ZenonT(40)
    <3> QED BY <3>5 DEF pin
  <2>7. SameConfiguration(p, F, s.pin)
    <3> HIDE DEF F, p
    <3> QED BY <1>3, <2>6, KeepsIsSame
  <2> QED BY <2>7
<1> QED BY <1>2, <1>3

\* A scoped pytest command reads the configuration and has the rootdir of the user's command
\* under every release, for any chain of directories, any configuration files in it and any
\* arguments (pytestPin).
THEOREM ConfigStaysPinned == Spec => []ConfigPinned
<1>1. PlanInv => ConfigPinned
  <2> SUFFICES ASSUME PlanInv, pc = "hold", spec.type = "spec", spec.kind = "pytest"
               PROVE  SameConfiguration(w.py, SetToSeq({DirOf[f] : f \in spec.inputs}), spec.pin)
    BY DEF ConfigPinned
  <2>1. PICK c \in Cases : w = c.w
    BY DEF PlanInv
  <2>2. spec = planScopedRun(c.w)
    BY <2>1 DEF PlanInv
  <2> QED BY <2>1, <2>2, PlannedIsPinned
<1> QED BY <1>1, PlanInvInit, PlanInvStep, PTL DEF Spec

-----------------------------------------------------------------------------
(* SlotCoversRuns.                                                         *)

ScopeSet ==
  [hold : {"none", "held", "slot-busy", "error"}, slot : {"free", "held", "lost", "released"},
   closed : BOOLEAN, inflight : SUBSET {"run", "dispose"}]

Fresh(j) == scopes[j].slot = "free" /\ ~scopes[j].closed /\ scopes[j].inflight = {}
HasSlot(j) == scopes[j].slot \in {"held", "lost"} /\ ~scopes[j].closed

\* Scopes not begun are fresh; from the acquisition to the judgement the scope of the running
\* check has its slot and is open.
SlotInv ==
  /\ i \in Nat \ {0}
  /\ scopes \in [1..2 -> ScopeSet]
  /\ \A j \in 1..2 : j > i \/ (j = i /\ pc \in {"start", "check", "hold"}) => Fresh(j)
  /\ \A j \in 1..2 : j = i /\ pc \in {"launch", "running", "recheck", "materialize", "dispose"} => HasSlot(j)
  /\ \A j \in 1..2 : scopes[j].inflight # {} => scopes[j].slot \in {"held", "lost"}

LEMMA HoldIsFirst == PlanInv /\ pc = "hold" => ~(spec.type = "spec" /\ spec.mode = "rerun")
BY PlannedRun DEF PlanInv

LEMMA SlotInvInit == Init => SlotInv
<1> SUFFICES ASSUME Init PROVE SlotInv
  OBVIOUS
<1>1. DOMAIN scopes = 1..2 /\ \A j \in 1..2 : scopes[j] = NewScope
  BY DEF Init
<1>2. NewScope \in ScopeSet
  BY DEF NewScope, ScopeSet
<1>3. scopes \in [1..2 -> ScopeSet]
  BY <1>1, <1>2 DEF Init
<1> QED BY <1>1, <1>3 DEF Init, SlotInv, Fresh, NewScope

\* A step that moves on without touching any scope.
LEMMA SlotInvMoves ==
  ASSUME SlotInv, UNCHANGED scopes, i' \in {i, i + 1},
         i' = i + 1 => pc' \in {"check", "done"},
         i' = i => \/ i \notin 1..2 \/ pc' = pc \/ pc' \notin {"start", "check", "hold", "launch", "running", "recheck", "materialize", "dispose"}
                   \/ pc \in {"start", "check", "hold"} /\ pc' \in {"start", "check", "hold"}
                   \/ /\ pc \in {"launch", "running", "recheck", "materialize", "dispose"}
                      /\ pc' \in {"launch", "running", "recheck", "materialize", "dispose"}
  PROVE  SlotInv'
BY DEF SlotInv, Fresh, HasSlot

\* A step that touches the scope j only.
LEMMA SlotInvTouches ==
  ASSUME SlotInv, NEW j \in 1..2, NEW r \in ScopeSet, scopes' = [scopes EXCEPT ![j] = r], UNCHANGED i,
         r.inflight # {} => r.slot \in {"held", "lost"},
         (j > i \/ (j = i /\ pc' \in {"start", "check", "hold"})) => r.slot = "free" /\ ~r.closed /\ r.inflight = {},
         j = i /\ pc' \in {"launch", "running", "recheck", "materialize", "dispose"} => r.slot \in {"held", "lost"} /\ ~r.closed,
         j # i => pc' = pc \/ i \notin 1..2
  PROVE  SlotInv'
BY DEF SlotInv, Fresh, HasSlot

LEMMA SlotInvStep == PlanInv /\ SlotInv /\ [Next]_vars => SlotInv'
<1> SUFFICES ASSUME PlanInv, SlotInv, [Next]_vars PROVE SlotInv'
  OBVIOUS
<1>0. /\ i \in Nat \ {0} /\ scopes \in [1..2 -> ScopeSet]
      /\ \A j \in 1..2 : scopes[j] \in ScopeSet
      /\ \A j \in 1..2 : scopes[j].inflight # {} => scopes[j].slot \in {"held", "lost"}
  BY DEF SlotInv
<1>1. CASE Begin
  <2>1. UNCHANGED <<scopes, i>> /\ pc = "start" /\ pc' \in {"check", "done", "grade"}
    BY <1>1 DEF Begin
  <2> QED BY <2>1, <1>0, SlotInvMoves
<1>2. CASE PureCheck \/ StartCommand \/ StartTests
  <2>1. UNCHANGED scopes /\ pc = "check" /\ ((i' = i + 1 /\ pc' = pc) \/ (UNCHANGED i /\ pc' = "hold"))
    <3>1. CASE PureCheck
      BY <3>1 DEF PureCheck
    <3>2. CASE StartCommand
      BY <3>2 DEF StartCommand
    <3>3. CASE StartTests
      BY <3>3 DEF StartTests
    <3> QED BY <1>2, <3>1, <3>2, <3>3
  <2> QED BY <2>1, <1>0, SlotInvMoves
<1>5. CASE Acquire
  <2>1. PICK outcome \in {"held", "slot-busy", "error"} :
          Hold(outcome) /\ IF outcome = "held" THEN pc' = "launch" ELSE Blocked(outcome)
    BY <1>5 DEF Acquire
  <2>2. pc = "hold" /\ UNCHANGED i
    BY <1>5 DEF Acquire
  <2>3. IF outcome = "held" THEN pc' = "launch" ELSE pc' = "judge"
    BY <2>1, <2>2, HoldIsFirst DEF Blocked
  <2>4. CASE i \notin 1..2
    <3>1. UNCHANGED scopes
      BY <1>0, <2>1, <2>4 DEF Hold
    <3> QED BY <2>2, <2>4, <3>1, SlotInvMoves, <1>0
  <2>5. CASE i \in 1..2
    <3> DEFINE r == [scopes[i] EXCEPT !.hold = outcome, !.slot = IF outcome = "held" THEN "held" ELSE scopes[i].slot]
    <3>1. Fresh(i)
      BY <2>2, <2>5 DEF SlotInv
    <3>2. scopes' = [scopes EXCEPT ![i] = r]
      BY <1>0, <2>1, <2>5 DEF Hold
    <3>3. /\ r \in ScopeSet /\ r.inflight = {} /\ ~r.closed
          /\ r.slot = IF outcome = "held" THEN "held" ELSE "free"
      BY <1>0, <2>5, <3>1 DEF Fresh, ScopeSet
    <3> HIDE DEF r
    <3> QED BY <2>2, <2>3, <2>5, <3>2, <3>3, SlotInvTouches DEF SlotInv, Fresh, HasSlot
  <2> QED BY <2>4, <2>5
<1>6. CASE Launch
  <2>1. pc = "launch" /\ UNCHANGED i
    BY <1>6 DEF Launch
  <2>2. \/ UNCHANGED scopes /\ pc' \in {"dispose", "judge"}
        \/ pc' = "running" /\ scopes' = [scopes EXCEPT ![i].inflight = @ \cup {"run"}]
    BY <1>6 DEF Launch, Blocked
  <2>3. CASE UNCHANGED scopes /\ pc' \in {"dispose", "judge"}
    BY <2>1, <2>3, SlotInvMoves, <1>0
  <2>4. CASE pc' = "running" /\ scopes' = [scopes EXCEPT ![i].inflight = @ \cup {"run"}]
    <3>1. CASE i \notin 1..2
      BY <1>0, <2>1, <2>4, <3>1, SlotInvMoves
    <3>2. CASE i \in 1..2
      <4> DEFINE r == [scopes[i] EXCEPT !.inflight = @ \cup {"run"}]
      <4>1. HasSlot(i)
        BY <2>1, <3>2 DEF SlotInv
      <4>2. scopes' = [scopes EXCEPT ![i] = r]
        BY <1>0, <2>4, <3>2
      <4>3. r \in ScopeSet /\ r.slot = scopes[i].slot /\ r.closed = scopes[i].closed
        BY <1>0, <3>2 DEF ScopeSet
      <4> HIDE DEF r
      <4> QED BY <2>1, <2>4, <3>2, <4>1, <4>2, <4>3, SlotInvTouches DEF SlotInv, Fresh, HasSlot
    <3> QED BY <3>1, <3>2
  <2> QED BY <2>2, <2>3, <2>4
<1>7. CASE Exit
  <2>1. pc = "running" /\ UNCHANGED i /\ scopes' = [scopes EXCEPT ![i].inflight = @ \ {"run"}]
    BY <1>7 DEF Exit
  <2>2. pc' \in {"dispose", "judge", "recheck"}
    BY <1>7 DEF Exit
  <2>3. CASE i \notin 1..2
    BY <1>0, <2>1, <2>3, SlotInvMoves
  <2>4. CASE i \in 1..2
    <3> DEFINE r == [scopes[i] EXCEPT !.inflight = @ \ {"run"}]
    <3>1. HasSlot(i)
      BY <2>1, <2>4 DEF SlotInv
    <3>2. scopes' = [scopes EXCEPT ![i] = r]
      BY <1>0, <2>1, <2>4
    <3>3. r \in ScopeSet /\ r.slot = scopes[i].slot /\ r.closed = scopes[i].closed
      BY <1>0, <2>4 DEF ScopeSet
    <3> HIDE DEF r
    <3> QED BY <2>1, <2>2, <2>4, <3>1, <3>2, <3>3, SlotInvTouches DEF SlotInv, Fresh, HasSlot
  <2> QED BY <2>3, <2>4
<1>8. CASE StartRecheck \/ Materialize
  <2>1. UNCHANGED <<i, scopes>> /\ pc \in {"recheck", "materialize"} /\ pc' \in {"materialize", "judge", "dispose", "launch"}
    BY <1>8 DEF StartRecheck, Materialize
  <2> QED BY <2>1, SlotInvMoves, <1>0
<1>9. CASE Dispose
  <2>1. pc = "dispose" /\ pc' = "judge" /\ UNCHANGED i /\ scopes' = [scopes EXCEPT ![i].inflight = @ \cup {"dispose"}]
    BY <1>9 DEF Dispose
  <2>2. CASE i \notin 1..2
    BY <1>0, <2>1, <2>2, SlotInvMoves
  <2>3. CASE i \in 1..2
    <3> DEFINE r == [scopes[i] EXCEPT !.inflight = @ \cup {"dispose"}]
    <3>1. HasSlot(i)
      BY <2>1, <2>3 DEF SlotInv
    <3>2. scopes' = [scopes EXCEPT ![i] = r]
      BY <1>0, <2>1, <2>3
    <3>3. r \in ScopeSet /\ r.slot = scopes[i].slot /\ r.closed = scopes[i].closed
      BY <1>0, <2>3 DEF ScopeSet
    <3> HIDE DEF r
    <3> QED BY <2>1, <2>3, <3>1, <3>2, <3>3, SlotInvTouches DEF SlotInv, Fresh, HasSlot
  <2> QED BY <2>2, <2>3
<1>10. CASE Judge
  <2>1. pc' = "closing" /\ UNCHANGED i /\ scopes' = [scopes EXCEPT ![i].closed = TRUE]
    BY <1>10 DEF Judge
  <2>2. CASE i \notin 1..2
    BY <1>0, <2>1, <2>2, SlotInvMoves
  <2>3. CASE i \in 1..2
    <3> DEFINE r == [scopes[i] EXCEPT !.closed = TRUE]
    <3>1. scopes' = [scopes EXCEPT ![i] = r]
      BY <1>0, <2>1, <2>3
    <3>2. r \in ScopeSet /\ r.slot = scopes[i].slot /\ r.inflight = scopes[i].inflight
      BY <1>0, <2>3 DEF ScopeSet
    <3> HIDE DEF r
    <3>3. scopes[i].inflight # {} => scopes[i].slot \in {"held", "lost"}
      BY <1>0, <2>3
    <3>4. scopes' \in [1..2 -> ScopeSet] /\ \A j \in 1..2 : scopes'[j] = IF j = i THEN r ELSE scopes[j]
      BY <1>0, <2>3, <3>1, <3>2
    <3>5. \A j \in 1..2 : j > i => Fresh(j)
      BY DEF SlotInv
    <3>6. (\A j \in 1..2 : j > i => Fresh(j))'
      BY <1>0, <2>1, <2>3, <3>4, <3>5 DEF Fresh
    <3> QED BY <1>0, <2>1, <3>2, <3>3, <3>4, <3>6 DEF SlotInv
  <2> QED BY <2>2, <2>3
<1>11. CASE NextCheck
  BY <1>11, SlotInvMoves, <1>0 DEF NextCheck
<1>12. CASE Finish \/ Grade \/ Kill \/ Tick \/ GateTimeout
  <2>1. UNCHANGED <<i, scopes>> /\ (pc' = pc \/ pc' = "done")
    BY <1>12 DEF Finish, Grade, Kill, Tick, GateTimeout
  <2> QED BY <2>1, SlotInvMoves, <1>0
<1>13. ASSUME NEW j \in DOMAIN scopes, DisposeDone(j) PROVE SlotInv'
  <2> DEFINE r == [scopes[j] EXCEPT !.inflight = @ \ {"dispose"}]
  <2>1. j \in 1..2 /\ UNCHANGED <<i, pc>> /\ scopes[j].inflight # {}
    BY <1>0, <1>13 DEF DisposeDone
  <2>2. scopes' = [scopes EXCEPT ![j] = r]
    BY <1>0, <1>13, <2>1 DEF DisposeDone
  <2>3. r \in ScopeSet /\ r.slot = scopes[j].slot /\ r.closed = scopes[j].closed /\ r.inflight \subseteq scopes[j].inflight
    BY <1>0, <2>1 DEF ScopeSet
  <2> HIDE DEF r
  <2> QED BY <1>0, <2>1, <2>2, <2>3, SlotInvTouches DEF SlotInv, Fresh, HasSlot
<1>14. ASSUME NEW j \in DOMAIN scopes, Release(j) PROVE SlotInv'
  <2> DEFINE r == [scopes[j] EXCEPT !.slot = "released"]
  <2>1. j \in 1..2 /\ UNCHANGED <<i, pc>> /\ scopes[j].closed /\ scopes[j].inflight = {}
    BY <1>0, <1>14 DEF Release, CloseReady
  <2>2. scopes' = [scopes EXCEPT ![j] = r]
    BY <1>0, <1>14, <2>1 DEF Release
  <2>3. r \in ScopeSet /\ r.closed = scopes[j].closed /\ r.inflight = {}
    BY <1>0, <2>1 DEF ScopeSet
  <2> HIDE DEF r
  <2> QED BY <1>0, <2>1, <2>2, <2>3, SlotInvTouches DEF SlotInv, Fresh, HasSlot
<1>15. ASSUME NEW j \in DOMAIN scopes, SlotLost(j) PROVE SlotInv'
  <2> DEFINE r == [scopes[j] EXCEPT !.slot = "lost"]
  <2>1. j \in 1..2 /\ UNCHANGED <<i, pc>> /\ scopes[j].slot = "held"
    BY <1>0, <1>15 DEF SlotLost
  <2>2. scopes' = [scopes EXCEPT ![j] = r]
    BY <1>0, <1>15, <2>1 DEF SlotLost
  <2>3. r \in ScopeSet /\ r.slot = "lost" /\ r.closed = scopes[j].closed /\ r.inflight = scopes[j].inflight
    BY <1>0, <2>1 DEF ScopeSet
  <2> HIDE DEF r
  <2> QED BY <1>0, <2>1, <2>2, <2>3, SlotInvTouches DEF SlotInv, Fresh, HasSlot
<1>16. CASE UNCHANGED vars
  <2>1. UNCHANGED <<scopes, i, pc>>
    BY <1>16 DEF vars
  <2> QED BY <2>1, <1>0, SlotInvMoves
<1> QED BY <1>1, <1>2, <1>5, <1>6, <1>7, <1>8, <1>9, <1>10, <1>11, <1>12, <1>13, <1>14, <1>15, <1>16
        DEF Next

-----------------------------------------------------------------------------
(* NoFailureForgotten.                                                     *)

Outcomes == {"ok", "fail", "unverifiable"}

\* One result per check that ended, and the failures reported are among them.
ResultInv ==
  /\ results \in Seq(Outcomes) /\ i = Len(results) + 1
  /\ failures # {} => \E k \in DOMAIN results : results[k] = "fail"
  /\ pc \in {"start", "grade"} => results = <<>>

LEMMA ResultInvMoves ==
  ASSUME ResultInv, UNCHANGED <<results, i, failures>>, pc' \in {"start", "grade"} => pc \in {"start", "grade"}
  PROVE  ResultInv'
BY DEF ResultInv

LEMMA ResultInvAdds ==
  ASSUME ResultInv, NEW r \in Outcomes, Result(r), i' = i + 1, pc' \notin {"start", "grade"}
  PROVE  ResultInv'
<1>1. results' = Append(results, r) /\ results \in Seq(Outcomes) /\ i = Len(results) + 1
  BY DEF Result, ResultInv
<1>2. results' \in Seq(Outcomes) /\ i' = Len(results') + 1
  BY <1>1
<1>3. DOMAIN results' = 1..Len(results) + 1 /\ results'[Len(results) + 1] = r
  BY <1>1
<1>4. \A k \in DOMAIN results : k \in DOMAIN results' /\ results'[k] = results[k]
  BY <1>1
<1>5. failures' # {} => \E k \in DOMAIN results' : results'[k] = "fail"
  <2>1. CASE r = "fail"
    <3>1. Len(results) + 1 \in DOMAIN results'
      BY <1>1, <1>3
    <3> QED BY <1>3, <2>1, <3>1
  <2>2. CASE r # "fail"
    <3>1. failures' = failures
      BY <2>2 DEF Result
    <3> QED BY <1>4, <3>1 DEF ResultInv
  <2> QED BY <2>1, <2>2
<1> QED BY <1>2, <1>5 DEF ResultInv

LEMMA ResultInvInit == Init => ResultInv
BY DEF Init, ResultInv

LEMMA ResultInvStep == ResultInv /\ [Next]_vars => ResultInv'
<1> SUFFICES ASSUME ResultInv, [Next]_vars PROVE ResultInv'
  OBVIOUS
<1>1. CASE Begin
  <2>1. UNCHANGED <<results, i, failures>> /\ pc = "start"
    BY <1>1 DEF Begin
  <2> QED BY <2>1, ResultInvMoves
<1>2. CASE PureCheck
  <2> DEFINE r == IF Kind = "fileExists" THEN runFileExists ELSE runSchemaMatch
  <2>1. r \in Outcomes
    BY DEF runFileExists, runSchemaMatch, Outcomes
  <2>2. Result(r) /\ i' = i + 1 /\ pc' = "check"
    BY <1>2 DEF PureCheck
  <2> HIDE DEF r
  <2> QED BY <2>1, <2>2, ResultInvAdds
<1>3. CASE StartCommand
  <2>1. PICK plan \in {commandPlan} :
          IF plan.type = "result" THEN Result(plan.result) /\ i' = i + 1 /\ UNCHANGED pc
          ELSE UNCHANGED <<results, failures, i>> /\ pc' = "hold"
    BY <1>3 DEF StartCommand
  <2>2. pc = "check"
    BY <1>3 DEF StartCommand
  <2>3. plan.type = "result" => plan.result \in Outcomes
    BY DEF commandPlan, Outcomes
  <2>4. CASE plan.type = "result"
    BY <2>1, <2>2, <2>3, <2>4, ResultInvAdds
  <2>5. CASE plan.type # "result"
    BY <2>1, <2>2, <2>5, ResultInvMoves
  <2> QED BY <2>4, <2>5
<1>4. CASE StartTests
  <2> DEFINE r == IF d.carried /\ scoped'.kind = "no-affected" THEN "unverifiable"
                  ELSE judgeScoped(scoped', Recheck("none"))
  <2>1. r \in Outcomes
    BY DEF judgeScoped, Outcomes
  <2>2. pc = "check" /\ IF spec'.type \in {"spec", "full"} THEN pc' = "hold" /\ UNCHANGED <<results, failures, i>>
                        ELSE Result(r) /\ i' = i + 1 /\ pc' = pc
    BY <1>4 DEF StartTests
  <2> HIDE DEF r
  <2>3. CASE spec'.type \in {"spec", "full"}
    BY <2>2, <2>3, ResultInvMoves
  <2>4. CASE spec'.type \notin {"spec", "full"}
    BY <2>1, <2>2, <2>4, ResultInvAdds
  <2> QED BY <2>3, <2>4
<1>5. CASE NextCheck
  <2> DEFINE r == IF Kind = "testsPass" THEN judgeScoped(scoped, recheck) ELSE shellResult
  <2>1. r \in Outcomes
    BY DEF judgeScoped, shellResult, Outcomes
  <2>2. Result(r) /\ i' = i + 1 /\ pc' = "check"
    BY <1>5 DEF NextCheck
  <2> HIDE DEF r
  <2> QED BY <2>1, <2>2, ResultInvAdds
<1>6. CASE Acquire \/ Launch \/ Kill \/ Exit \/ StartRecheck \/ Materialize \/ Dispose \/ Judge \/ Finish \/ Grade
             \/ Tick \/ GateTimeout \/ \E j \in DOMAIN scopes : DisposeDone(j) \/ Release(j) \/ SlotLost(j)
  <2>1. UNCHANGED <<results, i, failures>> /\ (pc' \in {"start", "grade"} => pc \in {"start", "grade"})
    BY <1>6 DEF Acquire, Launch, Blocked, Kill, Exit, StartRecheck, Materialize, Dispose, Judge, Finish, Grade,
                Tick, GateTimeout, DisposeDone, Release, SlotLost
  <2> QED BY <2>1, ResultInvMoves
<1>7. CASE UNCHANGED vars
  <2>1. UNCHANGED <<results, i, failures, pc>>
    BY <1>7 DEF vars
  <2> QED BY <2>1, ResultInvMoves
<1> QED BY <1>1, <1>2, <1>3, <1>4, <1>5, <1>6, <1>7 DEF Next

LEMMA FailuresFail ==
  ASSUME NEW strict
  PROVE  /\ "fail" \in Range(results) => LET v == runDeterministic(results, strict)
                                         IN v.outcome = "fail" /\ ~v.accepted
         /\ failures # {} => LET v == unverifiableGateResult(failures, strict) IN v.outcome = "fail" /\ ~v.accepted
<1>1. \A c, n : gateResult("fail", c, n, strict).outcome = "fail" /\ ~gateResult("fail", c, n, strict).accepted
  BY DEF gateResult
<1>2. "fail" \in Range(results) => ~\A k \in DOMAIN results : results[k] = "ok"
  BY DEF Range
<1> QED BY <1>1, <1>2 DEF runDeterministic, unverifiableGateResult

\* A failure that was reported before the gate answers is in its answer, whether the checks
\* end, a grader is asked or the gate runs out of time (onFailure, unverifiableGateResult).
THEOREM FailureIsAnswered == Spec => NoFailureForgotten
<1>1. ResultInv /\ [Next]_vars =>
        [verdict = NoVerdict /\ verdict' # NoVerdict /\ failures # {}
           => verdict'.outcome = "fail" /\ ~verdict'.accepted]_vars
  <2> SUFFICES ASSUME ResultInv, Next, verdict = NoVerdict, verdict' # NoVerdict, failures # {}
               PROVE  verdict'.outcome = "fail" /\ ~verdict'.accepted
    OBVIOUS
  <2>1. pc \notin {"start", "grade"} /\ "fail" \in Range(results)
    BY DEF ResultInv, Range
  <2>2. CASE Finish
    BY <2>1, <2>2, FailuresFail DEF Finish
  <2>3. CASE GateTimeout
    BY <2>3, FailuresFail DEF GateTimeout
  <2>4. CASE Begin \/ Grade
    BY <2>1, <2>4 DEF Begin, Grade
  <2>5. CASE PureCheck \/ StartCommand \/ StartTests \/ NextCheck \/ Acquire \/ Launch \/ Kill \/ Exit \/ StartRecheck
             \/ Materialize \/ Dispose \/ Judge \/ Tick
             \/ \E j \in DOMAIN scopes : DisposeDone(j) \/ Release(j) \/ SlotLost(j)
    <3>1. UNCHANGED verdict
      BY <2>5 DEF PureCheck, StartCommand, StartTests, NextCheck, Acquire, Launch, Kill, Exit, StartRecheck,
                  Materialize, Dispose, Judge, Tick, DisposeDone, Release, SlotLost
    <3> QED BY <3>1
  <2> QED BY <2>2, <2>3, <2>4, <2>5 DEF Next
<1> QED BY <1>1, ResultInvInit, ResultInvStep, PTL DEF Spec, NoFailureForgotten

-----------------------------------------------------------------------------
(* The commands that outlive their kill.                                   *)

Rerun(s) == s.type = "spec" /\ s.mode = "rerun"
RerunDue == scoped.kind = "ran" /\ scoped.result.failingIds # {}
Unfinished == scoped.kind \in {"aborted", "timed-out"} \/ (RerunDue /\ recheck.kind = "timed-out")

\* A process runs only while the gate waits for its run.  A check that left one behind has not
\* passed, or is about to be judged on a run without a result; what is rerun has failed.
SurvivorInv ==
  /\ proc # "none" => pc = "running"
  /\ \A j \in survivors : j \in Nat /\ j <= i
  /\ \A j \in survivors \cap DOMAIN results : results[j] # "ok"
  /\ i \in survivors => pc \in {"dispose", "judge", "closing"} /\ Unfinished
  /\ pc = "materialize" \/ (pc \in {"launch", "running"} /\ Rerun(spec)) => RerunDue
  /\ pc = "recheck" => scoped.kind = "ran"

LEMMA SurvivorInvInit == Init => SurvivorInv
BY DEF Init, SurvivorInv, Rerun

\* A step that ends no run and no check.
LEMMA SurvivorInvMoves ==
  ASSUME SurvivorInv, UNCHANGED <<survivors, results, i>>,
         proc' # "none" => pc' = "running",
         i \in survivors => pc' \in {"dispose", "judge", "closing"} /\ UNCHANGED <<scoped, recheck>>,
         pc' = "materialize" \/ (pc' \in {"launch", "running"} /\ Rerun(spec')) => RerunDue',
         pc' = "recheck" => scoped'.kind = "ran"
  PROVE  SurvivorInv'
BY DEF SurvivorInv, Unfinished, RerunDue

\* A step that ends the check i with the result r.
LEMMA SurvivorInvAdds ==
  ASSUME ResultInv, SurvivorInv, NEW r, Result(r), i' = i + 1, UNCHANGED survivors,
         i \in survivors => r # "ok",
         proc' = "none", pc' = "check"
  PROVE  SurvivorInv'
<1>1. results' = Append(results, r) /\ results \in Seq(Outcomes) /\ i = Len(results) + 1
  BY DEF Result, ResultInv
<1>2. DOMAIN results' = 1..i /\ results'[i] = r /\ \A k \in 1..i - 1 : k \in DOMAIN results /\ results'[k] = results[k]
  BY <1>1
<1>3. i \in Nat /\ i' = i + 1 /\ survivors' = survivors
  BY <1>1
<1>4. \A j \in survivors : j \in Nat /\ j <= i
  BY DEF SurvivorInv
<1>5. \A j \in survivors \cap DOMAIN results : results[j] # "ok"
  BY DEF SurvivorInv
<1>6. \A j \in survivors \cap DOMAIN results' : results'[j] # "ok"
  <2> SUFFICES ASSUME NEW j \in survivors, j \in 1..i PROVE results'[j] # "ok"
    BY <1>2
  <2>1. CASE j = i
    BY <1>2, <2>1
  <2>2. CASE j # i
    <3>1. j \in 1..i - 1
      BY <1>3, <2>2
    <3> QED BY <1>2, <1>5, <3>1
  <2> QED BY <2>1, <2>2
<1>7. \A j \in survivors' : j \in Nat /\ j <= i'
  BY <1>3, <1>4
<1>8. i' \notin survivors'
  BY <1>3, <1>4
<1> QED BY <1>3, <1>6, <1>7, <1>8 DEF SurvivorInv

LEMMA SurvivorInvStep == PlanInv /\ ResultInv /\ SurvivorInv /\ [Next]_vars => SurvivorInv'
<1> SUFFICES ASSUME PlanInv, ResultInv, SurvivorInv, [Next]_vars PROVE SurvivorInv'
  OBVIOUS
<1>1. CASE Begin
  <2>1. pc = "start" /\ UNCHANGED <<survivors, results, i, proc>> /\ pc' \in {"done", "grade", "check"}
    BY <1>1 DEF Begin
  <2> QED BY <2>1, SurvivorInvMoves DEF SurvivorInv
<1>2. CASE PureCheck
  <2> DEFINE r == IF Kind = "fileExists" THEN runFileExists ELSE runSchemaMatch
  <2>1. Result(r) /\ i' = i + 1 /\ UNCHANGED <<survivors, proc>> /\ pc = "check" /\ pc' = "check"
    BY <1>2 DEF PureCheck
  <2> HIDE DEF r
  <2>2. i \notin survivors /\ proc' = "none"
    BY <2>1 DEF SurvivorInv
  <2> QED BY <2>1, <2>2, SurvivorInvAdds
<1>3. CASE StartCommand
  <2>1. PICK plan \in {commandPlan} :
          IF plan.type = "result" THEN Result(plan.result) /\ i' = i + 1 /\ UNCHANGED pc
          ELSE UNCHANGED <<results, failures, i>> /\ pc' = "hold"
    BY <1>3 DEF StartCommand
  <2>2. pc = "check" /\ UNCHANGED <<survivors, proc>>
    BY <1>3 DEF StartCommand
  <2>3. i \notin survivors /\ proc' = "none"
    BY <2>2 DEF SurvivorInv
  <2>4. CASE plan.type = "result"
    BY <2>1, <2>2, <2>3, <2>4, SurvivorInvAdds
  <2>5. CASE plan.type # "result"
    BY <2>1, <2>2, <2>3, <2>5, SurvivorInvMoves
  <2> QED BY <2>4, <2>5
<1>4. CASE StartTests
  <2> DEFINE r == IF d.carried /\ scoped'.kind = "no-affected" THEN "unverifiable"
                  ELSE judgeScoped(scoped', Recheck("none"))
  <2>1. pc = "check" /\ UNCHANGED <<survivors, proc>>
        /\ IF spec'.type \in {"spec", "full"} THEN pc' = "hold" /\ UNCHANGED <<results, failures, i>>
           ELSE Result(r) /\ i' = i + 1 /\ pc' = pc
    BY <1>4 DEF StartTests
  <2> HIDE DEF r
  <2>2. i \notin survivors /\ proc' = "none"
    BY <2>1 DEF SurvivorInv
  <2>3. CASE spec'.type \in {"spec", "full"}
    BY <2>1, <2>2, <2>3, SurvivorInvMoves
  <2>4. CASE spec'.type \notin {"spec", "full"}
    BY <2>1, <2>2, <2>4, SurvivorInvAdds
  <2> QED BY <2>3, <2>4
<1>5. CASE Acquire
  <2>1. pc = "hold" /\ UNCHANGED <<survivors, results, i, proc, spec>>
    BY <1>5 DEF Acquire
  <2>2. ~Rerun(spec)
    BY <2>1, HoldIsFirst DEF Rerun
  <2>3. pc' \in {"launch", "judge"}
    BY <1>5, <2>1, HoldIsFirst DEF Acquire, Blocked
  <2>4. i \notin survivors /\ proc' = "none"
    BY <2>1 DEF SurvivorInv
  <2> QED BY <2>1, <2>2, <2>3, <2>4, SurvivorInvMoves DEF Rerun
<1>6. CASE Launch
  <2>1. pc = "launch" /\ UNCHANGED <<survivors, results, i, spec>>
    BY <1>6 DEF Launch
  <2>2. \/ pc' \in {"dispose", "judge"} /\ UNCHANGED proc
        \/ pc' = "running" /\ UNCHANGED scoped
    BY <1>6 DEF Launch, Blocked
  <2>3. i \notin survivors /\ (Rerun(spec) => RerunDue)
    BY <2>1 DEF SurvivorInv
  <2>4. CASE pc' \in {"dispose", "judge"} /\ UNCHANGED proc
    <3>1. proc' = "none"
      BY <2>1, <2>4 DEF SurvivorInv
    <3> QED BY <2>1, <2>3, <2>4, <3>1, SurvivorInvMoves
  <2>5. CASE pc' = "running" /\ UNCHANGED scoped
    <3>1. Rerun(spec') => RerunDue'
      BY <2>1, <2>3, <2>5 DEF RerunDue, Rerun
    <3> QED BY <2>1, <2>3, <2>5, <3>1, SurvivorInvMoves
  <2> QED BY <2>2, <2>4, <2>5
<1>7. CASE Kill
  <2>1. proc # "none" /\ UNCHANGED <<survivors, results, i, pc, scoped, recheck, spec>>
    BY <1>7 DEF Kill
  <2>2. pc = "running" /\ i \notin survivors /\ (Rerun(spec) => RerunDue)
    BY <2>1 DEF SurvivorInv
  <2>3. Rerun(spec') => RerunDue'
    BY <2>1, <2>2 DEF RerunDue, Rerun
  <2> QED BY <2>1, <2>2, <2>3, SurvivorInvMoves
<1>8. CASE Exit
  <2>1. /\ pc = "running" /\ proc' = "none" /\ UNCHANGED <<results, i, spec>>
        /\ UNCHANGED survivors \/ (proc = "dying" /\ survivors' = survivors \cup {i})
    BY <1>8 DEF Exit
  <2>2. i \notin survivors /\ (Rerun(spec) => RerunDue)
    BY <2>1 DEF SurvivorInv
  <2>3. pc' \in {"dispose", "judge", "recheck"}
    BY <1>8 DEF Exit
  <2>4. CASE UNCHANGED survivors
    <3>1. pc' = "recheck" => scoped'.kind = "ran"
      BY <1>8 DEF Exit, Outcome
    <3> QED BY <2>1, <2>2, <2>3, <2>4, <3>1, SurvivorInvMoves
  <2>5. CASE proc = "dying" /\ survivors' = survivors \cup {i}
    <3>1. PICK stopped \in {"aborted", "timed-out"} :
            \/ Rerun(spec) /\ pc' = "dispose" /\ UNCHANGED scoped /\ recheck' = Recheck("timed-out")
            \/ pc' = "judge" /\ scoped' = Outcome(stopped)
      <4> DEFINE ends(stopped, code, now) ==
                   CASE Rerun(spec) ->
                          /\ pc' = "dispose" /\ UNCHANGED scoped
                          /\ recheck' = IF stopped # "none" THEN Recheck("timed-out") ELSE rerunOutcome(readResult(spec, now))
                     [] ~Rerun(spec) /\ stopped # "none" -> scoped' = Outcome(stopped) /\ pc' = "judge" /\ UNCHANGED recheck
                     [] stopped = "none" /\ spec.type = "shell" ->
                          scoped' = [kind |-> "exit", code |-> code] /\ pc' = "judge" /\ UNCHANGED recheck
                     [] OTHER ->
                          /\ scoped' = [kind |-> "ran",
                                        result |-> IF spec.type = "full" THEN synthesizeFullResult(now) ELSE readResult(spec, now)]
                          /\ pc' = "recheck" /\ UNCHANGED recheck
      <4>1. PICK report \in {"full", "none"}, code \in {0, 1}, fails \in FailsAt(spec) :
              LET now == Left(spec, fails, report)
                  stopped == IF proc = "dying" THEN (IF Spent THEN "aborted" ELSE "timed-out") ELSE "none"
              IN ends(stopped, code, now)
        BY <1>8 DEF Exit, Rerun
      <4>2. PICK stopped \in {"aborted", "timed-out"} : ends(stopped, code, Left(spec, fails, report))
        <5> HIDE DEF ends
        <5> QED BY <2>5, <4>1
      <4>3. CASE Rerun(spec)
        BY <4>2, <4>3
      <4>4. CASE ~Rerun(spec)
        BY <4>2, <4>4
      <4> QED BY <4>3, <4>4
    <3>2. Unfinished' /\ pc' \in {"dispose", "judge"}
      <4>1. CASE Rerun(spec) /\ pc' = "dispose" /\ UNCHANGED scoped /\ recheck' = Recheck("timed-out")
        BY <2>2, <4>1 DEF Unfinished, RerunDue, Recheck
      <4>2. CASE pc' = "judge" /\ scoped' = Outcome(stopped)
        BY <4>2 DEF Unfinished, Outcome
      <4> QED BY <3>1, <4>1, <4>2
    <3>3. i \in Nat /\ i \notin DOMAIN results
      BY DEF ResultInv
    <3>4. \A j \in survivors' : j \in Nat /\ j <= i'
      BY <2>1, <2>5, <3>3 DEF SurvivorInv
    <3>5. \A j \in survivors' \cap DOMAIN results' : results'[j] # "ok"
      BY <2>1, <2>5, <3>3 DEF SurvivorInv
    <3> QED BY <2>1, <3>2, <3>4, <3>5 DEF SurvivorInv
  <2> QED BY <2>1, <2>4, <2>5
<1>9. CASE StartRecheck
  <2>1. pc = "recheck" /\ UNCHANGED <<survivors, results, i, proc, scoped>> /\ pc' \in {"materialize", "judge"}
    BY <1>9 DEF StartRecheck
  <2>2. i \notin survivors /\ proc' = "none"
    BY <2>1 DEF SurvivorInv
  <2>3. pc' = "materialize" => RerunDue'
    <3>1. PICK found \in {RecheckableFor(detectImpl(w, JsKinds \cup {"pytest"}))} :
            IF found = "go" THEN pc' = "materialize" ELSE pc' = "judge"
      BY <1>9 DEF StartRecheck
    <3>2. found = "go" => scoped.result.failingIds # {}
      BY DEF RecheckableFor
    <3>3. scoped.kind = "ran"
      BY <2>1 DEF SurvivorInv
    <3> QED BY <2>1, <3>1, <3>2, <3>3 DEF RerunDue
  <2> QED BY <2>1, <2>2, <2>3, SurvivorInvMoves
<1>10. CASE Materialize
  <2>1. pc = "materialize" /\ UNCHANGED <<survivors, results, i, proc, scoped>> /\ pc' \in {"judge", "dispose", "launch"}
    BY <1>10 DEF Materialize
  <2>2. i \notin survivors /\ proc' = "none" /\ RerunDue
    BY <2>1 DEF SurvivorInv
  <2>3. RerunDue'
    BY <2>1, <2>2 DEF RerunDue
  <2> QED BY <2>1, <2>2, <2>3, SurvivorInvMoves
<1>11. CASE Dispose \/ Judge
  <2>1. pc \in {"dispose", "judge"} /\ UNCHANGED <<survivors, results, i, proc, scoped, recheck>> /\ pc' \in {"judge", "closing"}
    BY <1>11 DEF Dispose, Judge
  <2>2. proc' = "none"
    BY <2>1 DEF SurvivorInv
  <2> QED BY <2>1, <2>2, SurvivorInvMoves
<1>12. CASE NextCheck
  <2> DEFINE r == IF Kind = "testsPass" THEN judgeScoped(scoped, recheck) ELSE shellResult
  <2>1. Result(r) /\ i' = i + 1 /\ pc = "closing" /\ pc' = "check" /\ UNCHANGED <<survivors, proc>>
    BY <1>12 DEF NextCheck
  <2>2. Unfinished => r # "ok"
    <3>1. Unfinished => judgeScoped(scoped, recheck) # "ok"
      BY DEF Unfinished, RerunDue, judgeScoped
    <3>2. Unfinished => shellResult # "ok"
      BY DEF Unfinished, RerunDue, shellResult
    <3> QED BY <3>1, <3>2
  <2> HIDE DEF r
  <2>3. proc' = "none" /\ (i \in survivors => r # "ok")
    BY <2>1, <2>2 DEF SurvivorInv
  <2> QED BY <2>1, <2>3, SurvivorInvAdds
<1>13. CASE Finish \/ Grade
  <2>1. pc \in {"check", "grade"} /\ pc' = "done" /\ UNCHANGED <<survivors, results, i, proc>>
    BY <1>13 DEF Finish, Grade
  <2> QED BY <2>1, SurvivorInvMoves DEF SurvivorInv
<1>14. CASE Tick \/ GateTimeout \/ (\E j \in DOMAIN scopes : DisposeDone(j) \/ Release(j) \/ SlotLost(j)) \/ UNCHANGED vars
  <2>1. UNCHANGED <<survivors, results, i, proc, pc, scoped, recheck, spec>>
    BY <1>14 DEF Tick, GateTimeout, DisposeDone, Release, SlotLost, vars
  <2>2. (RerunDue' <=> RerunDue) /\ (Rerun(spec') <=> Rerun(spec))
    BY <2>1 DEF RerunDue, Rerun
  <2> QED BY <2>1, <2>2, SurvivorInvMoves DEF SurvivorInv
<1> QED BY <1>1, <1>2, <1>3, <1>4, <1>5, <1>6, <1>7, <1>8, <1>9, <1>10, <1>11, <1>12, <1>13, <1>14 DEF Next

\* While a command of a check runs or its reference is being removed, the slot of its scope is
\* held, or was taken by another process; the gate never gives it up (attempt, track, close).
\* A command that outlived its kill by the grace may run on, and its check does not pass.
THEOREM SlotHeldWhileRunning == Spec => []SlotCoversRuns
<1>1. SlotInv /\ SurvivorInv => SlotCoversRuns
  <2> SUFFICES ASSUME SlotInv, SurvivorInv PROVE SlotCoversRuns
    OBVIOUS
  <2>1. ASSUME NEW j \in DOMAIN scopes, (j = i /\ proc # "none") \/ scopes[j].inflight # {}
        PROVE  scopes[j].slot \in {"held", "lost"}
    <3>1. j \in 1..2
      BY DEF SlotInv
    <3>2. CASE j = i /\ proc # "none"
      <4>1. pc = "running"
        BY <3>2 DEF SurvivorInv
      <4> QED BY <3>1, <3>2, <4>1 DEF SlotInv, HasSlot
    <3>3. CASE scopes[j].inflight # {}
      BY <3>1, <3>3 DEF SlotInv
    <3> QED BY <2>1, <3>2, <3>3
  <2>2. \A j \in survivors \cap DOMAIN results : results[j] # "ok"
    BY DEF SurvivorInv
  <2> QED BY <2>1, <2>2 DEF SlotCoversRuns
<1> QED BY <1>1, PlanInvInit, PlanInvStep, SlotInvInit, SlotInvStep, ResultInvInit, ResultInvStep,
           SurvivorInvInit, SurvivorInvStep, PTL DEF Spec

-----------------------------------------------------------------------------
(* FailIsIntroduced.                                                       *)

\* The scoped run failed tests that fail now; a rerun, once exact, ran its files as they were
\* at dispatch, and the files it lists as absent were not there.
TruthInv ==
  /\ scoped.kind = "ran" => scoped.result.failingIds \subseteq w.failsNow
  /\ recheck.kind \in {"running", "exact"} => \A f \in recheck.absent : f \notin w.atRef
  /\ recheck.kind = "exact" =>
       \A id \in w.failsRef : id.file \in recheck.ran => id \in recheck.failing /\ ~bare(id)
  /\ pc \in {"launch", "running"} /\ Rerun(spec) => ~Misleading /\ recheck.kind = "running"
  /\ pc = "start" => scoped.kind = "none" /\ recheck.kind = "none"

LEMMA TruthInvInit == Init => TruthInv
BY DEF Init, TruthInv, Outcome, Recheck

\* What a run leaves behind and its result names.
LEMMA ResultNames ==
  ASSUME NEW s, NEW fails, NEW report, NEW now, now = Left(s, fails, report),
         NEW ran, ran = {id \in fails : id.file \in TestsOf(s)}
  PROVE  /\ synthesizeFullResult(now).failingIds = ran
         /\ readResult(s, now).failingIds = ran
         /\ readResult(s, now).complete => (readResult(s, now).collectionError <=> \E id \in ran : bare(id))
<1> DEFINE inner == IF s.kind = "pytest" THEN parseJunit(now) ELSE parseJestJson(now)
<1>1. now.named = ran /\ now.failed = ran /\ (now.collectionError <=> \E id \in ran : bare(id))
  BY DEF Left
<1>2. synthesizeFullResult(now).failingIds = ran
  BY <1>1 DEF synthesizeFullResult, observeTests
<1>3. /\ textResult(now).failingIds = ran /\ ~textResult(now).complete
  BY <1>1 DEF textResult
<1>4. inner.failingIds = ran /\ (inner.collectionError <=> \E id \in ran : bare(id))
  BY <1>1 DEF parseJunit, parseJestJson, finishResult
<1>5. zeroTestsGuard(s, inner).failingIds = ran /\ (zeroTestsGuard(s, inner).collectionError <=> \E id \in ran : bare(id))
  BY <1>1, <1>4 DEF zeroTestsGuard, parseJunit, parseJestJson, finishResult
<1>6. readResult(s, now).failingIds = ran
      /\ (readResult(s, now).complete => (readResult(s, now).collectionError <=> \E id \in ran : bare(id)))
  BY <1>3, <1>5 DEF readResult
<1> QED BY <1>2, <1>6

\* A rerun that is taken for exact says what failed at dispatch.
LEMMA RerunIsTrue ==
  ASSUME Rerun(spec), ~Misleading, NEW fails \in FailsAt(spec), NEW report,
         NEW r, r = rerunOutcome(readResult(spec, Left(spec, fails, report))), r.kind \in {"running", "exact"}
  PROVE  /\ r.absent = recheck.absent
         /\ \A id \in w.failsRef : id.file \in r.ran => id \in r.failing /\ ~bare(id)
<1> DEFINE now == Left(spec, fails, report)
           res == readResult(spec, now)
           ran == {id \in fails : id.file \in TestsOf(spec)}
<1>1. fails = w.failsRef
  BY DEF FailsAt, Rerun
<1>2. TestsOf(spec) = spec.inputs
  BY DEF TestsOf, Rerun
<1>3. res.complete /\ ~res.collectionError
      /\ r = [kind |-> "exact", ran |-> spec.inputs, absent |-> recheck.absent, failing |-> res.failingIds]
  BY DEF rerunOutcome, Recheck
<1>4. res.failingIds = ran /\ (res.complete => (res.collectionError <=> \E id \in ran : bare(id)))
  <2> DEFINE x == Left(spec, fails, report)
             y == {id \in fails : id.file \in TestsOf(spec)}
  <2>1. x = Left(spec, fails, report) /\ y = {id \in fails : id.file \in TestsOf(spec)}
    OBVIOUS
  <2> HIDE DEF x, y
  <2>2. /\ readResult(spec, x).failingIds = y
        /\ readResult(spec, x).complete => (readResult(spec, x).collectionError <=> \E id \in y : bare(id))
    BY <2>1, ResultNames
  <2> QED BY <2>1, <2>2
<1> HIDE DEF res
<1> QED BY <1>1, <1>2, <1>3, <1>4

LEMMA TruthInvStep == PlanInv /\ TruthInv /\ [Next]_vars => TruthInv'
<1> SUFFICES ASSUME PlanInv, TruthInv, [Next]_vars PROVE TruthInv'
  OBVIOUS
<1>0. ~Rerun(spec) \/ pc # "hold"
  BY HoldIsFirst DEF Rerun
<1>1. CASE Begin
  <2>1. pc = "start" /\ UNCHANGED <<scoped, recheck, spec>> /\ pc' \in {"done", "grade", "check"}
    BY <1>1 DEF Begin
  <2> QED BY <2>1 DEF TruthInv
<1>2. CASE PureCheck \/ StartCommand \/ Kill \/ Dispose \/ Judge \/ NextCheck \/ Finish \/ Grade \/ Tick \/ GateTimeout
             \/ \E j \in DOMAIN scopes : DisposeDone(j) \/ Release(j) \/ SlotLost(j)
  <2>1. UNCHANGED <<w, scoped, recheck>>
        /\ (pc' \in {"launch", "running"} => pc' = pc /\ UNCHANGED spec) /\ (pc' = "start" => pc = "start")
    BY <1>2 DEF PureCheck, StartCommand, Kill, Dispose, Judge, NextCheck, Finish, Grade, Tick, GateTimeout,
                DisposeDone, Release, SlotLost
  <2> QED BY <2>1 DEF TruthInv, Misleading
<1>3. CASE StartTests
  <2>1. UNCHANGED w /\ pc' \in {"check", "hold"} /\ recheck' = Recheck("none")
        /\ (UNCHANGED scoped \/ scoped' = Outcome(IF spec'.type = "noAffected" THEN "no-affected" ELSE "unverifiable"))
    BY <1>3 DEF StartTests
  <2> QED BY <2>1 DEF TruthInv, Recheck, Outcome
<1>4. CASE Acquire
  <2>1. PICK outcome \in {"held", "slot-busy", "error"} :
          IF outcome = "held" THEN pc' = "launch" /\ UNCHANGED <<scoped, recheck>> ELSE Blocked(outcome)
    BY <1>4 DEF Acquire
  <2>2. pc = "hold" /\ UNCHANGED <<w, spec>>
    BY <1>4 DEF Acquire
  <2>3. UNCHANGED recheck /\ pc' \in {"launch", "judge"} /\ (UNCHANGED scoped \/ scoped' = Outcome(outcome))
    BY <1>0, <2>1, <2>2 DEF Blocked, Rerun
  <2>4. outcome # "ran"
    OBVIOUS
  <2> QED BY <1>0, <2>2, <2>3, <2>4 DEF TruthInv, Outcome, Rerun
<1>5. CASE Launch
  <2>1. UNCHANGED <<w, spec>> /\ pc = "launch"
    BY <1>5 DEF Launch
  <2>2. (Blocked("aborted") \/ Blocked("error")) \/ (pc' = "running" /\ UNCHANGED <<scoped, recheck>>)
    BY <1>5 DEF Launch
  <2>3. CASE pc' = "running" /\ UNCHANGED <<scoped, recheck>>
    BY <2>1, <2>3 DEF TruthInv, Misleading
  <2>4. ASSUME NEW outcome \in {"aborted", "error"}, Blocked(outcome) PROVE TruthInv'
    <3>1. \/ pc' = "dispose" /\ UNCHANGED scoped /\ \E k \in {"skipped-deadline", "unusable"} : recheck' = Recheck(k)
          \/ pc' = "judge" /\ UNCHANGED recheck /\ scoped' = Outcome(outcome)
      BY <2>4 DEF Blocked
    <3> QED BY <2>1, <3>1 DEF TruthInv, Recheck, Outcome
  <2> QED BY <2>2, <2>3, <2>4
<1>6. CASE Exit
  <2>0. pc = "running" /\ UNCHANGED <<w, spec>> /\ pc' \in {"dispose", "judge", "recheck"}
    BY <1>6 DEF Exit
  <2>1. PICK report \in {"full", "none"}, code \in {0, 1}, fails \in FailsAt(spec) :
          LET now == Left(spec, fails, report)
              stopped == IF proc = "dying" THEN (IF Spent THEN "aborted" ELSE "timed-out") ELSE "none"
              rerun == spec.type = "spec" /\ spec.mode = "rerun"
          IN CASE rerun ->
                    /\ pc' = "dispose" /\ UNCHANGED scoped
                    /\ recheck' = IF stopped # "none" THEN Recheck("timed-out") ELSE rerunOutcome(readResult(spec, now))
               [] ~rerun /\ stopped # "none" -> scoped' = Outcome(stopped) /\ pc' = "judge" /\ UNCHANGED recheck
               [] stopped = "none" /\ spec.type = "shell" ->
                    scoped' = [kind |-> "exit", code |-> code] /\ pc' = "judge" /\ UNCHANGED recheck
               [] OTHER ->
                    /\ scoped' = [kind |-> "ran",
                                  result |-> IF spec.type = "full" THEN synthesizeFullResult(now) ELSE readResult(spec, now)]
                    /\ pc' = "recheck" /\ UNCHANGED recheck
    BY <1>6 DEF Exit
  <2> DEFINE now == Left(spec, fails, report)
             read == readResult(spec, now)
             synth == synthesizeFullResult(now)
             rerun == rerunOutcome(read)
  <2>2. \/ Rerun(spec) /\ UNCHANGED scoped /\ (recheck' = Recheck("timed-out") \/ recheck' = rerun)
        \/ scoped' \in {Outcome("aborted"), Outcome("timed-out"), [kind |-> "exit", code |-> code]} /\ UNCHANGED recheck
        \/ ~Rerun(spec) /\ UNCHANGED recheck /\ scoped' \in {[kind |-> "ran", result |-> synth], [kind |-> "ran", result |-> read]}
    BY <2>1 DEF Rerun
  <2>3. CASE Rerun(spec) /\ UNCHANGED scoped /\ recheck' = rerun
    <3>1. ~Misleading /\ recheck.kind = "running"
      BY <2>0, <2>3 DEF TruthInv
    <3>2. rerun.kind \in {"running", "exact"} =>
            /\ rerun.absent = recheck.absent
            /\ \A id \in w.failsRef : id.file \in rerun.ran => id \in rerun.failing /\ ~bare(id)
      BY <2>3, <3>1, RerunIsTrue
    <3> HIDE DEF rerun
    <3> QED BY <2>0, <2>3, <3>1, <3>2 DEF TruthInv
  <2>4. CASE Rerun(spec) /\ UNCHANGED scoped /\ recheck' = Recheck("timed-out")
    BY <2>0, <2>4 DEF TruthInv, Recheck
  <2>5. CASE scoped' \in {Outcome("aborted"), Outcome("timed-out"), [kind |-> "exit", code |-> code]} /\ UNCHANGED recheck
    <3>1. scoped'.kind # "ran"
      BY <2>5 DEF Outcome
    <3> QED BY <2>0, <2>5, <3>1 DEF TruthInv
  <2>6. CASE ~Rerun(spec) /\ UNCHANGED recheck
             /\ scoped' \in {[kind |-> "ran", result |-> synth], [kind |-> "ran", result |-> read]}
    <3>1. fails = w.failsNow
      BY <2>6 DEF FailsAt, Rerun
    <3>2. synth.failingIds \subseteq fails /\ read.failingIds \subseteq fails
      <4>1. PICK ran : ran = {id \in fails : id.file \in TestsOf(spec)}
        OBVIOUS
      <4>2. synth.failingIds = ran
        BY <4>1, ResultNames
      <4>3. read.failingIds = ran
        BY <4>1, ResultNames
      <4> HIDE DEF synth, read
      <4> QED BY <4>1, <4>2, <4>3
    <3> HIDE DEF synth, read
    <3>3. scoped'.result.failingIds \subseteq w.failsNow
      BY <2>6, <3>1, <3>2
    <3> QED BY <2>0, <2>6, <3>3 DEF TruthInv
  <2> HIDE DEF rerun, synth, read
  <2> QED BY <2>2, <2>3, <2>4, <2>5, <2>6
<1>7. CASE StartRecheck
  <2>1. /\ UNCHANGED <<w, scoped>> /\ pc' \in {"materialize", "judge"}
        /\ UNCHANGED recheck \/ \E k \in {"none", "disabled", "unusable", "skipped-deadline"} : recheck' = Recheck(k)
    BY <1>7 DEF StartRecheck, RecheckableFor
  <2> QED BY <2>1 DEF TruthInv, Recheck
<1>8. CASE Materialize
  <2> DEFINE det == detectImpl(w, JsKinds \cup {"pytest"})
             files == {id.file : id \in scoped.result.failingIds}
             none == [Recheck("exact") EXCEPT !.absent = files \ w.atRef]
             again == planRerun(w, det, files, w.atRef)
  <2>1. UNCHANGED <<w, scoped>> /\ pc' # "start"
    BY <1>8 DEF Materialize
  <2>2. \/ pc' \in {"judge", "dispose"} /\ \E k \in {"skipped-deadline", "unusable", "approximate"} : recheck' = Recheck(k)
        \/ pc' = "dispose" /\ recheck' = none
        \/ /\ pc' = "launch" /\ recheck' = [none EXCEPT !.kind = "running"] /\ spec' = again /\ again.type = "spec"
           /\ w.reference # "approximate" /\ \A e \in w.unreproduced : isInertUnreproduced(e)
    <3> HIDE DEF again, none, det
    <3> QED BY <1>8 DEF Materialize, again, none, det
  <2>3. none.kind = "exact" /\ none.ran = {} /\ \A f \in none.absent : f \notin w.atRef
    BY DEF Recheck
  <2>4. CASE pc' \in {"judge", "dispose"} /\ \E k \in {"skipped-deadline", "unusable", "approximate"} : recheck' = Recheck(k)
    BY <2>1, <2>4 DEF TruthInv, Recheck
  <2>5. CASE pc' = "dispose" /\ recheck' = none
    <3> HIDE DEF none
    <3> QED BY <2>1, <2>3, <2>5 DEF TruthInv
  <2>6. CASE /\ pc' = "launch" /\ recheck' = [none EXCEPT !.kind = "running"] /\ spec' = again /\ again.type = "spec"
             /\ w.reference # "approximate" /\ \A e \in w.unreproduced : isInertUnreproduced(e)
    <3>1. recheck'.kind = "running" /\ \A f \in recheck'.absent : f \notin w.atRef
      BY <2>6 DEF Recheck
    <3>2. ~Misleading
      <4>1. PICK c \in Cases : w = c.w
        BY <1>8 DEF PlanInv, Materialize
      <4> QED BY <2>6, <4>1, CasesAssumption DEF Misleading, isInertUnreproduced
    <3>3. Misleading' = Misleading
      BY <2>1 DEF Misleading
    <3> QED BY <2>1, <2>6, <3>1, <3>2, <3>3 DEF TruthInv
  <2> HIDE DEF none, again
  <2> QED BY <2>2, <2>4, <2>5, <2>6
<1>9. CASE UNCHANGED vars
  BY <1>9 DEF vars, TruthInv, Misleading
<1> QED BY <1>1, <1>2, <1>3, <1>4, <1>5, <1>6, <1>7, <1>8, <1>9 DEF Next

\* A failing judgement names a test that fails now and did not at dispatch.
LEMMA FailingJudgement ==
  ASSUME PlanInv, TruthInv, pc # "start", judgeScoped(scoped, recheck) = "fail"
  PROVE  NewFailures # {}
<1>1. scoped.kind = "ran" /\ recheck.kind = "exact" /\ "introduced" \in classifyFailures(scoped.result, recheck)
  BY DEF judgeScoped
<1>2. PICK id \in scoped.result.failingIds : classOf(scoped.result, recheck, id) = "introduced"
  BY <1>1 DEF classifyFailures
<1>3. id \in w.failsNow
  BY <1>1 DEF TruthInv
<1>4. ASSUME id \in w.failsRef PROVE FALSE
  <2>1. id.file \in w.atRef
    BY <1>4, CasesAssumption DEF PlanInv
  <2>2. id.file \notin recheck.absent
    BY <1>1, <2>1 DEF TruthInv
  <2>3. CASE id.file \notin recheck.ran
    BY <1>2, <2>2, <2>3 DEF classOf, fileKeyOfId
  <2>4. CASE id.file \in recheck.ran
    <3>1. id \in recheck.failing /\ ~bare(id)
      BY <1>1, <1>4, <2>4 DEF TruthInv
    <3> QED BY <1>2, <2>2, <2>4, <3>1 DEF classOf, fileKeyOfId
  <2> QED BY <2>3, <2>4
<1> QED BY <1>3, <1>4 DEF NewFailures

LEMMA FailIntroducedMoves ==
  ASSUME FailIsIntroduced, UNCHANGED <<results, dod, w>>
  PROVE  FailIsIntroduced'
BY DEF FailIsIntroduced, NewFailures

LEMMA FailIntroducedAdds ==
  ASSUME ResultInv, FailIsIntroduced, NEW r, Result(r), UNCHANGED <<dod, w>>,
         Kind = "testsPass" /\ r = "fail" => NewFailures # {}
  PROVE  FailIsIntroduced'
<1>1. results' = Append(results, r) /\ results \in Seq(Outcomes) /\ i = Len(results) + 1
  BY DEF Result, ResultInv
<1>2. NewFailures' = NewFailures
  BY DEF NewFailures
<1>3. ASSUME NEW k \in DOMAIN results', dod.checks[k] = "testsPass", results'[k] = "fail"
      PROVE  NewFailures # {}
  <2>1. DOMAIN results = 1..Len(results) /\ DOMAIN results' = 1..Len(results) + 1 /\ Len(results) \in Nat
        /\ (\A n \in DOMAIN results : results'[n] = results[n]) /\ results'[Len(results) + 1] = r
    BY <1>1
  <2>2. k \in DOMAIN results \/ k = i
    BY <1>1, <2>1, <1>3
  <2> QED BY <1>1, <1>3, <2>1, <2>2 DEF FailIsIntroduced, Kind
<1> QED BY <1>2, <1>3 DEF FailIsIntroduced

LEMMA FailIntroducedStep ==
  PlanInv /\ TruthInv /\ ResultInv /\ FailIsIntroduced /\ [Next]_vars => FailIsIntroduced'
<1> SUFFICES ASSUME PlanInv, TruthInv, ResultInv, FailIsIntroduced, [Next]_vars PROVE FailIsIntroduced'
  OBVIOUS
<1>1. CASE Begin
  <2>1. results' = <<>>
    BY <1>1 DEF Begin, ResultInv
  <2> QED BY <2>1 DEF FailIsIntroduced
<1>2. CASE PureCheck
  <2>1. Kind # "testsPass" /\ UNCHANGED <<dod, w>> /\ \E r : Result(r)
    BY <1>2 DEF PureCheck
  <2> QED BY <2>1, FailIntroducedAdds
<1>3. CASE StartCommand
  <2>1. Kind # "testsPass" /\ UNCHANGED <<dod, w>> /\ ((\E r : Result(r)) \/ UNCHANGED results)
    BY <1>3 DEF StartCommand
  <2> QED BY <2>1, FailIntroducedAdds, FailIntroducedMoves
<1>4. CASE StartTests
  <2> DEFINE judged == judgeScoped(scoped', Recheck("none"))
             r == IF d.carried /\ scoped'.kind = "no-affected" THEN "unverifiable" ELSE judged
  <2>1. judged # "fail"
    BY DEF judgeScoped, Recheck
  <2>2. UNCHANGED <<dod, w>> /\ (Result(r) \/ UNCHANGED results)
    BY <1>4 DEF StartTests
  <2> HIDE DEF judged
  <2>3. r # "fail"
    BY <2>1
  <2> HIDE DEF r
  <2> QED BY <2>2, <2>3, FailIntroducedAdds, FailIntroducedMoves
<1>5. CASE NextCheck
  <2> DEFINE r == IF Kind = "testsPass" THEN judgeScoped(scoped, recheck) ELSE shellResult
  <2>1. pc # "start" /\ UNCHANGED <<dod, w>> /\ Result(r)
    BY <1>5 DEF NextCheck
  <2>2. Kind = "testsPass" /\ r = "fail" => NewFailures # {}
    BY <2>1, FailingJudgement
  <2> HIDE DEF r
  <2> QED BY <2>1, <2>2, FailIntroducedAdds
<1>6. CASE Acquire \/ Launch \/ Kill \/ Exit \/ StartRecheck \/ Materialize \/ Dispose \/ Judge \/ Finish \/ Grade
             \/ Tick \/ GateTimeout \/ \E j \in DOMAIN scopes : DisposeDone(j) \/ Release(j) \/ SlotLost(j)
  <2>1. UNCHANGED <<results, dod, w>>
    BY <1>6 DEF Acquire, Launch, Kill, Exit, StartRecheck, Materialize, Dispose, Judge, Finish, Grade,
                Tick, GateTimeout, DisposeDone, Release, SlotLost
  <2> QED BY <2>1, FailIntroducedMoves
<1>7. CASE UNCHANGED vars
  <2>1. UNCHANGED <<results, dod, w>>
    BY <1>7 DEF vars
  <2> QED BY <2>1, FailIntroducedMoves
<1> QED BY <1>1, <1>2, <1>3, <1>4, <1>5, <1>6, <1>7 DEF Next

\* A testsPass check fails only when some test fails that did not fail at dispatch: the half of
\* VerdictIsRight that needs the reference (recheck, rerunAt, classOf, judgeScoped).
THEOREM FailureIsNew == Spec => []FailIsIntroduced
<1>1. Init => FailIsIntroduced
  BY DEF Init, FailIsIntroduced
<1> QED BY <1>1, PlanInvInit, PlanInvStep, TruthInvInit, TruthInvStep, ResultInvInit, ResultInvStep,
           FailIntroducedStep, PTL DEF Spec

=============================================================================
