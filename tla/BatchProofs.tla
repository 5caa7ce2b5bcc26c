---------------------------- MODULE BatchProofs ----------------------------
(***************************************************************************)
(* Theorems about the batch coordinator (Batch), for any number of         *)
(* requests, any window size and any mix of members: the three promises    *)
(* the run checks, from one inductive invariant.  It says of every member  *)
(* where it waits (Placed) and of every batch what its members may have    *)
(* been told before the failures of its union run are explained (Sane).    *)
(***************************************************************************)
EXTENDS Batch, FiniteSetTheorems, WellFoundedInduction, TLAPS

-----------------------------------------------------------------------------
(* The invariant.                                                          *)

\* Whose deadline has passed, or everyone once the coordinator is disposed.
Gone == expired \cup {m \in Members : disposed}
Phases == {"new", "planning", "window", "run", "own-wait", "own-run", "held", "recheck-wait", "recheck", "settled"}
Outs == {"none", "ran", "aborted", "error", "slot-busy", "no-affected", "unverifiable"}
Steps == {"none", "plan", "hold", "union", "own", "recheck", "ended", "evicted"}
MemberSet == [ph : Phases, out : Outs, fails : SUBSET Ids, taint : BOOLEAN]
BatchSet ==
  [of : SUBSET Members, step : Steps, cur : SUBSET Members, uids : SUBSET Ids, repro : SUBSET Ids,
   final : BOOLEAN, split : SUBSET Members]
Waiting == {"new", "planning", "window"}

\* A member of a batch whose union run is over.
Answering(r, bt) ==
  /\ r.ph \in {"own-wait", "own-run", "held", "recheck-wait", "recheck", "settled"}
  /\ r.ph \in {"held", "recheck-wait", "recheck"} => r.out = "ran"
  /\ r.ph \in {"recheck-wait", "recheck"} => bt.final
\* While a union failure is unexplained, whoever is told that its tests ran is tainted, and
\* once the batch is final nobody is left to explain it.
Explained(r, bt) ==
  outstanding(bt) # {} =>
    /\ r.ph = "settled" /\ r.out = "ran" => r.taint
    /\ bt.final /\ r.ph # "settled" => r.ph \notin {"own-wait", "own-run"} /\ r.taint

\* What holds of one batch.
Sane(ms, bt) ==
  /\ bt.cur \subseteq bt.of /\ bt.split \subseteq bt.of
  /\ bt.step \in {"plan", "hold", "union", "own"} => bt.split = {}
  /\ bt.step \in {"plan", "hold", "union"} =>
       bt.uids = {} /\ ~bt.final /\ \A m \in bt.of : ms[m].ph \in {"run", "settled"} /\ ms[m].out # "ran"
  /\ bt.step \in {"own", "recheck"} => \A m \in bt.of : Answering(ms[m], bt)
  /\ bt.step = "own" => \A m \in bt.cur : ms[m].ph \in {"own-run", "settled"}
  /\ bt.step = "recheck" => \A m \in bt.cur \cup bt.split : ms[m].ph \in {"recheck", "settled"}
  /\ \A m \in bt.of : Explained(ms[m], bt)
  /\ bt.step \in {"ended", "evicted"} /\ outstanding(bt) # {} => \A m \in bt.of : ms[m].ph = "settled"

\* Every member that waits is in the window or in one running batch, and a batch is
\* named by a member of its own.
Placed(ms, bs, wn) ==
  /\ \A m \in Members : ms[m].ph = "window" <=> m \in wn
  /\ \A b \in Members : IF bs[b].step = "none" THEN bs[b].of = {} ELSE b \in bs[b].of
  /\ \A b \in Members : \A m \in bs[b].of : ms[m].ph \notin Waiting
  /\ \A m \in Members : ms[m].ph \notin Waiting \cup {"settled"} => \E b \in Running(bs) : m \in bs[b].of
  /\ \A b, c \in Running(bs) : \A m \in bs[b].of \cap bs[c].of : ms[m].ph # "settled" => b = c

BatchInv(ms, bs, wn, gone) ==
  /\ ms \in [Members -> MemberSet] /\ bs \in [Members -> BatchSet] /\ wn \subseteq Members
  /\ Placed(ms, bs, wn)
  /\ \A b \in Members : Sane(ms, bs[b])
  /\ \A m \in Members : ms[m].ph \in Waiting => ms[m].out = "none"
  /\ \A m \in Members : ms[m].out = "aborted" => m \in gone

LEMMA InvInit == Init => BatchInv(mem, batch, win, Gone)
<1> SUFFICES ASSUME Init PROVE BatchInv(mem, batch, win, Gone)
  OBVIOUS
<1>1. NewMember \in MemberSet /\ NoBatch \in BatchSet
  BY DEF NewMember, NoBatch, MemberSet, BatchSet, Phases, Outs, Steps
<1>2. /\ mem \in [Members -> MemberSet] /\ batch \in [Members -> BatchSet] /\ win = {}
      /\ \A m \in Members : mem[m] = NewMember /\ batch[m] = NoBatch
  BY <1>1 DEF Init
<1>3. Placed(mem, batch, win)
  BY <1>2 DEF Placed, Running, NewMember, NoBatch, Waiting
<1>4. \A b \in Members : Sane(mem, batch[b])
  BY <1>2 DEF Sane, NoBatch
<1> QED BY <1>2, <1>3, <1>4 DEF BatchInv, NewMember

-----------------------------------------------------------------------------
(* Lemmas about the operators.                                             *)

\* A nonempty set of members has a least one.
LEMMA LeastIsIn ==
  ASSUME NEW S \in SUBSET Members, S # {}
  PROVE  Least(S) \in S /\ \A k \in S : Least(S) <= k
<1>1. S \subseteq Nat
  BY DEF Members
<1>2. PICK m \in S : \A k \in S : ~(<<k, m>> \in OpToRel(<, Nat))
  BY <1>1, NatLessThanWellFounded, WFMin
<1>3. \A k \in S : m <= k
  <2> TAKE k \in S
  <2>1. <<k, m>> \in Nat \X Nat
    BY <1>1
  <2>2. ~(k < m)
    BY <1>2, <2>1 DEF OpToRel
  <2> QED BY <1>1, <2>2, k \in Nat, m \in Nat
<1> QED BY <1>3 DEF Least

LEMMA LeastOfOne ==
  ASSUME NEW m \in Members
  PROVE  Least({m}) = m
BY LeastIsIn

LEMMA SettleIs ==
  ASSUME NEW r \in MemberSet, NEW out \in Outs
  PROVE  /\ Settle(r, out) \in MemberSet /\ Settle(r, out).ph = "settled" /\ Settle(r, out).taint = r.taint
         /\ r.ph = "settled" => Settle(r, out) = r
         /\ r.ph # "settled" => Settle(r, out).out = out
BY DEF Settle, MemberSet, Phases

\* SettleAll answers those of S that were not answered, and touches nobody else.
LEMMA SettleAllIs ==
  ASSUME NEW ms \in [Members -> MemberSet], NEW S, NEW out \in Outs
  PROVE  /\ SettleAll(ms, S, out) \in [Members -> MemberSet]
         /\ \A m \in Members :
              /\ m \notin S \/ ms[m].ph = "settled" => SettleAll(ms, S, out)[m] = ms[m]
              /\ m \in S => SettleAll(ms, S, out)[m].ph = "settled"
              /\ m \in S /\ ms[m].ph # "settled" => SettleAll(ms, S, out)[m].out = out
              /\ SettleAll(ms, S, out)[m].taint = ms[m].taint
BY SettleIs DEF SettleAll

LEMMA PutIs ==
  ASSUME NEW ms \in [Members -> MemberSet], NEW S, NEW phase \in Phases
  PROVE  /\ Put(ms, S, phase) \in [Members -> MemberSet]
         /\ \A m \in Members :
              /\ m \notin S \/ ms[m].ph = "settled" => Put(ms, S, phase)[m] = ms[m]
              /\ m \in S /\ ms[m].ph # "settled" => Put(ms, S, phase)[m].ph = phase
              /\ Put(ms, S, phase)[m].out = ms[m].out
              /\ Put(ms, S, phase)[m].taint = ms[m].taint
BY DEF Put, MemberSet

-----------------------------------------------------------------------------
(* How a step keeps the invariant.                                         *)

\* Of the members only those in S change, who are not answered yet and do not go back to waiting.
Moves(ms, ms2, S) ==
  /\ ms2 \in [Members -> MemberSet]
  /\ \A m \in Members : m \notin S \/ ms[m].ph = "settled" => ms2[m] = ms[m]
  /\ \A m \in S : ms2[m].ph \notin Waiting

LEMMA SaneUnmoved ==
  ASSUME NEW ms, NEW ms2, NEW bt, Sane(ms, bt), \A m \in bt.of : ms2[m] = ms[m]
  PROVE  Sane(ms2, bt)
BY DEF Sane

\* Answers other than a result of a run explain nothing and hide nothing.
LEMMA SaneSettled ==
  ASSUME NEW ms, NEW ms2, NEW bt, Sane(ms, bt),
         \A m \in bt.of : ms2[m] = ms[m] \/ (ms2[m].ph = "settled" /\ ms2[m].out # "ran")
  PROVE  Sane(ms2, bt)
<1>1. \A m \in bt.of : Explained(ms[m], bt) => Explained(ms2[m], bt)
  BY DEF Explained
<1>2. \A m \in bt.of : Answering(ms[m], bt) => Answering(ms2[m], bt)
  BY DEF Answering
<1>3. \A m \in bt.of : ms[m].ph = "settled" => ms2[m].ph = "settled"
  OBVIOUS
<1> QED BY <1>1, <1>2, <1>3 DEF Sane

\* What b does with its members leaves the other batches as they are.
LEMMA Elsewhere ==
  ASSUME NEW ms, NEW bs, NEW wn, NEW gone, BatchInv(ms, bs, wn, gone),
         NEW b \in Running(bs), NEW ms2, Moves(ms, ms2, bs[b].of), NEW k \in Members \ {b}
  PROVE  Sane(ms2, bs[k])
<1>1. Sane(ms, bs[k]) /\ bs[k].of \subseteq Members
  BY DEF BatchInv, BatchSet
<1>2. CASE k \in Running(bs)
  <2>1. \A m \in bs[k].of : ms2[m] = ms[m]
    BY <1>1, <1>2 DEF Moves, BatchInv, Placed
  <2> QED BY <1>1, <2>1, SaneUnmoved
<1>3. CASE k \notin Running(bs) /\ outstanding(bs[k]) # {} /\ bs[k].step # "none"
  <2>1. bs[k].step \in {"ended", "evicted"}
    BY <1>3 DEF Running
  <2>2. \A m \in bs[k].of : ms[m].ph = "settled"
    BY <1>1, <1>3, <2>1 DEF Sane
  <2>3. \A m \in bs[k].of : ms2[m] = ms[m]
    BY <1>1, <2>2 DEF Moves
  <2> QED BY <1>1, <2>3, SaneUnmoved
<1>4. CASE k \notin Running(bs) /\ outstanding(bs[k]) = {}
  <2>1. bs[k].step \in {"ended", "evicted", "none"}
    BY <1>4 DEF Running
  <2>2. bs[k].step \notin {"plan", "hold", "union", "own", "recheck"}
    BY <2>1
  <2> QED BY <1>1, <1>4, <2>2 DEF Sane, Explained
<1>5. CASE bs[k].step = "none"
  BY <1>1, <1>5, SaneUnmoved DEF BatchInv, Placed
<1> QED BY <1>2, <1>3, <1>4, <1>5

\* A step inside the running batch b.
LEMMA Within ==
  ASSUME NEW ms, NEW bs, NEW wn, NEW gone, BatchInv(ms, bs, wn, gone),
         NEW b \in Running(bs), NEW ms2, NEW bs2 \in [Members -> BatchSet],
         Moves(ms, ms2, bs[b].of), \A k \in Members \ {b} : bs2[k] = bs[k],
         bs2[b].of = bs[b].of, bs2[b].step # "none",
         b \in Running(bs2) \/ \A m \in bs[b].of : ms2[m].ph = "settled",
         Sane(ms2, bs2[b]), \A m \in Members : ms2[m].out = "aborted" => m \in gone
  PROVE  BatchInv(ms2, bs2, wn, gone)
<1>1. b \in Members /\ bs[b].step \notin {"none", "ended", "evicted"}
  BY DEF Running
<1>2. bs[b].of \subseteq Members
  BY <1>1 DEF BatchInv, BatchSet
<1>3. \A k \in Members \ {b} : Sane(ms2, bs2[k])
  BY Elsewhere
<1>4. Placed(ms2, bs2, wn)
  <2>1. \A m \in Members : ms2[m].ph = "window" <=> m \in wn
    BY <1>1, <1>2 DEF Moves, BatchInv, Placed, Waiting
  <2>2. \A k \in Members : bs2[k].of = bs[k].of /\ (bs2[k].step = "none" <=> bs[k].step = "none")
    BY <1>1
  <2>3. \A k \in Members : IF bs2[k].step = "none" THEN bs2[k].of = {} ELSE k \in bs2[k].of
    BY <2>2 DEF BatchInv, Placed
  <2>4. \A k \in Members : \A m \in bs2[k].of : ms2[m].ph \notin Waiting
    <3> TAKE k \in Members
    <3> TAKE m \in bs2[k].of
    <3>1. m \in Members /\ ms[m].ph \notin Waiting
      BY <2>2 DEF BatchInv, Placed, BatchSet
    <3> QED BY <3>1 DEF Moves
  <2>5. \A k \in Running(bs2) : k \in Running(bs)
    BY <1>1 DEF Running
  <2>6. \A k \in Running(bs) : k \in Running(bs2) \/ k = b
    BY DEF Running
  <2>7. \A m \in Members : ms2[m].ph \notin Waiting \cup {"settled"} => \E k \in Running(bs2) : m \in bs2[k].of
    <3> SUFFICES ASSUME NEW m \in Members, ms2[m].ph \notin Waiting \cup {"settled"}
                 PROVE  \E k \in Running(bs2) : m \in bs2[k].of
      OBVIOUS
    <3>1. CASE m \in bs[b].of
      BY <2>2, <3>1
    <3>2. CASE m \notin bs[b].of
      <4>1. ms2[m] = ms[m]
        BY <3>2 DEF Moves
      <4>2. PICK k \in Running(bs) : m \in bs[k].of
        BY <4>1 DEF BatchInv, Placed
      <4> QED BY <2>2, <2>6, <3>2, <4>2 DEF Running
    <3> QED BY <3>1, <3>2
  <2>8. \A k, l \in Running(bs2) : \A m \in bs2[k].of \cap bs2[l].of : ms2[m].ph # "settled" => k = l
    <3> SUFFICES ASSUME NEW k \in Running(bs2), NEW l \in Running(bs2), NEW m \in bs2[k].of \cap bs2[l].of,
                        ms2[m].ph # "settled"
                 PROVE  k = l
      OBVIOUS
    <3>1. k \in Running(bs) /\ l \in Running(bs) /\ k \in Members /\ l \in Members
      BY <2>5 DEF Running
    <3>2. m \in bs[k].of \cap bs[l].of /\ m \in Members
      BY <2>2, <3>1 DEF BatchInv, BatchSet
    <3>3. ms[m].ph # "settled"
      BY <3>2 DEF Moves
    <3> QED BY <3>1, <3>2, <3>3 DEF BatchInv, Placed
  <2> QED BY <2>1, <2>3, <2>4, <2>7, <2>8 DEF Placed
<1> QED BY <1>3, <1>4 DEF BatchInv, Moves

\* A step of members that are in no batch: they wait or are answered.
LEMMA Outside ==
  ASSUME NEW ms, NEW bs, NEW wn, NEW gone, BatchInv(ms, bs, wn, gone),
         NEW ms2 \in [Members -> MemberSet], NEW wn2 \in SUBSET Members,
         \A m \in Members : ms2[m] = ms[m] \/ (ms[m].ph \in Waiting /\ ms2[m].ph \in Waiting \cup {"settled"}),
         \A m \in Members : ms2[m].ph = "window" <=> m \in wn2,
         \A m \in Members : ms2[m].ph \in Waiting => ms2[m].out = "none",
         \A m \in Members : ms2[m].out = "aborted" => m \in gone
  PROVE  BatchInv(ms2, bs, wn2, gone)
<1>1. \A b \in Members : \A m \in bs[b].of : ms2[m] = ms[m]
  BY DEF BatchInv, Placed, BatchSet
<1>2. \A b \in Members : Sane(ms2, bs[b])
  BY <1>1, SaneUnmoved DEF BatchInv
<1>3. \A m \in Members : ms2[m].ph \notin Waiting \cup {"settled"} => \E b \in Running(bs) : m \in bs[b].of
  BY DEF BatchInv, Placed
<1>4. \A b, c \in Running(bs) : \A m \in bs[b].of \cap bs[c].of : ms2[m].ph # "settled" => b = c
  BY <1>1 DEF BatchInv, Placed, Running
<1>5. \A b \in Members : IF bs[b].step = "none" THEN bs[b].of = {} ELSE b \in bs[b].of
  BY DEF BatchInv, Placed
<1>6. \A b \in Members : \A m \in bs[b].of : ms2[m].ph \notin Waiting
  BY <1>1 DEF BatchInv, Placed
<1> QED BY <1>2, <1>3, <1>4, <1>5, <1>6 DEF BatchInv, Placed

-----------------------------------------------------------------------------
(* Starting batches.                                                       *)

\* The members of a window start a batch, and the window is empty.
LEMMA CloseKeeps ==
  ASSUME NEW ms, NEW bs, NEW wn, NEW gone, BatchInv(ms, bs, wn, gone)
  PROVE  BatchInv(closeWindow(<<ms, bs>>, wn)[1], closeWindow(<<ms, bs>>, wn)[2], {}, gone)
<1>1. LiveIn(ms, wn) = wn
  BY DEF BatchInv, Placed, LiveIn
<1>2. closeWindow(<<ms, bs>>, wn) = startBatch(<<ms, bs>>, wn)
  BY <1>1 DEF closeWindow
<1>3. CASE wn = {}
  BY <1>2, <1>3 DEF startBatch
<1>4. CASE wn # {}
  <2> DEFINE b == Least(wn)
             phase == IF Cardinality(wn) = 1 THEN "own-run" ELSE "run"
             bt == [NoBatch EXCEPT !.of = wn, !.step = IF Cardinality(wn) = 1 THEN "own" ELSE "plan",
                                   !.cur = IF Cardinality(wn) = 1 THEN wn ELSE {}]
             ms2 == Put(ms, wn, phase)
             bs2 == [bs EXCEPT ![b] = bt]
  <2>1. startBatch(<<ms, bs>>, wn) = <<ms2, bs2>>
    <3>1. CASE Cardinality(wn) = 1
      BY <1>4, <3>1 DEF startBatch
    <3>2. CASE Cardinality(wn) # 1
      BY <1>4, <3>2 DEF startBatch
    <3> QED BY <3>1, <3>2
  <2>2. wn \in SUBSET Members /\ b \in wn
    BY <1>4, LeastIsIn DEF BatchInv
  <2>3. /\ bt \in BatchSet /\ bt.of = wn /\ bt.uids = {} /\ ~bt.final /\ bt.split = {}
        /\ \/ bt.step = "own" /\ bt.cur = wn /\ phase = "own-run"
           \/ bt.step = "plan" /\ bt.cur = {} /\ phase = "run"
    <3>1. NoBatch \in BatchSet
      BY DEF NoBatch, BatchSet, Steps
    <3>2. CASE Cardinality(wn) = 1
      BY <2>2, <3>1, <3>2 DEF NoBatch, BatchSet, Steps
    <3>3. CASE Cardinality(wn) # 1
      BY <2>2, <3>1, <3>3 DEF NoBatch, BatchSet, Steps
    <3> QED BY <3>2, <3>3
  <2> HIDE DEF b, bt, phase
  <2>4. /\ ms2 \in [Members -> MemberSet]
        /\ \A m \in Members : IF m \in wn THEN ms2[m].ph = phase ELSE ms2[m] = ms[m]
        /\ \A m \in Members : ms2[m].out = ms[m].out
    <3>1. phase \in Phases /\ ms \in [Members -> MemberSet] /\ \A m \in wn : ms[m].ph # "settled"
      BY <2>3 DEF Phases, BatchInv, Placed
    <3> QED BY <3>1, PutIs
  <2>5. bs2 \in [Members -> BatchSet] /\ bs2[b] = bt /\ \A k \in Members \ {b} : bs2[k] = bs[k]
    BY <2>2, <2>3 DEF BatchInv
  <2> HIDE DEF ms2, bs2
  <2>6. \A k \in Members : \A m \in bs[k].of : m \in Members /\ m \notin wn
    BY DEF BatchInv, Placed, BatchSet, Waiting
  <2>7. bs[b].step = "none"
    BY <2>2, <2>6 DEF BatchInv, Placed
  <2>8. \A k \in Members : Sane(ms2, bs2[k])
    <3>1. Sane(ms2, bt)
      <4>1. outstanding(bt) = {}
        BY <2>3 DEF outstanding
      <4>2. bt.step = "plan" => \A m \in bt.of : ms2[m].ph = "run" /\ ms2[m].out # "ran"
        <5>1. \A m \in wn : ms[m].out # "ran"
          BY DEF BatchInv, Placed, Waiting
        <5> QED BY <2>2, <2>3, <2>4, <5>1
      <4>3. bt.step = "own" => \A m \in bt.of : ms2[m].ph = "own-run"
        BY <2>2, <2>3, <2>4
      <4> QED BY <2>3, <4>1, <4>2, <4>3 DEF Sane, Answering, Explained
    <3>2. \A k \in Members \ {b} : Sane(ms2, bs[k])
      BY <2>4, <2>6, SaneUnmoved DEF BatchInv
    <3> QED BY <2>5, <3>1, <3>2
  <2>9. Placed(ms2, bs2, {})
    <3>1. \A m \in Members : ms2[m].ph # "window"
      BY <2>3, <2>4 DEF BatchInv, Placed
    <3>2. \A k \in Members : IF bs2[k].step = "none" THEN bs2[k].of = {} ELSE k \in bs2[k].of
      BY <2>2, <2>3, <2>5 DEF BatchInv, Placed
    <3>3. \A k \in Members : \A m \in bs2[k].of : ms2[m].ph \notin Waiting
      <4>1. \A m \in bt.of : ms2[m].ph \notin Waiting
        BY <2>2, <2>3, <2>4 DEF Waiting
      <4>2. \A k \in Members \ {b} : \A m \in bs[k].of : ms2[m].ph \notin Waiting
        BY <2>4, <2>6 DEF BatchInv, Placed
      <4> QED BY <2>5, <4>1, <4>2
    <3>4. Running(bs2) = Running(bs) \cup {b} /\ b \notin Running(bs)
      BY <2>2, <2>3, <2>5, <2>7 DEF Running
    <3>5. \A m \in Members : ms2[m].ph \notin Waiting \cup {"settled"} => \E k \in Running(bs2) : m \in bs2[k].of
      <4> SUFFICES ASSUME NEW m \in Members, ms2[m].ph \notin Waiting \cup {"settled"}
                   PROVE  \E k \in Running(bs2) : m \in bs2[k].of
        OBVIOUS
      <4>1. CASE m \in wn
        BY <2>3, <2>5, <3>4, <4>1
      <4>2. CASE m \notin wn
        <5>1. PICK k \in Running(bs) : m \in bs[k].of
          BY <2>4, <4>2 DEF BatchInv, Placed
        <5>2. k \in Members \ {b}
          BY <3>4 DEF Running
        <5> QED BY <2>5, <3>4, <5>1, <5>2
      <4> QED BY <4>1, <4>2
    <3>6. \A k, l \in Running(bs2) : \A m \in bs2[k].of \cap bs2[l].of : ms2[m].ph # "settled" => k = l
      <4> SUFFICES ASSUME NEW k \in Running(bs2), NEW l \in Running(bs2), NEW m \in bs2[k].of \cap bs2[l].of,
                          ms2[m].ph # "settled"
                   PROVE  k = l
        OBVIOUS
      <4>1. k \in Members /\ l \in Members
        BY DEF Running
      <4>2. CASE k # b /\ l # b
        <5>1. m \in bs[k].of \cap bs[l].of /\ k \in Running(bs) /\ l \in Running(bs)
          BY <2>5, <3>4, <4>1, <4>2
        <5>2. ms2[m] = ms[m]
          BY <2>4, <2>6, <4>1, <5>1
        <5> QED BY <5>1, <5>2 DEF BatchInv, Placed
      <4>3. CASE k = b
        <5>1. l # b => m \notin bs[l].of
          BY <2>3, <2>5, <2>6, <4>1, <4>3
        <5> QED BY <2>5, <4>1, <4>3, <5>1
      <4>4. CASE l = b
        <5>1. k # b => m \notin bs[k].of
          BY <2>3, <2>5, <2>6, <4>1, <4>4
        <5> QED BY <2>5, <4>1, <4>4, <5>1
      <4> QED BY <4>2, <4>3, <4>4
    <3> QED BY <3>1, <3>2, <3>3, <3>5, <3>6 DEF Placed
  <2>10. \A m \in Members : ms2[m].out = "aborted" => m \in gone
    BY <2>4 DEF BatchInv
  <2>11. \A m \in Members : ms2[m].ph \in Waiting => ms2[m].out = "none"
    BY <2>3, <2>4 DEF BatchInv, Waiting
  <2>12. BatchInv(ms2, bs2, {}, gone)
    BY <2>4, <2>5, <2>8, <2>9, <2>10, <2>11 DEF BatchInv
  <2> QED BY <1>2, <2>1, <2>12
<1> QED BY <1>3, <1>4

LEMMA FinishKeeps ==
  ASSUME NEW ms, NEW bs, NEW wn, NEW gone, BatchInv(ms, bs, wn, gone), NEW planning, Finish(<<ms, bs>>, wn, planning)
  PROVE  BatchInv(mem', batch', win', gone)
<1> DEFINE t == closeWindow(<<ms, bs>>, wn)
<1>1. \/ mem' = t[1] /\ batch' = t[2] /\ win' = {}
      \/ mem' = ms /\ batch' = bs /\ win' = wn
  <2> HIDE DEF t
  <2> QED BY DEF Finish, closeIdle, Become, t
<1>2. BatchInv(t[1], t[2], {}, gone)
  BY CloseKeeps
<1> HIDE DEF t
<1> QED BY <1>1, <1>2

-----------------------------------------------------------------------------
(* Giving up and ending batches.                                           *)

\* A pool that is given up leaves each of its members in a batch of its own.
LEMMA DissolveKeeps ==
  ASSUME NEW ms, NEW bs, NEW wn, NEW gone, BatchInv(ms, bs, wn, gone),
         NEW b \in Running(bs), bs[b].step \in {"plan", "hold"}
  PROVE  BatchInv(dissolve(<<ms, bs>>, b)[1], dissolve(<<ms, bs>>, b)[2], wn, gone)
<1> DEFINE alive == LiveIn(ms, bs[b].of)
           own(k) == [NoBatch EXCEPT !.of = {k}, !.step = "own", !.cur = {k}]
           ms2 == Put(ms, alive, "own-run")
           bs2 == [k \in Members |-> IF k \in alive THEN own(k)
                                     ELSE IF k = b THEN [bs[b] EXCEPT !.step = "ended"] ELSE bs[k]]
<1>1. dissolve(<<ms, bs>>, b) = <<ms2, bs2>>
  BY DEF dissolve
<1>2. /\ b \in Members /\ bs[b] \in BatchSet /\ bs[b].of \subseteq Members
      /\ \A m \in Members : m \in alive <=> m \in bs[b].of /\ ms[m].ph # "settled"
  BY DEF Running, BatchInv, BatchSet, LiveIn
<1>3. ASSUME NEW k \in alive PROVE k \in Members /\ (k = b \/ k \notin Running(bs))
  <2>1. k \in Members /\ k \in bs[b].of /\ ms[k].ph # "settled"
    BY <1>2 DEF LiveIn
  <2>2. k \in Running(bs) => k \in bs[k].of
    BY DEF BatchInv, Placed, Running
  <2> QED BY <2>1, <2>2 DEF BatchInv, Placed
<1>4. /\ ms2 \in [Members -> MemberSet]
      /\ \A m \in Members : IF m \in alive THEN ms2[m].ph = "own-run" ELSE ms2[m] = ms[m]
      /\ \A m \in Members : ms2[m].out = ms[m].out
  <2>1. "own-run" \in Phases /\ ms \in [Members -> MemberSet] /\ \A m \in alive : ms[m].ph # "settled"
    BY <1>2, <1>3 DEF Phases, BatchInv
  <2> HIDE DEF alive
  <2> QED BY <2>1, PutIs
<1>5. ASSUME NEW k \in Members
      PROVE  /\ own(k) \in BatchSet /\ own(k).of = {k} /\ own(k).cur = {k} /\ own(k).step = "own"
             /\ own(k).uids = {} /\ own(k).split = {}
  BY DEF NoBatch, BatchSet, Steps
<1>6. LET bt == [bs[b] EXCEPT !.step = "ended"]
      IN bt \in BatchSet /\ bt.of = bs[b].of /\ bt.cur = bs[b].cur /\ bt.split = bs[b].split
         /\ bt.uids = bs[b].uids /\ bt.step = "ended"
  BY <1>2 DEF BatchSet, Steps
<1> HIDE DEF own, ms2
<1>7. /\ bs2 \in [Members -> BatchSet]
      /\ \A k \in alive : bs2[k] = own(k)
      /\ b \notin alive => bs2[b].of = bs[b].of /\ bs2[b].cur = bs[b].cur /\ bs2[b].split = bs[b].split
                           /\ bs2[b].uids = bs[b].uids /\ bs2[b].step = "ended"
      /\ \A k \in Members \ {b} : k \notin alive => bs2[k] = bs[k]
  <2>1. \A k \in Members : bs[k] \in BatchSet
    BY DEF BatchInv
  <2> HIDE DEF alive
  <2> QED BY <1>2, <1>3, <1>5, <1>6, <2>1
<1>8. Moves(ms, ms2, bs[b].of)
  <2>1. \A m \in bs[b].of : ms2[m].ph \notin Waiting
    BY <1>2, <1>4 DEF BatchInv, Placed, Waiting
  <2> QED BY <1>2, <1>4, <2>1 DEF Moves
<1> HIDE DEF bs2
<1>9. ASSUME NEW k \in Members PROVE Sane(ms2, bs2[k])
  <2>1. CASE k \in alive
    <3>1. ms2[k].ph = "own-run" /\ outstanding(own(k)) = {}
      BY <1>4, <1>5, <2>1 DEF outstanding
    <3> QED BY <1>5, <1>7, <2>1, <3>1 DEF Sane, Answering, Explained
  <2>2. CASE k = b /\ k \notin alive
    <3>1. bs[b].uids = {} /\ bs[b].cur \subseteq bs[b].of /\ bs[b].split \subseteq bs[b].of
      BY DEF BatchInv, Sane, Running
    <3>2. outstanding(bs2[b]) = {}
      BY <1>7, <2>2, <3>1 DEF outstanding
    <3> QED BY <1>7, <2>2, <3>1, <3>2 DEF Sane, Explained
  <2>3. CASE k # b /\ k \notin alive
    BY <1>7, <1>8, <2>3, Elsewhere
  <2> QED BY <2>1, <2>2, <2>3
<1>10. Placed(ms2, bs2, wn)
  <2>1. \A m \in Members : ms2[m].ph = "window" <=> m \in wn
    <3>1. \A m \in alive : m \notin wn
      BY <1>2, <1>3 DEF BatchInv, Placed, Waiting
    <3> QED BY <1>4, <3>1 DEF BatchInv, Placed
  <2>2. \A k \in Members : IF bs2[k].step = "none" THEN bs2[k].of = {} ELSE k \in bs2[k].of
    <3> TAKE k \in Members
    <3>1. CASE k \in alive
      BY <1>5, <1>7, <3>1
    <3>2. CASE k = b /\ k \notin alive
      <4>1. b \in bs[b].of
        BY <1>2 DEF BatchInv, Placed, Running
      <4> QED BY <1>7, <3>2, <4>1
    <3>3. CASE k # b /\ k \notin alive
      BY <1>7, <3>3 DEF BatchInv, Placed
    <3> QED BY <3>1, <3>2, <3>3
  <2>3. \A k \in Members : \A m \in bs2[k].of : ms2[m].ph \notin Waiting
    <3> TAKE k \in Members
    <3>1. CASE k \in alive
      BY <1>4, <1>5, <1>7, <3>1 DEF Waiting
    <3>2. CASE k \notin alive
      <4>1. bs2[k].of = bs[k].of /\ bs[k].of \subseteq Members
        BY <1>7, <3>2 DEF BatchInv, BatchSet
      <4>2. \A m \in bs[k].of : ms[m].ph \notin Waiting
        BY DEF BatchInv, Placed
      <4> QED BY <1>4, <4>1, <4>2 DEF Waiting
    <3> QED BY <3>1, <3>2
  <2>4. \A k \in Members : k \in Running(bs2) <=> k \in alive \/ k \in Running(bs) \ {b}
    <3> TAKE k \in Members
    <3>1. CASE k \in alive
      BY <1>5, <1>7, <3>1 DEF Running
    <3>2. CASE k \notin alive
      BY <1>7, <3>2 DEF Running
    <3> QED BY <3>1, <3>2
  <2>5. \A m \in Members : ms2[m].ph \notin Waiting \cup {"settled"} => \E k \in Running(bs2) : m \in bs2[k].of
    <3> SUFFICES ASSUME NEW m \in Members, ms2[m].ph \notin Waiting \cup {"settled"}
                 PROVE  \E k \in Running(bs2) : m \in bs2[k].of
      OBVIOUS
    <3>1. CASE m \in alive
      BY <1>5, <1>7, <2>4, <3>1
    <3>2. CASE m \notin alive
      <4>1. ms[m].ph \notin Waiting \cup {"settled"} /\ m \notin bs[b].of
        BY <1>2, <1>4, <3>2
      <4>2. PICK k \in Running(bs) : m \in bs[k].of
        BY <4>1 DEF BatchInv, Placed
      <4>3. k \in Members \ {b} /\ k \notin alive
        BY <1>3, <4>1, <4>2 DEF Running
      <4> QED BY <1>7, <2>4, <4>2, <4>3
    <3> QED BY <3>1, <3>2
  <2>6. \A k, l \in Running(bs2) : \A m \in bs2[k].of \cap bs2[l].of : ms2[m].ph # "settled" => k = l
    <3>1. ASSUME NEW k \in Running(bs2), NEW l \in Running(bs2), k \in alive, l \notin alive,
                 NEW m \in bs2[k].of \cap bs2[l].of
          PROVE  FALSE
      <4>1. k \in Members /\ l \in Members /\ l \in Running(bs) \ {b}
        BY <2>4, <3>1 DEF Running
      <4>2. m = k /\ k \in bs[l].of /\ k \in bs[b].of /\ ms[k].ph # "settled"
        BY <1>2, <1>5, <1>7, <3>1, <4>1
      <4> QED BY <4>1, <4>2 DEF BatchInv, Placed
    <3>2. ASSUME NEW k \in Running(bs2), NEW l \in Running(bs2), k \notin alive, l \notin alive,
                 NEW m \in bs2[k].of \cap bs2[l].of, ms2[m].ph # "settled"
          PROVE  k = l
      <4>1. k \in Members /\ l \in Members /\ k \in Running(bs) \ {b} /\ l \in Running(bs) \ {b}
        BY <2>4, <3>2 DEF Running
      <4>2. m \in bs[k].of \cap bs[l].of /\ m \in Members
        BY <1>7, <3>2, <4>1 DEF BatchInv, BatchSet
      <4>3. ms[m].ph # "settled"
        BY <3>2, <4>2, <1>8 DEF Moves
      <4> QED BY <4>1, <4>2, <4>3 DEF BatchInv, Placed
    <3>3. ASSUME NEW k \in Running(bs2), NEW l \in Running(bs2), k \in alive, l \in alive,
                 NEW m \in bs2[k].of \cap bs2[l].of
          PROVE  k = l
      BY <1>3, <1>5, <1>7, <3>3
    <3> QED BY <3>1, <3>2, <3>3
  <2> QED BY <2>1, <2>2, <2>3, <2>5, <2>6 DEF Placed
<1>11. \A m \in Members : ms2[m].ph \in Waiting => ms2[m].out = "none"
  BY <1>4 DEF BatchInv, Waiting
<1>12. BatchInv(ms2, bs2, wn, gone)
  BY <1>4, <1>7, <1>9, <1>10, <1>11 DEF BatchInv
<1> QED BY <1>1, <1>12

\* A batch b in the middle of a step: what became of the members and the batches ms, bs.
Stage(ms, bs, b, gone, ms1, bs1) ==
  /\ Moves(ms, ms1, bs[b].of) /\ \A m \in Members : ms1[m].out = "aborted" => m \in gone
  /\ bs1 \in [Members -> BatchSet] /\ \A k \in Members \ {b} : bs1[k] = bs[k]
  /\ bs1[b].of = bs[b].of /\ bs1[b].cur \subseteq bs[b].of /\ bs1[b].split \subseteq bs[b].of
  /\ \A m \in bs[b].of : Explained(ms1[m], bs1[b])

\* The end of a batch answers whoever is left.
LEMMA EndKeeps ==
  ASSUME NEW ms, NEW bs, NEW wn, NEW gone, BatchInv(ms, bs, wn, gone),
         NEW b \in Running(bs), NEW ms1, NEW bs1, Stage(ms, bs, b, gone, ms1, bs1)
  PROVE  BatchInv(End(<<ms1, bs1>>, b)[1], End(<<ms1, bs1>>, b)[2], wn, gone)
<1> DEFINE ms2 == SettleAll(ms1, bs1[b].of, "error")
           bs2 == [bs1 EXCEPT ![b].step = "ended"]
<1>1. End(<<ms1, bs1>>, b) = <<ms2, bs2>>
  BY DEF End
<1>2. b \in Members /\ bs[b].of \subseteq Members /\ bs1[b].of = bs[b].of /\ bs1 \in [Members -> BatchSet]
  BY DEF Running, BatchInv, BatchSet, Stage
<1>3. /\ ms2 \in [Members -> MemberSet]
      /\ \A m \in Members : m \notin bs[b].of \/ ms1[m].ph = "settled" => ms2[m] = ms1[m]
      /\ \A m \in bs[b].of : ms2[m].ph = "settled"
      /\ \A m \in bs[b].of : ms1[m].ph # "settled" => ms2[m].out = "error"
  <2>1. ms1 \in [Members -> MemberSet] /\ "error" \in Outs
    BY DEF Stage, Moves, Outs
  <2> QED BY <1>2, <2>1, SettleAllIs
<1>4. /\ bs2 \in [Members -> BatchSet] /\ \A k \in Members \ {b} : bs2[k] = bs1[k]
      /\ bs2[b].of = bs[b].of /\ bs2[b].cur = bs1[b].cur /\ bs2[b].split = bs1[b].split /\ bs2[b].step = "ended"
      /\ bs2[b].uids = bs1[b].uids /\ bs2[b].repro = bs1[b].repro /\ bs2[b].final = bs1[b].final
  BY <1>2 DEF BatchSet, Steps
<1> HIDE DEF ms2, bs2
<1>5. Moves(ms, ms2, bs[b].of)
  BY <1>2, <1>3 DEF Moves, Stage, Waiting
<1>6. Sane(ms2, bs2[b])
  <2>1. \A m \in bs[b].of : Explained(ms2[m], bs2[b])
    <3> TAKE m \in bs[b].of
    <3>1. outstanding(bs2[b]) = outstanding(bs1[b]) /\ Explained(ms1[m], bs1[b])
      BY <1>4 DEF outstanding, Stage
    <3>2. ms2[m] = ms1[m] \/ ms2[m].out = "error"
      BY <1>2, <1>3
    <3> QED BY <1>3, <1>4, <3>1, <3>2 DEF Explained
  <2> QED BY <1>3, <1>4, <2>1 DEF Sane, Stage
<1>7. \A m \in Members : ms2[m].out = "aborted" => m \in gone
  BY <1>2, <1>3 DEF Stage
<1>8. \A k \in Members \ {b} : bs2[k] = bs[k]
  BY <1>4 DEF Stage
<1>9. BatchInv(ms2, bs2, wn, gone)
  BY <1>3, <1>4, <1>5, <1>6, <1>7, <1>8, Within
<1> QED BY <1>1, <1>9

\* The union run is over and nothing of the batch runs.
Drainable(ms, bs, b, gone, ms1, bs1) ==
  /\ Stage(ms, bs, b, gone, ms1, bs1) /\ bs1[b].split = {} /\ bs1[b].step # "none"
  /\ \A m \in bs[b].of : Answering(ms1[m], bs1[b])

\* Members are released only when what the union failed is explained, or they are tainted.
LEMMA AdvanceKeeps ==
  ASSUME NEW ms, NEW bs, NEW wn, NEW gone, BatchInv(ms, bs, wn, gone),
         NEW b \in Running(bs), NEW ms1, NEW bs1, Drainable(ms, bs, b, gone, ms1, bs1), NEW R
  PROVE  Drainable(ms, bs, b, gone, advance(<<ms1, bs1>>, b, R)[1], advance(<<ms1, bs1>>, b, R)[2])
<1> DEFINE s == <<ms1, bs1>>
           marked(m) == [ms1[m] EXCEPT !.taint = @ \/ (taint(s, b) /\ ms1[m].out = "ran")]
           stays(m) == [marked(m) EXCEPT !.ph = "recheck-wait"]
           alive == LiveIn(ms1, bs1[b].of)
           next(m) == IF marked(m).ph \notin {"held", "recheck-wait"} THEN marked(m)
                      ELSE IF marked(m).fails # {} /\ m \in Captured /\ m \notin R
                      THEN stays(m) ELSE Settle(marked(m), "ran")
           ms2 == [m \in Members |-> IF m \notin alive THEN ms1[m] ELSE next(m)]
           bs2 == [bs1 EXCEPT ![b].final = TRUE]
<1>1. CASE MustWait(s, b)
  BY <1>1 DEF advance
<1>2. CASE ~MustWait(s, b)
  <2>1. advance(s, b, R) = <<ms2, bs2>>
    BY <1>2 DEF advance
  <2>2. /\ b \in Members /\ bs[b].of \subseteq Members /\ bs1[b].of = bs[b].of /\ bs1 \in [Members -> BatchSet]
        /\ ms1 \in [Members -> MemberSet]
    BY DEF Running, BatchInv, BatchSet, Drainable, Stage, Moves
  <2>3. \A m \in Members : m \in alive <=> m \in bs[b].of /\ ms1[m].ph # "settled"
    BY <2>2 DEF LiveIn
  <2>4. taint(s, b) \in BOOLEAN /\ (taint(s, b) <=> ~bs1[b].final /\ outstanding(bs1[b]) # {})
    BY DEF taint
  <2>5. ASSUME NEW m \in Members
        PROVE  /\ marked(m) \in MemberSet /\ marked(m).ph = ms1[m].ph /\ marked(m).out = ms1[m].out
               /\ marked(m).fails = ms1[m].fails
               /\ marked(m).taint <=> ms1[m].taint \/ (taint(s, b) /\ ms1[m].out = "ran")
    <3>1. ms1[m] \in MemberSet
      BY <2>2
    <3>2. (ms1[m].taint \/ (taint(s, b) /\ ms1[m].out = "ran")) \in BOOLEAN
      BY <2>4, <3>1 DEF MemberSet
    <3> DEFINE t == ms1[m].taint \/ (taint(s, b) /\ ms1[m].out = "ran")
    <3>3. marked(m) = [ms1[m] EXCEPT !.taint = t]
      OBVIOUS
    <3> HIDE DEF t, marked
    <3>4. /\ marked(m) \in MemberSet /\ marked(m).ph = ms1[m].ph /\ marked(m).out = ms1[m].out
          /\ marked(m).fails = ms1[m].fails /\ marked(m).taint = t
      BY <3>1, <3>2, <3>3 DEF MemberSet, t
    <3> QED BY <3>2, <3>4, Zenon DEF t
  <2> HIDE DEF marked
  <2>6. ASSUME NEW m \in alive
        PROVE  /\ next(m) \in MemberSet /\ next(m).out = ms1[m].out /\ next(m).taint = marked(m).taint
               /\ \/ next(m).ph = ms1[m].ph /\ ms1[m].ph \notin {"held", "recheck-wait"}
                  \/ next(m).ph \in {"recheck-wait", "settled"} /\ ms1[m].ph \in {"held", "recheck-wait"}
    <3>1. m \in Members /\ ms1[m].ph # "settled" /\ m \in bs[b].of
      BY <2>2, <2>3 DEF LiveIn
    <3>2. ms1[m].ph \in {"held", "recheck-wait"} => ms1[m].out = "ran"
      BY <3>1 DEF Drainable, Answering
    <3>3. stays(m) \in MemberSet /\ stays(m).ph = "recheck-wait" /\ stays(m).out = ms1[m].out /\ stays(m).taint = marked(m).taint
      BY <2>5, <3>1 DEF MemberSet, Phases
    <3>4. LET r == Settle(marked(m), "ran")
          IN r \in MemberSet /\ r.ph = "settled" /\ r.out = "ran" /\ r.taint = marked(m).taint
      <4>1. "ran" \in Outs
        BY DEF Outs
      <4> QED BY <2>5, <3>1, <4>1, SettleIs
    <3> HIDE DEF stays
    <3> QED BY <2>5, <3>1, <3>2, <3>3, <3>4
  <2> HIDE DEF next
  <2>7. /\ ms2 \in [Members -> MemberSet]
        /\ \A m \in Members : IF m \in alive THEN ms2[m] = next(m) ELSE ms2[m] = ms1[m]
    <3>1. alive \subseteq Members
      BY <2>2 DEF LiveIn
    <3> HIDE DEF alive
    <3> QED BY <2>2, <2>6, <3>1
  <2>8. /\ bs2 \in [Members -> BatchSet] /\ \A k \in Members \ {b} : bs2[k] = bs1[k]
        /\ bs2[b].of = bs[b].of /\ bs2[b].cur = bs1[b].cur /\ bs2[b].split = bs1[b].split /\ bs2[b].step = bs1[b].step
        /\ bs2[b].uids = bs1[b].uids /\ bs2[b].repro = bs1[b].repro /\ bs2[b].final = TRUE
    <3> DEFINE bt == [bs1[b] EXCEPT !.final = TRUE]
    <3>1. bs2 = [bs1 EXCEPT ![b] = bt] /\ bs1[b] \in BatchSet
      BY <2>2
    <3>2. /\ bt \in BatchSet /\ bt.of = bs1[b].of /\ bt.cur = bs1[b].cur /\ bt.split = bs1[b].split
          /\ bt.step = bs1[b].step /\ bt.uids = bs1[b].uids /\ bt.repro = bs1[b].repro /\ bt.final = TRUE
      BY <3>1 DEF BatchSet
    <3> HIDE DEF bt, bs2
    <3>3. bs2 \in [Members -> BatchSet] /\ bs2[b] = bt /\ \A k \in Members \ {b} : bs2[k] = bs1[k]
      BY <2>2, <3>1, <3>2
    <3> QED BY <2>2, <3>2, <3>3
  <2>9. outstanding(bs2[b]) = outstanding(bs1[b])
    BY <2>8 DEF outstanding
  <2> HIDE DEF ms2, bs2
  <2>10. ASSUME NEW m \in bs[b].of PROVE Answering(ms2[m], bs2[b])
    <3>1. Answering(ms1[m], bs1[b]) /\ m \in Members
      BY <2>2 DEF Drainable
    <3>2. CASE m \in alive
      BY <2>6, <2>7, <2>8, <3>1, <3>2 DEF Answering
    <3>3. CASE m \notin alive
      BY <2>7, <2>8, <3>1, <3>3 DEF Answering
    <3> QED BY <3>2, <3>3
  <2>11. ASSUME NEW m \in bs[b].of, outstanding(bs1[b]) # {} PROVE Explained(ms2[m], bs2[b])
    <3>1. Answering(ms1[m], bs1[b]) /\ Explained(ms1[m], bs1[b]) /\ m \in Members
      BY <2>2 DEF Drainable, Stage
    <3>2. CASE m \notin alive
      BY <2>3, <2>7, <2>9, <2>11, <3>1, <3>2 DEF Explained
    <3>3. CASE m \in alive
      <4>1. ms1[m].ph \notin {"own-wait", "own-run"}
        <5>1. CASE bs1[b].final
          BY <2>3, <2>11, <3>1, <3>3, <5>1 DEF Explained
        <5>2. CASE ~bs1[b].final
          BY <1>2, <2>11, <3>3, <5>2 DEF MustWait
        <5> QED BY <5>1, <5>2
      <4>2. ms1[m].out = "ran"
        BY <2>3, <3>1, <3>3, <4>1 DEF Answering
      <4>3. marked(m).taint
        <5>1. CASE bs1[b].final
          BY <2>3, <2>5, <2>11, <3>1, <3>3, <5>1 DEF Explained
        <5>2. CASE ~bs1[b].final
          BY <2>4, <2>5, <2>11, <3>1, <4>2, <5>2
        <5> QED BY <5>1, <5>2
      <4>4. ms2[m].taint /\ ms2[m].ph \notin {"own-wait", "own-run"}
        BY <2>6, <2>7, <3>1, <3>3, <4>1, <4>3
      <4> QED BY <4>4 DEF Explained
    <3> QED BY <3>2, <3>3
  <2>12. \A m \in bs[b].of : Explained(ms2[m], bs2[b])
    BY <2>9, <2>11 DEF Explained
  <2>13. Moves(ms, ms2, bs[b].of)
    <3>1. Moves(ms, ms1, bs[b].of)
      BY DEF Drainable, Stage
    <3>2. \A m \in Members : m \notin bs[b].of \/ ms1[m].ph = "settled" => ms2[m] = ms1[m]
      BY <2>3, <2>7
    <3>3. \A m \in bs[b].of : ms2[m].ph \notin Waiting
      BY <2>10 DEF Answering, Waiting
    <3> QED BY <2>7, <3>1, <3>2, <3>3 DEF Moves
  <2>14. \A m \in Members : ms2[m].out = "aborted" => m \in gone
    BY <2>6, <2>7 DEF Drainable, Stage
  <2>15. Drainable(ms, bs, b, gone, ms2, bs2)
    BY <2>8, <2>10, <2>12, <2>13, <2>14 DEF Drainable, Stage
  <2> QED BY <2>1, <2>15
<1> QED BY <1>1, <1>2

\* The next own run or recheck of a batch, or its end.
LEMMA DrainKeeps ==
  ASSUME NEW gone, BatchInv(mem, batch, win, gone), NEW b \in Running(batch),
         NEW ms, NEW bs, Drainable(mem, batch, b, gone, ms, bs),
         NEW next \in SUBSET batch[b].of, DrainTo(<<ms, bs>>, b, next)
  PROVE  BatchInv(mem', batch', win', gone)
<1> DEFINE alive == LiveIn(ms, bs[b].of)
           own == {m \in alive : ms[m].ph = "own-wait"}
           re == {m \in alive : ms[m].ph = "recheck-wait"}
<1>1. /\ b \in Members /\ batch[b].of \subseteq Members /\ bs[b].of = batch[b].of /\ bs \in [Members -> BatchSet]
      /\ ms \in [Members -> MemberSet] /\ \A k \in Members \ {b} : bs[k] = batch[k]
  BY DEF Running, BatchInv, BatchSet, Drainable, Stage, Moves
<1>2. \/ Finish(End(<<ms, bs>>, b), win, Planning)
      \/ \E m \in own : next = {m} /\ Become(<<Put(ms, next, "own-run"),
                                               [bs EXCEPT ![b].step = "own", ![b].cur = next]>>, win)
      \/ next \subseteq re /\ Become(<<Put(ms, next, "recheck"),
                                       [bs EXCEPT ![b].step = "recheck", ![b].cur = next]>>, win)
  <2> HIDE DEF own, re
  <2>1. DrainTo(<<ms, bs>>, b, next) <=>
          IF own \cup re = {} THEN next = {} /\ Finish(End(<<ms, bs>>, b), win, Planning)
          ELSE \/ /\ \E m \in own : next = {m}
                  /\ Become(<<Put(ms, next, "own-run"), [bs EXCEPT ![b].step = "own", ![b].cur = next]>>, win)
               \/ /\ next # {} /\ next \subseteq re
                  /\ Become(<<Put(ms, next, "recheck"), [bs EXCEPT ![b].step = "recheck", ![b].cur = next]>>, win)
    BY DEF DrainTo, own, re
  <2> QED BY <2>1, Zenon
<1>3. CASE Finish(End(<<ms, bs>>, b), win, Planning)
  <2> DEFINE t == End(<<ms, bs>>, b)
  <2>1. BatchInv(t[1], t[2], win, gone)
    BY EndKeeps DEF Drainable
  <2>2. t = <<t[1], t[2]>>
    BY DEF End
  <2> HIDE DEF t
  <2>3. Finish(<<t[1], t[2]>>, win, Planning)
    BY <1>3, <2>2 DEF t
  <2> QED BY <2>1, <2>3, FinishKeeps
<1>4. ASSUME NEW step \in {"own", "recheck"}, NEW phase \in {"own-run", "recheck"},
             IF step = "own" THEN phase = "own-run" /\ next \subseteq own ELSE phase = "recheck" /\ next \subseteq re,
             mem' = Put(ms, next, phase), batch' = [bs EXCEPT ![b].step = step, ![b].cur = next], win' = win
      PROVE  BatchInv(mem', batch', win', gone)
  <2> DEFINE ms2 == Put(ms, next, phase)
             bs2 == [bs EXCEPT ![b].step = step, ![b].cur = next]
  <2>1. \A m \in next : m \in Members /\ m \in batch[b].of /\ ms[m].ph # "settled"
                        /\ ms[m].ph = IF step = "own" THEN "own-wait" ELSE "recheck-wait"
    BY <1>1, <1>4 DEF LiveIn
  <2>2. /\ ms2 \in [Members -> MemberSet]
        /\ \A m \in Members : IF m \in next THEN ms2[m].ph = phase ELSE ms2[m] = ms[m]
        /\ \A m \in Members : ms2[m].out = ms[m].out /\ ms2[m].taint = ms[m].taint
    <3>1. phase \in Phases
      BY DEF Phases
    <3> QED BY <1>1, <2>1, <3>1, PutIs
  <2>3. /\ bs2 \in [Members -> BatchSet] /\ \A k \in Members \ {b} : bs2[k] = bs[k]
        /\ bs2[b].of = bs[b].of /\ bs2[b].cur = next /\ bs2[b].split = bs[b].split /\ bs2[b].step = step
        /\ bs2[b].uids = bs[b].uids /\ bs2[b].repro = bs[b].repro /\ bs2[b].final = bs[b].final
    <3> DEFINE bt == [bs[b] EXCEPT !.step = step, !.cur = next]
    <3>1. bs2 = [bs EXCEPT ![b] = bt] /\ bs[b] \in BatchSet
      BY <1>1
    <3>2. /\ bt \in BatchSet /\ bt.of = bs[b].of /\ bt.cur = next /\ bt.split = bs[b].split
          /\ bt.step = step /\ bt.uids = bs[b].uids /\ bt.repro = bs[b].repro /\ bt.final = bs[b].final
      BY <1>1, <3>1 DEF BatchSet, Steps
    <3> HIDE DEF bt, bs2
    <3>3. bs2 \in [Members -> BatchSet] /\ bs2[b] = bt /\ \A k \in Members \ {b} : bs2[k] = bs[k]
      BY <1>1, <3>1, <3>2
    <3> QED BY <3>2, <3>3
  <2>4. mem' = ms2 /\ batch' = bs2 /\ win' = win
    BY <1>4
  <2> HIDE DEF ms2, bs2, own, re
  <2>5. outstanding(bs2[b]) = outstanding(bs[b])
    BY <2>3 DEF outstanding
  <2>6. \A m \in batch[b].of : Answering(ms[m], bs[b]) /\ Explained(ms[m], bs[b])
    BY DEF Drainable, Stage
  <2>7. \A m \in batch[b].of : Answering(ms2[m], bs2[b])
    <3> TAKE m \in batch[b].of
    <3>1. CASE m \notin next
      BY <1>1, <2>2, <2>3, <2>6, <3>1 DEF Answering
    <3>2. CASE m \in next
      BY <1>1, <1>4, <2>1, <2>2, <2>3, <2>6, <3>2 DEF Answering
    <3> QED BY <3>1, <3>2
  <2>8. \A m \in batch[b].of : Explained(ms2[m], bs2[b])
    <3> TAKE m \in batch[b].of
    <3>1. CASE m \notin next
      BY <1>1, <2>2, <2>3, <2>5, <2>6, <3>1 DEF Explained
    <3>2. CASE m \in next
      BY <1>1, <1>4, <2>1, <2>2, <2>3, <2>5, <2>6, <3>2 DEF Explained
    <3> QED BY <3>1, <3>2
  <2>9. Sane(ms2, bs2[b])
    <3>1. next \subseteq batch[b].of /\ bs2[b].split = {} /\ \A m \in next : ms2[m].ph = phase
      BY <2>1, <2>2, <2>3 DEF Drainable
    <3> QED BY <1>1, <1>4, <2>3, <2>7, <2>8, <3>1 DEF Sane
  <2>10. Moves(mem, ms2, batch[b].of)
    <3>1. Moves(mem, ms, batch[b].of)
      BY DEF Drainable, Stage
    <3>2. \A m \in batch[b].of : ms2[m].ph \notin Waiting
      BY <2>7 DEF Answering, Waiting
    <3>3. \A m \in Members : m \notin batch[b].of \/ ms[m].ph = "settled" => ms2[m] = ms[m]
      BY <2>1, <2>2
    <3> QED BY <2>2, <3>1, <3>2, <3>3 DEF Moves
  <2>11. \A m \in Members : ms2[m].out = "aborted" => m \in gone
    BY <2>2 DEF Drainable, Stage
  <2>12. BatchInv(ms2, bs2, win, gone)
    <3>1. bs2[b].step # "none" /\ b \in Running(bs2) /\ \A k \in Members \ {b} : bs2[k] = batch[k]
      BY <1>1, <2>3 DEF Running
    <3> QED BY <1>1, <2>3, <2>9, <2>10, <2>11, <3>1, Within
  <2> QED BY <2>4, <2>12
<1>5. CASE \E m \in own : next = {m} /\ Become(<<Put(ms, next, "own-run"),
                                               [bs EXCEPT ![b].step = "own", ![b].cur = next]>>, win)
  <2> DEFINE step == "own"
             phase == "own-run"
  <2>1. next \subseteq own
    BY <1>5
  <2>2. mem' = Put(ms, next, phase) /\ batch' = [bs EXCEPT ![b].step = step, ![b].cur = next] /\ win' = win
    BY <1>5 DEF Become
  <2>3. step \in {"own", "recheck"} /\ phase \in {"own-run", "recheck"}
    OBVIOUS
  <2>4. IF step = "own" THEN phase = "own-run" /\ next \subseteq own ELSE phase = "recheck" /\ next \subseteq re
    BY <2>1
  <2> HIDE DEF step, phase, own, re
  <2> QED BY <1>4, <2>2, <2>3, <2>4
<1>6. CASE next \subseteq re /\ Become(<<Put(ms, next, "recheck"),
                                       [bs EXCEPT ![b].step = "recheck", ![b].cur = next]>>, win)
  <2> DEFINE step == "recheck"
             phase == "recheck"
  <2>2. mem' = Put(ms, next, phase) /\ batch' = [bs EXCEPT ![b].step = step, ![b].cur = next] /\ win' = win
    BY <1>6 DEF Become
  <2>3. step \in {"own", "recheck"} /\ phase \in {"own-run", "recheck"}
    OBVIOUS
  <2>4. IF step = "own" THEN phase = "own-run" /\ next \subseteq own ELSE phase = "recheck" /\ next \subseteq re
    BY <1>6
  <2> HIDE DEF step, phase, own, re
  <2> QED BY <1>4, <2>2, <2>3, <2>4
<1> QED BY <1>2, <1>3, <1>5, <1>6

LEMMA DrainsKeep ==
  ASSUME NEW gone, BatchInv(mem, batch, win, gone), NEW b \in Running(batch),
         NEW ms, NEW bs, Drainable(mem, batch, b, gone, ms, bs), Drains(<<ms, bs>>, b)
  PROVE  BatchInv(mem', batch', win', gone)
<1>1. PICK R \in SUBSET bs[b].of, next \in SUBSET bs[b].of : DrainTo(advance(<<ms, bs>>, b, R), b, next)
  BY DEF Drains
<1> DEFINE t == advance(<<ms, bs>>, b, R)
<1>2. Drainable(mem, batch, b, gone, t[1], t[2]) /\ t = <<t[1], t[2]>>
  <2>1. Drainable(mem, batch, b, gone, t[1], t[2])
    BY AdvanceKeeps
  <2> QED BY <2>1 DEF advance
<1>3. DrainTo(t, b, next)
  BY <1>1
<1>4. next \in SUBSET batch[b].of
  BY <1>1 DEF Drainable, Stage
<1> HIDE DEF t
<1>5. DrainTo(<<t[1], t[2]>>, b, next)
  BY <1>2, <1>3
<1> QED BY <1>2, <1>4, <1>5, DrainKeeps

-----------------------------------------------------------------------------
(* The steps of a request before its batch.                                *)

Inv == BatchInv(mem, batch, win, Gone)

LEMMA GoneGrows ==
  ASSUME NEW ms, NEW bs, NEW wn, NEW gone, NEW gone2, BatchInv(ms, bs, wn, gone), gone \subseteq gone2
  PROVE  BatchInv(ms, bs, wn, gone2)
BY DEF BatchInv

LEMMA SameGone ==
  ASSUME UNCHANGED <<expired, disposed>>
  PROVE  Gone' = Gone
BY DEF Gone

LEMMA SubmitKeeps == ASSUME Inv, NEW m \in Members, Submit(m) PROVE Inv'
<1> DEFINE new == IF disposed THEN Settle(mem[m], "aborted") ELSE [mem[m] EXCEPT !.ph = "planning"]
<1>1. mem' = [mem EXCEPT ![m] = new] /\ UNCHANGED <<expired, win, batch, disposed>> /\ mem[m].ph = "new"
  BY DEF Submit
<1>2. mem \in [Members -> MemberSet] /\ mem[m] \in MemberSet /\ mem[m].out = "none"
  BY <1>1 DEF Inv, BatchInv, Waiting
<1>3. /\ new \in MemberSet /\ new.ph \in {"planning", "settled"} /\ (new.ph = "planning" => new.out = "none")
      /\ new.out = "aborted" => m \in Gone
  <2>1. CASE disposed
    <3>1. "aborted" \in Outs /\ m \in Gone
      BY <2>1 DEF Outs, Gone
    <3> QED BY <1>2, <2>1, <3>1, SettleIs
  <2>2. CASE ~disposed
    BY <1>2, <2>2 DEF MemberSet, Phases
  <2> QED BY <2>1, <2>2
<1> HIDE DEF new
<1>4. mem' \in [Members -> MemberSet] /\ mem'[m] = new /\ \A k \in Members \ {m} : mem'[k] = mem[k]
  BY <1>1, <1>2, <1>3
<1>5. BatchInv(mem', batch, win, Gone)
  <2>1. \A k \in Members : mem'[k] = mem[k] \/ (mem[k].ph \in Waiting /\ mem'[k].ph \in Waiting \cup {"settled"})
    BY <1>1, <1>3, <1>4 DEF Waiting
  <2>2. \A k \in Members : mem'[k].ph = "window" <=> k \in win
    BY <1>1, <1>3, <1>4 DEF Inv, BatchInv, Placed
  <2>3. \A k \in Members : mem'[k].ph \in Waiting => mem'[k].out = "none"
    BY <1>3, <1>4 DEF Inv, BatchInv, Waiting
  <2>4. \A k \in Members : mem'[k].out = "aborted" => k \in Gone
    BY <1>3, <1>4 DEF Inv, BatchInv
  <2>5. win \in SUBSET Members
    BY DEF Inv, BatchInv
  <2> QED BY <1>4, <2>1, <2>2, <2>3, <2>4, <2>5, Outside DEF Inv
<1> QED BY <1>1, <1>5, SameGone DEF Inv

\* A request that is planning is answered.
LEMMA PlanningSettles ==
  ASSUME Inv, NEW m \in Members, mem[m].ph = "planning", NEW out \in Outs, out = "aborted" => m \in Gone
  PROVE  BatchInv(SettleAll(mem, {m}, out), batch, win, Gone)
<1> DEFINE ms == SettleAll(mem, {m}, out)
<1>1. mem \in [Members -> MemberSet] /\ win \in SUBSET Members
  BY DEF Inv, BatchInv
<1>2. /\ ms \in [Members -> MemberSet] /\ ms[m].ph = "settled" /\ ms[m].out = out
      /\ \A k \in Members \ {m} : ms[k] = mem[k]
  BY <1>1, SettleAllIs
<1> HIDE DEF ms
<1>3. \A k \in Members : ms[k] = mem[k] \/ (mem[k].ph \in Waiting /\ ms[k].ph \in Waiting \cup {"settled"})
  BY <1>2 DEF Waiting
<1>4. \A k \in Members : ms[k].ph = "window" <=> k \in win
  BY <1>2 DEF Inv, BatchInv, Placed
<1>5. \A k \in Members : ms[k].ph \in Waiting => ms[k].out = "none"
  BY <1>2 DEF Inv, BatchInv, Waiting
<1>6. \A k \in Members : ms[k].out = "aborted" => k \in Gone
  BY <1>2 DEF Inv, BatchInv
<1>7. BatchInv(ms, batch, win, Gone)
  BY <1>1, <1>2, <1>3, <1>4, <1>5, <1>6, Outside DEF Inv
<1> QED BY <1>7 DEF ms

LEMMA PlanAnswersKeeps ==
  ASSUME Inv, NEW m \in Members, NEW out, PlanAnswers(m, out) PROVE Inv'
<1>1. mem[m].ph = "planning" /\ out \in Outs /\ out # "aborted" /\ UNCHANGED <<expired, disposed>>
      /\ Finish(<<SettleAll(mem, {m}, out), batch>>, win, Planning \ {m})
  BY DEF PlanAnswers, Outs
<1>2. BatchInv(SettleAll(mem, {m}, out), batch, win, Gone)
  BY <1>1, PlanningSettles
<1>3. BatchInv(mem', batch', win', Gone)
  BY <1>1, <1>2, FinishKeeps
<1> QED BY <1>1, <1>3, SameGone DEF Inv

LEMMA JoinKeeps ==
  ASSUME Inv, NEW m \in Members, Join(m) PROVE Inv'
<1> DEFINE wn == win \cup {m}
           ms == Put(mem, {m}, "window")
           left == SettleAll(mem, {m}, "aborted")
           t == closeWindow(<<ms, batch>>, wn)
<1>1. mem[m].ph = "planning" /\ UNCHANGED <<expired, disposed>>
  BY DEF Join
<1>2. \/ disposed /\ Become(<<left, batch>>, win)
      \/ m \in expired /\ Finish(<<left, batch>>, win, Planning \ {m})
      \/ Finish(t, {}, Planning \ {m})
      \/ Finish(<<ms, batch>>, wn, Planning \ {m})
  <2> HIDE DEF left, t, ms
  <2> QED BY DEF Join, left, t, ms
<1>3. m \in Gone => BatchInv(left, batch, win, Gone)
  <2>1. "aborted" \in Outs
    BY DEF Outs
  <2> QED BY <1>1, <2>1, PlanningSettles
<1>4. BatchInv(ms, batch, wn, Gone)
  <2>1. mem \in [Members -> MemberSet] /\ "window" \in Phases /\ wn \in SUBSET Members
    BY DEF Inv, BatchInv, Phases
  <2>2. /\ ms \in [Members -> MemberSet] /\ ms[m].ph = "window" /\ ms[m].out = mem[m].out
        /\ \A k \in Members \ {m} : ms[k] = mem[k]
    BY <1>1, <2>1, PutIs
  <2> HIDE DEF ms
  <2>3. \A k \in Members : ms[k] = mem[k] \/ (mem[k].ph \in Waiting /\ ms[k].ph \in Waiting \cup {"settled"})
    BY <1>1, <2>2 DEF Waiting
  <2>4. \A k \in Members : ms[k].ph = "window" <=> k \in wn
    BY <2>2 DEF Inv, BatchInv, Placed
  <2>5. \A k \in Members : ms[k].ph \in Waiting => ms[k].out = "none"
    BY <1>1, <2>2 DEF Inv, BatchInv, Waiting
  <2>6. \A k \in Members : ms[k].out = "aborted" => k \in Gone
    BY <2>2 DEF Inv, BatchInv
  <2> QED BY <2>1, <2>2, <2>3, <2>4, <2>5, <2>6, Outside DEF Inv
<1>5. BatchInv(t[1], t[2], {}, Gone) /\ t = <<t[1], t[2]>>
  <2>1. BatchInv(t[1], t[2], {}, Gone)
    BY <1>4, CloseKeeps
  <2> QED BY <2>1 DEF closeWindow, startBatch
<1>6. disposed \/ m \in expired => m \in Gone
  BY DEF Gone
<1> HIDE DEF left, ms, t, wn
<1>7. BatchInv(mem', batch', win', Gone)
  <2>1. CASE disposed /\ Become(<<left, batch>>, win)
    BY <1>3, <1>6, <2>1 DEF Become
  <2>2. CASE m \in expired /\ Finish(<<left, batch>>, win, Planning \ {m})
    BY <1>3, <1>6, <2>2, FinishKeeps
  <2>3. CASE Finish(t, {}, Planning \ {m})
    <3>1. Finish(<<t[1], t[2]>>, {}, Planning \ {m})
      BY <1>5, <2>3
    <3> QED BY <1>5, <3>1, FinishKeeps
  <2>4. CASE Finish(<<ms, batch>>, wn, Planning \ {m})
    BY <1>4, <2>4, FinishKeeps
  <2> QED BY <1>2, <2>1, <2>2, <2>3, <2>4
<1> QED BY <1>1, <1>7, SameGone DEF Inv

LEMMA CloseWindowKeeps == ASSUME Inv, CloseWindow PROVE Inv'
<1> DEFINE t == closeWindow(<<mem, batch>>, win)
<1>1. BatchInv(t[1], t[2], {}, Gone)
  BY CloseKeeps DEF Inv
<1>2. mem' = t[1] /\ batch' = t[2] /\ win' = {} /\ UNCHANGED <<expired, disposed>>
  BY DEF CloseWindow, Become
<1> HIDE DEF t
<1> QED BY <1>1, <1>2, SameGone DEF Inv

-----------------------------------------------------------------------------
(* The steps of a pool.                                                    *)

LEMMA DissolvesKeeps == ASSUME Inv, NEW b \in Members, Dissolves(b) PROVE Inv'
<1> DEFINE t == dissolve(<<mem, batch>>, b)
<1>1. batch[b].step \in {"plan", "hold"} /\ UNCHANGED <<expired, disposed>> /\ b \in Running(batch)
  BY DEF Dissolves, Running
<1>2. BatchInv(t[1], t[2], win, Gone) /\ t = <<t[1], t[2]>>
  <2>1. BatchInv(t[1], t[2], win, Gone)
    BY <1>1, DissolveKeeps DEF Inv
  <2> QED BY <2>1 DEF dissolve
<1>3. Finish(t, win, Planning)
  BY DEF Dissolves
<1> HIDE DEF t
<1>4. Finish(<<t[1], t[2]>>, win, Planning)
  BY <1>2, <1>3
<1>5. BatchInv(mem', batch', win', Gone)
  BY <1>2, <1>4, FinishKeeps
<1> QED BY <1>1, <1>5, SameGone DEF Inv

LEMMA PoolAdvancesKeeps == ASSUME Inv, NEW b \in Members, PoolAdvances(b) PROVE Inv'
<1> DEFINE step == IF batch[b].step = "plan" THEN "hold" ELSE "union"
           bt == [batch[b] EXCEPT !.step = step]
<1>1. /\ batch[b].step \in {"plan", "hold"} /\ batch' = [batch EXCEPT ![b] = bt]
      /\ UNCHANGED <<mem, expired, win, disposed>>
  BY DEF PoolAdvances
<1>2. mem \in [Members -> MemberSet] /\ batch \in [Members -> BatchSet] /\ batch[b] \in BatchSet /\ Sane(mem, batch[b])
  BY DEF Inv, BatchInv
<1>3. /\ bt \in BatchSet /\ bt.of = batch[b].of /\ bt.cur = batch[b].cur /\ bt.split = batch[b].split
      /\ bt.uids = batch[b].uids /\ bt.repro = batch[b].repro /\ bt.final = batch[b].final
      /\ bt.step \in {"hold", "union"}
  BY <1>2 DEF BatchSet, Steps
<1> HIDE DEF bt
<1>4. batch' \in [Members -> BatchSet] /\ batch'[b] = bt /\ \A k \in Members \ {b} : batch'[k] = batch[k]
  BY <1>1, <1>2, <1>3
<1>5. Sane(mem, bt)
  BY <1>1, <1>2, <1>3 DEF Sane, Explained, outstanding
<1>6. BatchInv(mem, batch', win, Gone)
  <2>1. b \in Running(batch) /\ b \in Running(batch') /\ batch'[b].step # "none"
    BY <1>1, <1>3, <1>4 DEF Running
  <2>2. Moves(mem, mem, batch[b].of) /\ \A m \in Members : mem[m].out = "aborted" => m \in Gone
    BY <1>2 DEF Moves, Inv, BatchInv, Placed
  <2> QED BY <1>3, <1>4, <1>5, <2>1, <2>2, Within DEF Inv
<1> QED BY <1>1, <1>6, SameGone DEF Inv

\* A batch is answered as a whole while its union run is not over.
LEMMA StopKeeps ==
  ASSUME Inv, NEW b \in Members, batch[b].step \in {"plan", "hold", "union"},
         NEW ms, NEW out \in Outs, ms = mem \/ ms = SettleAll(mem, batch[b].of, out),
         out # "ran", out = "aborted" => \A m \in batch[b].of : mem[m].ph # "settled" => m \in Gone,
         Finish(End(<<ms, batch>>, b), win, Planning), UNCHANGED <<expired, disposed>>
  PROVE  Inv'
<1>1. b \in Running(batch) /\ mem \in [Members -> MemberSet] /\ batch \in [Members -> BatchSet]
      /\ batch[b].of \subseteq Members /\ Sane(mem, batch[b])
  BY DEF Running, Inv, BatchInv, BatchSet
<1>2. \A m \in batch[b].of : ms[m].out # "ran" /\ ms[m].ph \in {"run", "settled"}
  <2>1. \A m \in batch[b].of : mem[m].out # "ran" /\ mem[m].ph \in {"run", "settled"}
    BY <1>1 DEF Sane
  <2> QED BY <1>1, <2>1, SettleAllIs
<1>3. Moves(mem, ms, batch[b].of)
  <2>1. ms \in [Members -> MemberSet] /\ \A m \in Members : m \notin batch[b].of \/ mem[m].ph = "settled" => ms[m] = mem[m]
    BY <1>1, SettleAllIs
  <2> QED BY <1>2, <2>1 DEF Moves, Waiting
<1>4. \A m \in Members : ms[m].out = "aborted" => m \in Gone
  <2>1. \A m \in Members : ms[m] = mem[m] \/ (m \in batch[b].of /\ mem[m].ph # "settled" /\ ms[m].out = out)
    BY <1>1, SettleAllIs
  <2> QED BY <2>1 DEF Inv, BatchInv
<1>5. outstanding(batch[b]) = {}
  BY <1>1 DEF outstanding, Sane
<1>6. Stage(mem, batch, b, Gone, ms, batch)
  BY <1>1, <1>3, <1>4, <1>5 DEF Stage, Sane, Explained
<1> DEFINE t == End(<<ms, batch>>, b)
<1>7. BatchInv(t[1], t[2], win, Gone) /\ t = <<t[1], t[2]>>
  <2>1. BatchInv(t[1], t[2], win, Gone)
    BY <1>1, <1>6, EndKeeps DEF Inv
  <2> QED BY <2>1 DEF End
<1>8. Finish(t, win, Planning)
  OBVIOUS
<1> HIDE DEF t
<1>9. Finish(<<t[1], t[2]>>, win, Planning)
  BY <1>7, <1>8
<1>10. BatchInv(mem', batch', win', Gone)
  BY <1>7, <1>9, FinishKeeps
<1> QED BY <1>10, SameGone DEF Inv

LEMMA PoolAbortedKeeps == ASSUME Inv, NEW b \in Members, PoolAborted(b) PROVE Inv'
<1>1. "error" \in Outs
  BY DEF Outs
<1> QED BY <1>1, StopKeeps DEF PoolAborted

LEMMA UnionStoppedKeeps ==
  ASSUME Inv, NEW b \in Members, NEW out, UnionStopped(b, out) PROVE Inv'
<1>1. out \in Outs /\ out # "ran" /\ batch[b].step = "union"
  BY DEF UnionStopped, Outs
<1>2. out = "aborted" => \A m \in batch[b].of : mem[m].ph # "settled" => m \in Gone
  BY DEF UnionStopped, BatchAborted, Gone
<1> QED BY <1>1, <1>2, StopKeeps DEF UnionStopped

-----------------------------------------------------------------------------
(* The union run.                                                          *)

LEMMA UnionFacts ==
  ASSUME Inv, NEW b \in Members, batch[b].step = "union"
  PROVE  /\ b \in Running(batch) /\ mem \in [Members -> MemberSet] /\ batch \in [Members -> BatchSet]
         /\ batch[b] \in BatchSet /\ batch[b].of \subseteq Members
         /\ batch[b].cur \subseteq batch[b].of /\ batch[b].split = {} /\ ~batch[b].final
         /\ \A m \in batch[b].of : mem[m].ph \in {"run", "settled"} /\ mem[m].out # "ran"
         /\ \A m \in Members : mem[m].out = "aborted" => m \in Gone
<1>1. Sane(mem, batch[b]) /\ batch[b] \in BatchSet
  BY DEF Inv, BatchInv
<1> QED BY <1>1 DEF Running, Inv, BatchInv, Sane, BatchSet

LEMMA UnionRanKeeps ==
  ASSUME Inv, NEW b \in Members, NEW U \in SUBSET (batch[b].of \cup {Shared}), NEW A, UnionRan(b, U, A)
  PROVE  Inv'
<1> DEFINE of == batch[b].of
           how(m) == attributeUnion(m, U, m \in A)
           held(m) == [mem[m] EXCEPT !.ph = "held", !.out = "ran", !.fails = IF how(m) = "fails" THEN {m} ELSE {}]
           waits(m) == [mem[m] EXCEPT !.ph = "own-wait"]
           ms == [m \in Members |-> IF m \notin of \/ mem[m].ph = "settled" THEN mem[m]
                                    ELSE IF how(m) = "own" THEN waits(m) ELSE held(m)]
           R == {m \in of : how(m) = "fails"}
           bt == [batch[b] EXCEPT !.uids = U, !.repro = R]
           bs == [batch EXCEPT ![b] = bt]
<1>1. batch[b].step = "union" /\ UNCHANGED <<expired, disposed>> /\ Drains(attribute(<<mem, batch>>, b, U, A), b)
  BY DEF UnionRan
<1>2. attribute(<<mem, batch>>, b, U, A) = <<ms, bs>>
  <2> HIDE DEF how
  <2>1. bs = [batch EXCEPT ![b].uids = U, ![b].repro = {m \in of : how(m) = "fails"}]
    BY <1>1, UnionFacts DEF BatchSet
  <2> QED BY <2>1 DEF attribute, how
<1>3. \A m \in Members : held(m) \in MemberSet /\ held(m).ph = "held" /\ held(m).out = "ran"
                         /\ waits(m) \in MemberSet /\ waits(m).ph = "own-wait" /\ waits(m).out = mem[m].out
  <2> TAKE m \in Members
  <2> DEFINE F == IF how(m) = "fails" THEN {m} ELSE {}
  <2>1. F \in SUBSET Ids /\ mem[m] \in MemberSet
    BY <1>1, UnionFacts DEF Ids
  <2>2. held(m) = [mem[m] EXCEPT !.ph = "held", !.out = "ran", !.fails = F]
    OBVIOUS
  <2> HIDE DEF F, held, how
  <2> QED BY <2>1, <2>2 DEF MemberSet, Phases, Outs
<1>4. bt \in BatchSet /\ bt.of = of /\ bt.cur = batch[b].cur /\ bt.split = {} /\ bt.step = "union" /\ ~bt.final
  <2>1. U \in SUBSET Ids /\ R \in SUBSET Ids /\ batch[b] \in BatchSet
    BY <1>1, UnionFacts DEF Ids
  <2> HIDE DEF R
  <2> QED BY <1>1, <2>1, UnionFacts DEF BatchSet
<1> HIDE DEF held, waits, how, bt
<1>5. /\ ms \in [Members -> MemberSet]
      /\ \A m \in Members : m \notin of \/ mem[m].ph = "settled" => ms[m] = mem[m]
      /\ \A m \in Members : ms[m] \in {mem[m], held(m), waits(m)}
      /\ \A m \in of : mem[m].ph # "settled" => ms[m] \in {held(m), waits(m)}
  BY <1>1, <1>3, UnionFacts
<1>6. bs \in [Members -> BatchSet] /\ bs[b] = bt /\ \A k \in Members \ {b} : bs[k] = batch[k]
  BY <1>1, <1>4, UnionFacts
<1> HIDE DEF ms, bs
<1>7. \A m \in of : Answering(ms[m], bt) /\ Explained(ms[m], bt)
  <2> TAKE m \in of
  <2>1. m \in Members
    BY <1>1, UnionFacts
  <2>2. CASE mem[m].ph = "settled"
    BY <1>1, <1>4, <1>5, <2>1, <2>2, UnionFacts DEF Answering, Explained
  <2>3. CASE mem[m].ph # "settled"
    BY <1>3, <1>4, <1>5, <2>1, <2>3 DEF Answering, Explained
  <2> QED BY <2>2, <2>3
<1>8. \A m \in Members : ms[m].out = "aborted" => m \in Gone
  BY <1>1, <1>3, <1>5, UnionFacts
<1>9. Moves(mem, ms, of)
  BY <1>5, <1>7 DEF Moves, Answering, Waiting
<1>10. Drainable(mem, batch, b, Gone, ms, bs)
  <2>1. bt.cur \subseteq of
    BY <1>1, <1>4, UnionFacts
  <2> QED BY <1>4, <1>6, <1>7, <1>8, <1>9, <2>1 DEF Drainable, Stage
<1>11. Drains(<<ms, bs>>, b)
  BY <1>1, <1>2
<1>12. BatchInv(mem', batch', win', Gone)
  BY <1>1, <1>10, <1>11, UnionFacts, DrainsKeep DEF Inv
<1> QED BY <1>1, <1>12, SameGone DEF Inv

LEMMA UnionNotComparableKeeps ==
  ASSUME Inv, NEW b \in Members, NEW U \in SUBSET (batch[b].of \cup {Shared}), UnionNotComparable(b, U)
  PROVE  Inv'
<1> DEFINE of == batch[b].of
           ms == Put(mem, of, "own-wait")
           bt == [batch[b] EXCEPT !.uids = U]
           bs == [batch EXCEPT ![b] = bt]
<1>1. /\ batch[b].step = "union" /\ UNCHANGED <<expired, disposed>>
      /\ Drains(<<Put(mem, of, "own-wait"), [batch EXCEPT ![b].uids = U]>>, b)
  BY DEF UnionNotComparable
<1>2. bt \in BatchSet /\ bt.of = of /\ bt.cur = batch[b].cur /\ bt.split = {} /\ bt.step = "union" /\ ~bt.final
  <2>1. U \in SUBSET Ids /\ batch[b] \in BatchSet
    BY <1>1, UnionFacts DEF Ids
  <2> QED BY <1>1, <2>1, UnionFacts DEF BatchSet
<1> HIDE DEF bt
<1>3. bs \in [Members -> BatchSet] /\ bs[b] = bt /\ \A k \in Members \ {b} : bs[k] = batch[k]
  BY <1>1, <1>2, UnionFacts
<1>4. bs = [batch EXCEPT ![b].uids = U]
  BY DEF bt
<1>5. /\ ms \in [Members -> MemberSet]
      /\ \A m \in Members : m \notin of \/ mem[m].ph = "settled" => ms[m] = mem[m]
      /\ \A m \in of : mem[m].ph # "settled" => ms[m].ph = "own-wait"
      /\ \A m \in Members : ms[m].out = mem[m].out
  <2>1. "own-wait" \in Phases
    BY DEF Phases
  <2> QED BY <1>1, <2>1, UnionFacts, PutIs
<1>6. Drains(<<ms, bs>>, b)
  BY <1>1, <1>4
<1> HIDE DEF ms, bs
<1>7. \A m \in of : Answering(ms[m], bt) /\ Explained(ms[m], bt)
  <2> TAKE m \in of
  <2>1. m \in Members
    BY <1>1, UnionFacts
  <2>2. CASE mem[m].ph = "settled"
    BY <1>1, <1>2, <1>5, <2>1, <2>2, UnionFacts DEF Answering, Explained
  <2>3. CASE mem[m].ph # "settled"
    BY <1>2, <1>5, <2>1, <2>3 DEF Answering, Explained
  <2> QED BY <2>2, <2>3
<1>8. \A m \in Members : ms[m].out = "aborted" => m \in Gone
  BY <1>1, <1>5, UnionFacts
<1>9. Moves(mem, ms, of)
  BY <1>5, <1>7 DEF Moves, Answering, Waiting
<1>10. Drainable(mem, batch, b, Gone, ms, bs)
  <2>1. bt.cur \subseteq of
    BY <1>1, <1>2, UnionFacts
  <2> QED BY <1>2, <1>3, <1>7, <1>8, <1>9, <2>1 DEF Drainable, Stage
<1>11. BatchInv(mem', batch', win', Gone)
  BY <1>1, <1>6, <1>10, UnionFacts, DrainsKeep DEF Inv
<1> QED BY <1>1, <1>11, SameGone DEF Inv

-----------------------------------------------------------------------------
(* Own runs and rechecks.                                                  *)

\* A late member is answered by what its own run said; what is still open taints it.
LEMMA SettleLateIs ==
  ASSUME NEW r \in MemberSet, NEW bt \in BatchSet, r.ph # "settled",
         r.out # "ran" \/ (bt.final /\ outstanding(bt) # {} => r.taint)
  PROVE  LET l == settleLate(r, bt)
         IN /\ l \in MemberSet /\ l.ph = "settled" /\ l.out \in {"ran", "aborted"}
            /\ r.out = "ran" => l.out = "ran"
            /\ Explained(l, bt)
<1>1. "aborted" \in Outs /\ "ran" \in Outs
  BY DEF Outs
<1>2. CASE r.out # "ran"
  BY <1>1, <1>2, SettleIs DEF settleLate, Explained
<1>3. CASE r.out = "ran"
  <2> DEFINE q == Settle(r, "ran")
             t == q.taint \/ (~bt.final /\ outstanding(bt) # {})
             l == [q EXCEPT !.taint = t]
  <2>1. q \in MemberSet /\ q.ph = "settled" /\ q.out = "ran" /\ q.taint = r.taint
    BY <1>1, <1>3, SettleIs
  <2>2. settleLate(r, bt) = l
    BY <1>3 DEF settleLate
  <2>3. t \in BOOLEAN /\ (outstanding(bt) # {} => t)
    <3>1. bt.final \in BOOLEAN /\ q.taint \in BOOLEAN
      BY <2>1 DEF BatchSet, MemberSet
    <3>2. outstanding(bt) # {} => t
      <4> SUFFICES ASSUME outstanding(bt) # {} PROVE t
        OBVIOUS
      <4>1. CASE bt.final
        BY <1>3, <2>1, <4>1
      <4>2. CASE ~bt.final
        BY <4>2
      <4> QED BY <4>1, <4>2
    <3> QED BY <3>1, <3>2
  <2> HIDE DEF t, q
  <2>4. l \in MemberSet /\ l.ph = "settled" /\ l.out = "ran" /\ l.taint = t
    BY <2>1, <2>3 DEF MemberSet
  <2> HIDE DEF l
  <2>5. Explained(l, bt)
    BY <2>3, <2>4 DEF Explained
  <2> QED BY <2>2, <2>4, <2>5
<1> QED BY <1>2, <1>3

LEMMA RunningFacts ==
  ASSUME Inv, NEW b \in Members, batch[b].step \in {"own", "recheck"}
  PROVE  /\ b \in Running(batch) /\ mem \in [Members -> MemberSet] /\ batch \in [Members -> BatchSet]
         /\ batch[b] \in BatchSet /\ batch[b].of \subseteq Members
         /\ batch[b].cur \subseteq batch[b].of /\ batch[b].split \subseteq batch[b].of
         /\ batch[b].step = "own" => batch[b].split = {}
         /\ \A m \in batch[b].of : Answering(mem[m], batch[b]) /\ Explained(mem[m], batch[b])
         /\ \A m \in batch[b].cur : mem[m].ph \in {IF batch[b].step = "own" THEN "own-run" ELSE "recheck", "settled"}
         /\ batch[b].step = "recheck" => \A m \in batch[b].split : mem[m].ph \in {"recheck", "settled"}
         /\ \A m \in Members : mem[m].out = "aborted" => m \in Gone
<1>1. Sane(mem, batch[b]) /\ batch[b] \in BatchSet
  BY DEF Inv, BatchInv
<1> QED BY <1>1 DEF Running, Inv, BatchInv, Sane, BatchSet

LEMMA OwnRanKeeps ==
  ASSUME Inv, NEW b \in Members, NEW F \in SUBSET Ids, OwnRan(b, F)
  PROVE  Inv'
<1>1. batch[b].step = "own" /\ UNCHANGED <<expired, disposed>>
  BY DEF OwnRan
<1>2. PICK m \in batch[b].cur :
        LET bs == [batch EXCEPT ![b].repro = @ \cup F, ![b].cur = {}]
            r == [mem[m] EXCEPT !.out = "ran", !.fails = F]
            ms == IF mem[m].ph = "settled" THEN mem
                  ELSE [mem EXCEPT ![m] = IF m \in expired THEN settleLate(r, bs[b]) ELSE [r EXCEPT !.ph = "held"]]
        IN Drains(<<ms, bs>>, b)
  BY DEF OwnRan
<1> DEFINE bt == [batch[b] EXCEPT !.repro = batch[b].repro \cup F, !.cur = {}]
           bs == [batch EXCEPT ![b] = bt]
           r == [mem[m] EXCEPT !.out = "ran", !.fails = F]
           held == [r EXCEPT !.ph = "held"]
           told == IF m \in expired THEN settleLate(r, bt) ELSE held
           ms == IF mem[m].ph = "settled" THEN mem ELSE [mem EXCEPT ![m] = told]
<1>3. bs = [batch EXCEPT ![b].repro = @ \cup F, ![b].cur = {}] /\ bs[b] = bt
  BY <1>1, RunningFacts DEF BatchSet
<1>4. Drains(<<ms, bs>>, b)
  BY <1>2, <1>3
<1>5. /\ bt \in BatchSet /\ bt.of = batch[b].of /\ bt.cur = {} /\ bt.split = {} /\ bt.step = "own"
      /\ bt.final = batch[b].final /\ outstanding(bt) \subseteq outstanding(batch[b])
  <2>1. /\ bt \in BatchSet /\ bt.of = batch[b].of /\ bt.cur = {} /\ bt.split = {} /\ bt.step = "own"
        /\ bt.final = batch[b].final /\ bt.uids = batch[b].uids /\ bt.repro = batch[b].repro \cup F
    BY <1>1, RunningFacts DEF BatchSet
  <2> HIDE DEF bt
  <2> QED BY <2>1 DEF outstanding
<1>6. m \in Members /\ m \in batch[b].of /\ mem[m].ph \in {"own-run", "settled"} /\ mem[m] \in MemberSet
  BY <1>1, RunningFacts
<1> HIDE DEF bt
<1>7. mem[m].ph # "settled" => /\ told \in MemberSet /\ told.out \in {"ran", "aborted"} /\ (told.out = "aborted" => m \in Gone)
                               /\ Answering(told, bt) /\ Explained(told, bt)
  <2> SUFFICES ASSUME mem[m].ph = "own-run"
               PROVE  /\ told \in MemberSet /\ told.out \in {"ran", "aborted"} /\ (told.out = "aborted" => m \in Gone)
                      /\ Answering(told, bt) /\ Explained(told, bt)
    BY <1>6
  <2>1. /\ r \in MemberSet /\ r.ph = "own-run" /\ r.out = "ran"
        /\ held \in MemberSet /\ held.ph = "held" /\ held.out = "ran"
    BY <1>6 DEF MemberSet, Phases, Outs
  <2>2. ~(bt.final /\ outstanding(bt) # {})
    <3>1. Explained(mem[m], batch[b])
      BY <1>1, <1>6, RunningFacts
    <3> QED BY <1>5, <3>1 DEF Explained
  <2> DEFINE late == settleLate(r, bt)
  <2> HIDE DEF r, held
  <2>3. late \in MemberSet /\ late.ph = "settled" /\ late.out = "ran" /\ Explained(late, bt)
    BY <1>5, <2>1, <2>2, SettleLateIs
  <2> HIDE DEF late
  <2>4. CASE m \in expired
    <3>1. told = late
      BY <2>4 DEF late
    <3> QED BY <2>3, <3>1 DEF Answering
  <2>5. CASE m \notin expired
    <3>1. told = held
      BY <2>5
    <3> QED BY <2>1, <2>2, <3>1 DEF Answering, Explained
  <2> QED BY <2>4, <2>5
<1> HIDE DEF told
<1>8. ms \in [Members -> MemberSet] /\ \A k \in Members : ms[k] = IF k = m /\ mem[m].ph # "settled" THEN told ELSE mem[k]
  <2>1. mem \in [Members -> MemberSet]
    BY <1>1, RunningFacts
  <2>2. CASE mem[m].ph = "settled"
    BY <2>1, <2>2
  <2>3. CASE mem[m].ph # "settled"
    BY <1>6, <1>7, <2>1, <2>3
  <2> QED BY <2>2, <2>3
<1>9. bs \in [Members -> BatchSet] /\ bs[b] = bt /\ \A k \in Members \ {b} : bs[k] = batch[k]
  BY <1>1, <1>5, RunningFacts
<1> HIDE DEF ms, bs
<1>10. \A k \in batch[b].of : Answering(ms[k], bt) /\ Explained(ms[k], bt)
  <2> TAKE k \in batch[b].of
  <2>1. k \in Members /\ Answering(mem[k], batch[b]) /\ Explained(mem[k], batch[b])
    BY <1>1, RunningFacts
  <2>2. Answering(mem[k], bt) /\ Explained(mem[k], bt)
    BY <1>5, <2>1 DEF Answering, Explained
  <2> QED BY <1>7, <1>8, <2>1, <2>2
<1>11. \A k \in Members : ms[k].out = "aborted" => k \in Gone
  BY <1>1, <1>7, <1>8, RunningFacts
<1>12. Moves(mem, ms, batch[b].of)
  <2>1. \A k \in batch[b].of : ms[k].ph \notin Waiting
    BY <1>10 DEF Answering, Waiting
  <2> QED BY <1>6, <1>8, <2>1 DEF Moves
<1>13. Drainable(mem, batch, b, Gone, ms, bs)
  BY <1>5, <1>9, <1>10, <1>11, <1>12 DEF Drainable, Stage
<1>14. BatchInv(mem', batch', win', Gone)
  BY <1>1, <1>4, <1>13, RunningFacts, DrainsKeep DEF Inv
<1> QED BY <1>1, <1>14, SameGone DEF Inv

LEMMA OwnStoppedKeeps ==
  ASSUME Inv, NEW b \in Members, NEW out, OwnStopped(b, out)
  PROVE  Inv'
<1>1. batch[b].step = "own" /\ UNCHANGED <<expired, disposed>>
  BY DEF OwnStopped
<1>2. PICK m \in batch[b].cur :
        /\ out \in {"error", "slot-busy"} \/ (out = "aborted" /\ (m \in expired \/ disposed))
        /\ Drains(<<SettleAll(mem, {m}, out), [batch EXCEPT ![b].cur = {}]>>, b)
  BY DEF OwnStopped
<1> DEFINE ms == SettleAll(mem, {m}, out)
           bt == [batch[b] EXCEPT !.cur = {}]
           bs == [batch EXCEPT ![b] = bt]
<1>3. bs = [batch EXCEPT ![b].cur = {}]
  OBVIOUS
<1>4. Drains(<<ms, bs>>, b)
  BY <1>2, <1>3
<1>5. /\ bt \in BatchSet /\ bt.of = batch[b].of /\ bt.cur = {} /\ bt.split = {} /\ bt.step = "own"
      /\ bt.final = batch[b].final /\ outstanding(bt) = outstanding(batch[b])
  BY <1>1, RunningFacts DEF BatchSet, outstanding
<1>6. m \in Members /\ m \in batch[b].of /\ out \in Outs /\ out # "ran" /\ (out = "aborted" => m \in Gone)
  BY <1>1, <1>2, RunningFacts DEF Outs, Gone
<1>7. /\ ms \in [Members -> MemberSet] /\ \A k \in Members : k # m \/ mem[k].ph = "settled" => ms[k] = mem[k]
      /\ mem[m].ph # "settled" => ms[m].ph = "settled" /\ ms[m].out = out
  BY <1>1, <1>6, RunningFacts, SettleAllIs
<1> HIDE DEF bt
<1>8. bs \in [Members -> BatchSet] /\ bs[b] = bt /\ \A k \in Members \ {b} : bs[k] = batch[k]
  BY <1>1, <1>5, RunningFacts
<1> HIDE DEF ms, bs
<1>9. \A k \in batch[b].of : Answering(ms[k], bt) /\ Explained(ms[k], bt)
  <2> TAKE k \in batch[b].of
  <2>1. k \in Members /\ Answering(mem[k], batch[b]) /\ Explained(mem[k], batch[b])
    BY <1>1, RunningFacts
  <2>2. ms[k] = mem[k] \/ (ms[k].ph = "settled" /\ ms[k].out # "ran")
    BY <1>6, <1>7, <2>1
  <2> QED BY <1>5, <2>1, <2>2 DEF Answering, Explained
<1>10. \A k \in Members : ms[k].out = "aborted" => k \in Gone
  BY <1>1, <1>6, <1>7, RunningFacts
<1>11. Moves(mem, ms, batch[b].of)
  <2>1. \A k \in batch[b].of : ms[k].ph \notin Waiting
    BY <1>9 DEF Answering, Waiting
  <2> QED BY <1>6, <1>7, <2>1 DEF Moves
<1>12. Drainable(mem, batch, b, Gone, ms, bs)
  BY <1>5, <1>8, <1>9, <1>10, <1>11 DEF Drainable, Stage
<1>13. BatchInv(mem', batch', win', Gone)
  BY <1>1, <1>4, <1>12, RunningFacts, DrainsKeep DEF Inv
<1> QED BY <1>1, <1>13, SameGone DEF Inv

LEMMA RecheckEndsKeeps ==
  ASSUME Inv, NEW b \in Members, NEW S, RecheckEnds(b, S)
  PROVE  Inv'
<1> DEFINE cur == batch[b].cur
           ms == SettleAll(mem, cur \ S, "ran")
           again == LiveIn(ms, S \cup batch[b].split)
           Bt(c, rest) == [batch[b] EXCEPT !.cur = c, !.split = rest]
           Bs(c, rest) == [batch EXCEPT ![b] = Bt(c, rest)]
<1>1. batch[b].step = "recheck" /\ S \in SplitsOf(cur) /\ UNCHANGED <<expired, disposed>>
  BY DEF RecheckEnds
<1>2. S \subseteq cur /\ cur \subseteq batch[b].of /\ batch[b].of \subseteq Members
  BY <1>1, RunningFacts DEF SplitsOf
<1>3. \A c, rest : Bs(c, rest) = [batch EXCEPT ![b].cur = c, ![b].split = rest]
  BY <1>1, RunningFacts DEF BatchSet
<1>4. \/ Drains(<<ms, Bs({}, {})>>, b)
      \/ \E m \in again : Become(<<ms, Bs({m}, again \ {m})>>, win)
  <2>1. Bs({}, {}) = [batch EXCEPT ![b].cur = {}, ![b].split = {}]
    BY <1>3
  <2>2. \A m : Bs({m}, again \ {m}) = [batch EXCEPT ![b].cur = {m}, ![b].split = again \ {m}]
    BY <1>3
  <2> HIDE DEF Bs
  <2> QED BY <2>1, <2>2 DEF RecheckEnds
<1>5. ASSUME NEW c \in SUBSET batch[b].of, NEW rest \in SUBSET batch[b].of
      PROVE  /\ Bt(c, rest) \in BatchSet /\ Bt(c, rest).of = batch[b].of
             /\ Bt(c, rest).cur = c /\ Bt(c, rest).split = rest /\ Bt(c, rest).step = "recheck"
             /\ Bt(c, rest).final = batch[b].final /\ outstanding(Bt(c, rest)) = outstanding(batch[b])
  <2>1. c \subseteq Members /\ rest \subseteq Members /\ batch[b] \in BatchSet
    BY <1>1, <1>2, RunningFacts
  <2> QED BY <1>1, <2>1 DEF BatchSet, outstanding
<1>6. /\ ms \in [Members -> MemberSet]
      /\ \A k \in Members : k \notin batch[b].of \/ mem[k].ph = "settled" => ms[k] = mem[k]
      /\ \A k \in Members : \/ ms[k] = mem[k]
                            \/ /\ mem[k].ph = "recheck" /\ k \in batch[b].of
                               /\ ms[k].ph = "settled" /\ ms[k].out = "ran" /\ ms[k].taint = mem[k].taint
  <2>1. "ran" \in Outs /\ mem \in [Members -> MemberSet]
    BY <1>1, RunningFacts DEF Outs
  <2>2. /\ ms \in [Members -> MemberSet]
        /\ \A k \in Members :
             /\ k \notin cur \ S \/ mem[k].ph = "settled" => ms[k] = mem[k]
             /\ k \in cur \ S => ms[k].ph = "settled"
             /\ k \in cur \ S /\ mem[k].ph # "settled" => ms[k].out = "ran"
             /\ ms[k].taint = mem[k].taint
    BY <2>1, SettleAllIs
  <2>3. \A k \in cur : mem[k].ph \in {"recheck", "settled"}
    BY <1>1, RunningFacts
  <2> HIDE DEF ms
  <2> QED BY <1>2, <2>2, <2>3
<1> HIDE DEF ms, Bt
<1>7. ASSUME NEW c \in SUBSET batch[b].of, NEW rest \in SUBSET batch[b].of
      PROVE  \A k \in batch[b].of : Answering(ms[k], Bt(c, rest)) /\ Explained(ms[k], Bt(c, rest))
  <2> TAKE k \in batch[b].of
  <2> DEFINE bt == Bt(c, rest)
  <2>1. bt.final = batch[b].final /\ outstanding(bt) = outstanding(batch[b])
    BY <1>5
  <2> HIDE DEF bt
  <2>2. k \in Members /\ Answering(mem[k], batch[b]) /\ Explained(mem[k], batch[b])
    BY <1>1, RunningFacts
  <2>3. CASE ms[k] = mem[k]
    BY <2>1, <2>2, <2>3 DEF Answering, Explained, bt
  <2>4. CASE /\ mem[k].ph = "recheck"
             /\ ms[k].ph = "settled" /\ ms[k].out = "ran" /\ ms[k].taint = mem[k].taint
    <3>1. outstanding(batch[b]) # {} => mem[k].taint
      BY <2>2, <2>4 DEF Answering, Explained
    <3>2. Answering(ms[k], bt) /\ Explained(ms[k], bt)
      BY <2>1, <2>4, <3>1 DEF Answering, Explained
    <3> QED BY <3>2 DEF bt
  <2> QED BY <1>6, <2>2, <2>3, <2>4
<1>8. \A k \in Members : ms[k].out = "aborted" => k \in Gone
  BY <1>1, <1>6, RunningFacts
<1>9. Moves(mem, ms, batch[b].of)
  <2>1. \A k \in batch[b].of : ms[k].ph \notin Waiting
    BY <1>7 DEF Answering, Waiting
  <2> QED BY <1>6, <2>1 DEF Moves
<1>10. ASSUME NEW c \in SUBSET batch[b].of, NEW rest \in SUBSET batch[b].of
       PROVE  Bs(c, rest) \in [Members -> BatchSet] /\ Bs(c, rest)[b] = Bt(c, rest)
              /\ \A k \in Members \ {b} : Bs(c, rest)[k] = batch[k]
  BY <1>1, <1>5, RunningFacts
<1> HIDE DEF Bs
<1>11. CASE Drains(<<ms, Bs({}, {})>>, b)
  <2> DEFINE bs == Bs({}, {})
             bt == Bt({}, {})
  <2>1. /\ bt.of = batch[b].of /\ bt.cur = {} /\ bt.split = {} /\ bt.step = "recheck"
        /\ bs \in [Members -> BatchSet] /\ bs[b] = bt /\ \A k \in Members \ {b} : bs[k] = batch[k]
        /\ \A k \in batch[b].of : Answering(ms[k], bt) /\ Explained(ms[k], bt)
    <3>1. {} \in SUBSET batch[b].of
      OBVIOUS
    <3>2. bt.of = batch[b].of /\ bt.cur = {} /\ bt.split = {} /\ bt.step = "recheck"
      BY <1>5, <3>1
    <3>3. \A k \in batch[b].of : Answering(ms[k], bt) /\ Explained(ms[k], bt)
      BY <1>7, <3>1
    <3>4. bs \in [Members -> BatchSet] /\ bs[b] = bt /\ \A k \in Members \ {b} : bs[k] = batch[k]
      BY <1>10, <3>1
    <3> QED BY <3>2, <3>3, <3>4
  <2> HIDE DEF bs, bt
  <2>2. Drainable(mem, batch, b, Gone, ms, bs)
    BY <1>8, <1>9, <2>1 DEF Drainable, Stage
  <2>3. Drains(<<ms, bs>>, b)
    BY <1>11 DEF bs
  <2>4. BatchInv(mem', batch', win', Gone)
    BY <1>1, <2>2, <2>3, RunningFacts, DrainsKeep DEF Inv
  <2> QED BY <1>1, <2>4, SameGone DEF Inv
<1>12. CASE \E m \in again : Become(<<ms, Bs({m}, again \ {m})>>, win)
  <2>1. PICK m \in again : mem' = ms /\ batch' = Bs({m}, again \ {m}) /\ win' = win
    BY <1>12 DEF Become
  <2> DEFINE rest == again \ {m}
             bs == Bs({m}, rest)
             bt == Bt({m}, rest)
  <2>2. again \subseteq cur \cup batch[b].split /\ {m} \subseteq batch[b].of /\ rest \subseteq batch[b].of
    <3>1. again \subseteq cur \cup batch[b].split
      BY <1>2 DEF LiveIn
    <3>2. batch[b].split \subseteq batch[b].of
      BY <1>1, RunningFacts
    <3> QED BY <1>2, <2>1, <3>1, <3>2
  <2>3. /\ bt.of = batch[b].of /\ bt.cur = {m} /\ bt.split = rest /\ bt.step = "recheck"
        /\ bs \in [Members -> BatchSet] /\ bs[b] = bt /\ \A k \in Members \ {b} : bs[k] = batch[k]
        /\ \A k \in batch[b].of : Answering(ms[k], bt) /\ Explained(ms[k], bt)
    <3> DEFINE c == {m}
    <3>1. c \in SUBSET batch[b].of /\ rest \in SUBSET batch[b].of
      BY <2>2
    <3> HIDE DEF c, rest, again
    <3>2. Bt(c, rest).of = batch[b].of /\ Bt(c, rest).cur = c /\ Bt(c, rest).split = rest /\ Bt(c, rest).step = "recheck"
      BY <1>5, <3>1
    <3>3. \A k \in batch[b].of : Answering(ms[k], Bt(c, rest)) /\ Explained(ms[k], Bt(c, rest))
      BY <1>7, <3>1
    <3>4. /\ Bs(c, rest) \in [Members -> BatchSet] /\ Bs(c, rest)[b] = Bt(c, rest)
          /\ \A k \in Members \ {b} : Bs(c, rest)[k] = batch[k]
      BY <1>10, <3>1
    <3> QED BY <3>2, <3>3, <3>4 DEF c
  <2>4. \A k \in {m} \cup rest : ms[k].ph \in {"recheck", "settled"}
    <3>1. \A k \in cur \cup batch[b].split : k \in Members /\ mem[k].ph \in {"recheck", "settled"}
      BY <1>1, RunningFacts
    <3> QED BY <1>6, <2>1, <2>2, <3>1
  <2>5. batch' = bs /\ mem' = ms /\ win' = win
    BY <2>1
  <2> HIDE DEF bs, bt, rest, again
  <2>6. Sane(ms, bs[b])
    BY <2>2, <2>3, <2>4 DEF Sane
  <2>7. b \in Running(batch) /\ b \in Running(bs) /\ bs[b].step # "none"
    BY <1>1, <2>3, RunningFacts DEF Running
  <2>8. BatchInv(ms, bs, win, Gone)
    BY <1>8, <1>9, <2>3, <2>6, <2>7, Within DEF Inv
  <2> QED BY <1>1, <2>5, <2>8, SameGone DEF Inv
<1> QED BY <1>4, <1>11, <1>12

-----------------------------------------------------------------------------
(* Deadlines, the sweep and dispose.                                       *)

LEMMA EvictKeeps == ASSUME Inv, NEW b \in Members, Evict(b) PROVE Inv'
<1> DEFINE bt == [batch[b] EXCEPT !.step = "evicted"]
           bs == [batch EXCEPT ![b] = bt]
<1>1. /\ b \in Running(batch) /\ Live(mem, b) = {} /\ Finish(<<mem, evict(b)>>, win, Planning)
      /\ UNCHANGED <<expired, disposed>>
  BY DEF Evict
<1>2. mem \in [Members -> MemberSet] /\ batch \in [Members -> BatchSet] /\ batch[b] \in BatchSet /\ Sane(mem, batch[b])
  BY DEF Inv, BatchInv
<1>3. evict(b) = bs
  BY DEF evict
<1>4. /\ bt \in BatchSet /\ bt.of = batch[b].of /\ bt.cur = batch[b].cur /\ bt.split = batch[b].split
      /\ bt.uids = batch[b].uids /\ bt.repro = batch[b].repro /\ bt.final = batch[b].final /\ bt.step = "evicted"
  BY <1>2 DEF BatchSet, Steps
<1> HIDE DEF bt
<1>5. bs \in [Members -> BatchSet] /\ bs[b] = bt /\ \A k \in Members \ {b} : bs[k] = batch[k]
  BY <1>2, <1>4
<1> HIDE DEF bs
<1>6. \A m \in batch[b].of : mem[m].ph = "settled"
  BY <1>1 DEF Live
<1>7. Sane(mem, bt)
  BY <1>2, <1>4, <1>6 DEF Sane, Explained, outstanding
<1>8. Moves(mem, mem, batch[b].of) /\ \A m \in Members : mem[m].out = "aborted" => m \in Gone
  BY <1>2 DEF Moves, Inv, BatchInv, Placed
<1>9. BatchInv(mem, bs, win, Gone)
  BY <1>1, <1>4, <1>5, <1>6, <1>7, <1>8, Within DEF Inv
<1>10. BatchInv(mem', batch', win', Gone)
  BY <1>1, <1>3, <1>9, FinishKeeps
<1> QED BY <1>1, <1>10, SameGone DEF Inv

LEMMA DisposeKeeps == ASSUME Inv, Dispose PROVE Inv'
<1> DEFINE S == win \cup UNION {batch[b].of : b \in Running(batch)}
           ms == SettleAll(mem, S, "aborted")
<1>1. mem' = ms /\ win' = {} /\ UNCHANGED <<expired, batch>> /\ disposed'
  BY DEF Dispose
<1>2. Gone' = expired \cup Members
  BY <1>1 DEF Gone
<1>3. /\ mem \in [Members -> MemberSet] /\ batch \in [Members -> BatchSet] /\ win \subseteq Members
      /\ Placed(mem, batch, win) /\ \A b \in Members : Sane(mem, batch[b])
  BY DEF Inv, BatchInv
<1>4. /\ ms \in [Members -> MemberSet]
      /\ \A m \in Members : m \in S => ms[m].ph = "settled"
      /\ \A m \in Members : ms[m] = mem[m] \/ (m \in S /\ mem[m].ph # "settled" /\ ms[m].ph = "settled" /\ ms[m].out = "aborted")
  <2>1. "aborted" \in Outs
    BY DEF Outs
  <2> HIDE DEF S
  <2> QED BY <1>3, <2>1, SettleAllIs
<1> HIDE DEF ms
<1>5. \A b \in Members : Sane(ms, batch[b])
  <2> TAKE b \in Members
  <2>1. \A m \in batch[b].of : ms[m] = mem[m] \/ (ms[m].ph = "settled" /\ ms[m].out # "ran")
    BY <1>3, <1>4 DEF BatchSet
  <2> QED BY <1>3, <2>1, SaneSettled
<1>6. Placed(ms, batch, {})
  <2>1. \A m \in Members : ms[m].ph # "window"
    BY <1>3, <1>4 DEF Placed
  <2>2. \A b \in Members : \A m \in batch[b].of : ms[m].ph \notin Waiting
    BY <1>3, <1>4 DEF Placed, BatchSet, Waiting
  <2>3. \A m \in Members : ms[m].ph \notin Waiting \cup {"settled"} => \E b \in Running(batch) : m \in batch[b].of
    BY <1>3, <1>4 DEF Placed
  <2>4. \A b, c \in Running(batch) : \A m \in batch[b].of \cap batch[c].of : ms[m].ph # "settled" => b = c
    BY <1>3, <1>4 DEF Placed, BatchSet, Running
  <2> QED BY <1>3, <2>1, <2>2, <2>3, <2>4 DEF Placed
<1>7. \A m \in Members : ms[m].ph \in Waiting => ms[m].out = "none"
  BY <1>4 DEF Inv, BatchInv, Waiting
<1>8. BatchInv(ms, batch, {}, Gone')
  BY <1>2, <1>3, <1>4, <1>5, <1>6, <1>7 DEF BatchInv
<1> QED BY <1>1, <1>8 DEF Inv

LEMMA ExpireKeeps == ASSUME Inv, NEW m \in Members, Expire(m) PROVE Inv'
<1> DEFINE home == {k \in Running(batch) : m \in batch[k].of}
           late == settleLate(mem[m], batch[Least(home)])
           new == CASE mem[m].ph \in {"window", "run", "own-wait"} -> Settle(mem[m], "aborted")
                    [] mem[m].ph \in {"held", "recheck-wait"} -> late
                    [] mem[m].ph = "recheck" -> Settle(mem[m], "ran")
                    [] mem[m].ph \in {"planning", "own-run"} -> mem[m]
<1>1. /\ mem[m].ph \notin {"new", "settled"} /\ expired' = expired \cup {m} /\ win' = win \ {m}
      /\ mem' = [mem EXCEPT ![m] = new] /\ UNCHANGED <<batch, disposed>>
  BY DEF Expire
<1>2. Gone \subseteq Gone' /\ m \in Gone'
  BY <1>1 DEF Gone
<1>3. /\ mem \in [Members -> MemberSet] /\ mem[m] \in MemberSet /\ batch \in [Members -> BatchSet] /\ win \subseteq Members
      /\ Placed(mem, batch, win) /\ "aborted" \in Outs /\ "ran" \in Outs
  BY DEF Inv, BatchInv, Outs
<1>4. BatchInv(mem, batch, win, Gone')
  BY <1>2, GoneGrows DEF Inv
<1>5. CASE mem[m].ph \in {"planning", "own-run"}
  <2>1. new = mem[m]
    BY <1>5
  <2> HIDE DEF new
  <2>2. mem' = mem /\ win' = win
    BY <1>1, <1>3, <1>5, <2>1 DEF Placed
  <2> QED BY <1>1, <1>4, <2>2 DEF Inv
<1>6. CASE mem[m].ph = "window"
  <2>1. new = Settle(mem[m], "aborted")
    BY <1>6
  <2> HIDE DEF new
  <2>2. new \in MemberSet /\ new.ph = "settled"
    BY <1>3, <2>1, SettleIs
  <2>3. mem' \in [Members -> MemberSet] /\ mem'[m] = new /\ \A k \in Members \ {m} : mem'[k] = mem[k]
    BY <1>1, <1>3, <2>2
  <2>4. \A k \in Members : mem'[k] = mem[k] \/ (mem[k].ph \in Waiting /\ mem'[k].ph \in Waiting \cup {"settled"})
    BY <1>6, <2>2, <2>3 DEF Waiting
  <2>5. \A k \in Members : mem'[k].ph = "window" <=> k \in win'
    BY <1>1, <1>3, <2>2, <2>3 DEF Placed
  <2>6. \A k \in Members : mem'[k].ph \in Waiting => mem'[k].out = "none"
    BY <2>2, <2>3 DEF Inv, BatchInv, Waiting
  <2>7. \A k \in Members : mem'[k].out = "aborted" => k \in Gone'
    BY <1>2, <2>3 DEF Inv, BatchInv
  <2>8. win' \in SUBSET Members
    BY <1>1, <1>3
  <2>9. BatchInv(mem', batch, win', Gone')
    BY <1>4, <2>3, <2>4, <2>5, <2>6, <2>7, <2>8, Outside
  <2> QED BY <1>1, <2>9 DEF Inv
<1>7. CASE mem[m].ph \notin {"planning", "own-run", "window"}
  <2>1. mem[m].ph \in {"run", "own-wait", "held", "recheck-wait", "recheck"}
    BY <1>1, <1>3, <1>7 DEF MemberSet, Phases
  <2>2. PICK b \in Running(batch) : m \in batch[b].of
    BY <1>3, <2>1 DEF Placed, Waiting
  <2>3. b \in Members /\ batch[b] \in BatchSet /\ Sane(mem, batch[b]) /\ batch[b].of \subseteq Members
    BY <2>2 DEF Running, Inv, BatchInv, BatchSet
  <2>4. Least(home) = b
    <3>1. home = {b}
      BY <1>3, <2>1, <2>2 DEF Placed
    <3> HIDE DEF home
    <3> QED BY <2>3, <3>1, LeastOfOne
  <2>5. Explained(mem[m], batch[b])
    BY <2>2, <2>3 DEF Sane
  <2>6. ~(batch[b].final /\ outstanding(batch[b]) # {}) \/ mem[m].taint
    BY <2>1, <2>5 DEF Explained
  <2>7. /\ new \in MemberSet /\ new.ph = "settled" /\ Explained(new, batch[b])
        /\ new.out = "ran" => batch[b].step \notin {"plan", "hold", "union"}
    <3>1. CASE mem[m].ph \in {"run", "own-wait"}
      <4>1. new = Settle(mem[m], "aborted")
        BY <3>1
      <4> HIDE DEF new
      <4>2. new \in MemberSet /\ new.ph = "settled" /\ new.out = "aborted"
        BY <1>1, <1>3, <4>1, SettleIs
      <4> QED BY <4>2 DEF Explained
    <3>2. CASE mem[m].ph \in {"held", "recheck-wait"}
      <4>1. new = settleLate(mem[m], batch[b])
        BY <2>4, <3>2
      <4>2. mem[m].out # "ran" \/ (batch[b].final /\ outstanding(batch[b]) # {} => mem[m].taint)
        BY <2>6
      <4>3. new \in MemberSet /\ new.ph = "settled" /\ Explained(new, batch[b])
        BY <1>1, <1>3, <2>3, <4>1, <4>2, SettleLateIs
      <4>4. batch[b].step \notin {"plan", "hold", "union"}
        BY <2>2, <2>3, <3>2 DEF Sane
      <4> QED BY <4>3, <4>4
    <3>3. CASE mem[m].ph = "recheck"
      <4>1. new = Settle(mem[m], "ran")
        BY <3>3
      <4> HIDE DEF new
      <4>2. new \in MemberSet /\ new.ph = "settled" /\ new.taint = mem[m].taint
        BY <1>3, <4>1, SettleIs
      <4>3. batch[b].step \notin {"plan", "hold", "union"}
        BY <2>2, <2>3, <3>3 DEF Sane
      <4>4. batch[b].step \in {"own", "recheck"}
        BY <2>2, <2>3, <4>3 DEF Running, BatchSet, Steps
      <4>5. batch[b].final
        BY <2>2, <2>3, <3>3, <4>4 DEF Sane, Answering
      <4> QED BY <2>6, <4>2, <4>3, <4>5 DEF Explained
    <3> QED BY <2>1, <3>1, <3>2, <3>3
  <2> HIDE DEF new
  <2>8. mem' \in [Members -> MemberSet] /\ mem'[m] = new /\ \A k \in Members \ {m} : mem'[k] = mem[k]
    BY <1>1, <1>3, <2>7
  <2>9. win' = win
    BY <1>1, <1>3, <1>7 DEF Placed
  <2>10. Moves(mem, mem', batch[b].of)
    <3>1. \A k \in batch[b].of : mem[k].ph \notin Waiting
      BY <1>3, <2>3 DEF Placed
    <3> QED BY <1>1, <2>2, <2>7, <2>8, <3>1, <2>3 DEF Moves, Waiting
  <2>11. Sane(mem', batch[b])
    <3>1. \A k \in batch[b].of : Explained(mem'[k], batch[b])
      BY <2>3, <2>7, <2>8 DEF Sane
    <3>2. \A k \in batch[b].of : Answering(mem[k], batch[b]) => Answering(mem'[k], batch[b])
      BY <2>3, <2>7, <2>8 DEF Answering
    <3>3. \A k \in batch[b].of : mem[k].ph \in {"run", "settled"} /\ mem[k].out # "ran" /\ batch[b].step \in {"plan", "hold", "union"}
                                   => mem'[k].ph \in {"run", "settled"} /\ mem'[k].out # "ran"
      BY <2>3, <2>7, <2>8
    <3>4. \A k \in batch[b].of : mem'[k].ph = mem[k].ph \/ mem'[k].ph = "settled"
      BY <2>3, <2>7, <2>8
    <3> QED BY <2>3, <3>1, <3>2, <3>3, <3>4 DEF Sane
  <2>12. \A k \in Members : mem'[k].out = "aborted" => k \in Gone'
    BY <1>2, <2>8 DEF Inv, BatchInv
  <2>13. batch[b].step # "none"
    BY <2>2 DEF Running
  <2>14. BatchInv(mem', batch, win, Gone')
    BY <1>3, <1>4, <2>2, <2>8, <2>10, <2>11, <2>12, <2>13, Within
  <2> QED BY <1>1, <2>9, <2>14 DEF Inv
<1> QED BY <1>5, <1>6, <1>7

-----------------------------------------------------------------------------
(* The theorems.                                                           *)

LEMMA InvStep == Inv /\ [Next]_vars => Inv'
<1> SUFFICES ASSUME Inv, [Next]_vars PROVE Inv'
  OBVIOUS
<1>1. ASSUME NEW m \in Members, Submit(m) \/ PlanStep(m) \/ Expire(m) PROVE Inv'
  BY <1>1, SubmitKeeps, JoinKeeps, PlanAnswersKeeps, ExpireKeeps DEF PlanStep
<1>2. ASSUME NEW b \in Members, BatchStep(b) PROVE Inv'
  <2>1. CASE Dissolves(b) \/ PoolAdvances(b) \/ PoolAborted(b)
    BY <2>1, DissolvesKeeps, PoolAdvancesKeeps, PoolAbortedKeeps
  <2>2. ASSUME NEW U \in SUBSET (batch[b].of \cup {Shared}),
               UnionNotComparable(b, U) \/ \E A \in SUBSET batch[b].of : UnionRan(b, U, A)
        PROVE  Inv'
    BY <2>2, UnionNotComparableKeeps, UnionRanKeeps
  <2>3. ASSUME NEW out, UnionStopped(b, out) \/ OwnStopped(b, out) PROVE Inv'
    BY <2>3, UnionStoppedKeeps, OwnStoppedKeeps
  <2>4. ASSUME NEW F \in SUBSET Ids, OwnRan(b, F) PROVE Inv'
    BY <2>4, OwnRanKeeps
  <2>5. ASSUME NEW S, RecheckEnds(b, S) PROVE Inv'
    BY <2>5, RecheckEndsKeeps
  <2> QED BY <1>2, <2>1, <2>2, <2>3, <2>4, <2>5 DEF BatchStep
<1>3. ASSUME NEW b \in Members, Evict(b) PROVE Inv'
  BY <1>3, EvictKeeps
<1>4. CASE CloseWindow \/ Dispose
  BY <1>4, CloseWindowKeeps, DisposeKeeps
<1>5. CASE UNCHANGED vars
  BY <1>5 DEF vars, Inv, BatchInv, Gone, Placed, Running
<1> QED BY <1>1, <1>2, <1>3, <1>4, <1>5 DEF Next

LEMMA InvAlways == Spec => []Inv
<1>1. Init => Inv
  BY InvInit DEF Inv
<1> QED BY <1>1, InvStep, PTL DEF Spec

\* A union failure that nothing reproduced is never hidden: whoever of the batch is told that
\* its tests ran is tainted (attribute, advance, settleLate).
THEOREM UnionFailuresExplained == Spec => []NoUnexplainedGreen
<1>1. Inv => NoUnexplainedGreen
  BY DEF Inv, BatchInv, Sane, Explained, NoUnexplainedGreen
<1> QED BY <1>1, InvAlways, PTL

\* A member is cut short by its own deadline or by dispose, never by another member's deadline
\* (createBatchDeadline).
THEOREM OwnDeadlineOnly == Spec => []AbortIsOwn
<1>1. Inv => AbortIsOwn
  BY DEF Inv, BatchInv, AbortIsOwn, Gone
<1> QED BY <1>1, InvAlways, PTL

\* Every member that waits is in the window or in exactly one running batch
\* (submit, startBatch, dissolve, drain, sweep).
THEOREM EveryoneIsPlaced == Spec => []NobodyOrphaned
<1>1. Inv => NobodyOrphaned
  <2> SUFFICES ASSUME Inv, NEW m \in Members
               PROVE  /\ mem[m].ph = "window" <=> m \in win
                      /\ mem[m].ph \notin {"new", "planning", "window", "settled"} =>
                           Cardinality({b \in Running(batch) : m \in batch[b].of}) = 1
    BY DEF NobodyOrphaned
  <2>1. Placed(mem, batch, win)
    BY DEF Inv, BatchInv
  <2>2. ASSUME mem[m].ph \notin {"new", "planning", "window", "settled"}
        PROVE  Cardinality({b \in Running(batch) : m \in batch[b].of}) = 1
    <3>1. PICK b \in Running(batch) : m \in batch[b].of
      BY <2>1, <2>2 DEF Placed, Waiting
    <3>2. {k \in Running(batch) : m \in batch[k].of} = {b}
      BY <2>1, <2>2, <3>1 DEF Placed
    <3> QED BY <3>2, FS_Singleton
  <2> QED BY <2>1, <2>2 DEF Placed
<1> QED BY <1>1, InvAlways, PTL

=============================================================================
