------------------------------- MODULE Batch -------------------------------
(***************************************************************************)
(* The batch coordinator (src/verify/batch.ts): concurrent testsPass        *)
(* requests of one key wait in a window, run as one union run, and each is  *)
(* answered from it, from its own run, or after a recheck of its failures   *)
(* against its reference.                                                   *)
(*                                                                         *)
(* Requests are numbered in arrival order and share one batch key.  A test  *)
(* id is the number of the member whose input file holds it, or Shared for  *)
(* one that no input of the batch holds.  A batch is named by its smallest  *)
(* member.  Clocks and the duration estimate are abstracted: a window may   *)
(* close, a pool may not fit, and a deadline may pass, whenever the code    *)
(* lets time decide.                                                        *)
(***************************************************************************)
EXTENDS Naturals, FiniteSets

CONSTANTS
  N,            \* requests 1..N
  ModeA,        \* those whose inputs are test files (inputsAreTests)
  Captured,     \* those with a captured reference and rechecks enabled
  MaxBatch      \* maxBatchSize

ASSUME BatchAssumption == /\ N \in Nat \ {0} /\ MaxBatch \in Nat \ {0}
                          /\ ModeA \subseteq 1..N /\ Captured \subseteq 1..N

Members == 1..N
Shared == 0
Ids == Members \cup {Shared}
Least(S) == CHOOSE m \in S : \A k \in S : m <= k

VARIABLES
  mem,       \* the requests
  expired,   \* requests whose deadline has passed
  win,       \* the members of the open window
  batch,     \* the batches, by name
  disposed

vars == <<mem, expired, win, batch, disposed>>

NewMember == [ph |-> "new", out |-> "none", fails |-> {}, taint |-> FALSE]
NoBatch == [of |-> {}, step |-> "none", cur |-> {}, uids |-> {}, repro |-> {},
            final |-> FALSE, split |-> {}]

Planning == {m \in Members : mem[m].ph = "planning"}
Running(bs) == {b \in Members : bs[b].step \notin {"none", "ended", "evicted"}}
Live(ms, b) == {m \in batch[b].of : ms[m].ph # "settled"}
LiveIn(ms, of) == {m \in of : ms[m].ph # "settled"}

\* settle(): once; later answers for the same member are dropped.
Settle(r, out) == IF r.ph = "settled" THEN r
                  ELSE [r EXCEPT !.ph = "settled", !.out = out]
SettleAll(ms, S, out) ==
  [m \in Members |-> IF m \in S THEN Settle(ms[m], out) ELSE ms[m]]
Put(ms, S, phase) ==
  [m \in Members |-> IF m \in S /\ ms[m].ph # "settled"
                     THEN [ms[m] EXCEPT !.ph = phase] ELSE ms[m]]

\* Mutated form: one member's deadline ends the run for all of them.
BatchAbortedByAny(ms, of) == \E m \in of : ms[m].ph = "settled" \/ m \in expired

\* createBatchDeadline: aborted once every member's deadline is aborted or
\* released by its settle.
BatchAborted(ms, of) == \A m \in of : ms[m].ph = "settled" \/ m \in expired

-----------------------------------------------------------------------------
(* Starting batches.  A state of the coordinator is <<members, batches>>.    *)

\* startBatch: a single member goes straight to its own run; a pool first
\* plans its union.
startBatch(s, of) ==
  IF of = {} THEN s
  ELSE LET b == Least(of) one == Cardinality(of) = 1 IN
       << Put(s[1], of, IF one THEN "own-run" ELSE "run"),
          [s[2] EXCEPT ![b] = [NoBatch EXCEPT !.of = of,
                                 !.step = IF one THEN "own" ELSE "plan",
                                 !.cur = IF one THEN of ELSE {}]] >>

\* Mutated form: a pool that is given up does not restart its members.
dissolveOnly(s, b) == <<s[1], [s[2] EXCEPT ![b].step = "ended"]>>

\* dissolve: every live member gets a batch of its own.
dissolve(s, b) ==
  LET alive == LiveIn(s[1], s[2][b].of) IN
  << Put(s[1], alive, "own-run"),
     [k \in Members |->
        IF k \in alive THEN [NoBatch EXCEPT !.of = {k}, !.step = "own", !.cur = {k}]
        ELSE IF k = b THEN [s[2][b] EXCEPT !.step = "ended"] ELSE s[2][k]] >>

\* closeWindow: the members that are still to be answered start a batch.
closeWindow(s, w) == startBatch(s, LiveIn(s[1], w))

\* closeIdle: nothing plans and nothing runs, so no window has to wait.
\* closing is who leaves the window; planning is who still plans.
closeIdle(s, w, planning) ==
  IF planning = {} /\ Running(s[2]) = {}
  THEN <<closeWindow(s, w), {}>> ELSE <<s, w>>

Become(s, w) == mem' = s[1] /\ batch' = s[2] /\ win' = w
\* Apply the state s, the window w and what closeIdle makes of them.
Finish(s, w, planning) ==
  LET c == closeIdle(s, w, planning) IN Become(c[1], c[2])

-----------------------------------------------------------------------------
(* submit and join.                                                          *)

Submit(m) ==
  /\ mem[m].ph = "new"
  /\ mem' = [mem EXCEPT ![m] = IF disposed THEN Settle(@, "aborted")
                               ELSE [@ EXCEPT !.ph = "planning"]]
  /\ UNCHANGED <<expired, win, batch, disposed>>

\* The request's own plan runs nothing, or its planning failed.
PlanAnswers(m, out) ==
  /\ mem[m].ph = "planning" /\ out \in {"no-affected", "unverifiable", "error"}
  /\ Finish(<<SettleAll(mem, {m}, out), batch>>, win, Planning \ {m})
  /\ UNCHANGED <<expired, disposed>>

\* Planned: too late, or into the window, which closes when it is full.
Join(m) ==
  LET w == win \cup {m}
      s == <<Put(mem, {m}, "window"), batch>> IN
  /\ mem[m].ph = "planning"
  /\ IF disposed THEN Become(<<SettleAll(mem, {m}, "aborted"), batch>>, win)
     ELSE IF m \in expired
     THEN Finish(<<SettleAll(mem, {m}, "aborted"), batch>>, win, Planning \ {m})
     ELSE IF Cardinality(w) >= MaxBatch
     THEN Finish(closeWindow(s, w), {}, Planning \ {m})
     ELSE Finish(s, w, Planning \ {m})
  /\ UNCHANGED <<expired, disposed>>

\* The window's timer, or fitWindow when a member's budget grows short.
CloseWindow ==
  /\ win # {}
  /\ Become(closeWindow(<<mem, batch>>, win), {})
  /\ UNCHANGED <<expired, disposed>>

-----------------------------------------------------------------------------
(* Running a pool.                                                           *)

\* poolFits fails, the union cannot be planned for these inputs, or the slot
\* was not free in time.
Dissolves(b) ==
  /\ batch[b].step \in {"plan", "hold"} /\ ~BatchAborted(mem, batch[b].of)
  /\ LET s == dissolve(<<mem, batch>>, b) IN Finish(s, win, Planning)
  /\ UNCHANGED <<expired, disposed>>

\* The union is planned, then the slot is held.
PoolAdvances(b) ==
  /\ batch[b].step \in {"plan", "hold"} /\ ~BatchAborted(mem, batch[b].of)
  /\ batch' = [batch EXCEPT ![b].step = IF @ = "plan" THEN "hold" ELSE "union"]
  /\ UNCHANGED <<mem, expired, win, disposed>>

\* Ending a batch: anyone left without an answer gets an error.
End(s, b) ==
  << SettleAll(s[1], s[2][b].of, "error"), [s[2] EXCEPT ![b].step = "ended"] >>

\* Everyone's deadline passed while the pool was being planned or held.
PoolAborted(b) ==
  /\ batch[b].step \in {"plan", "hold"} /\ BatchAborted(mem, batch[b].of)
  /\ Finish(End(<<mem, batch>>, b), win, Planning)
  /\ UNCHANGED <<expired, disposed>>

\* attributeUnion for a comparable union run that failed the ids U.  An
\* ambiguous green (no per-file counts) asks for an own run.
attributeUnion(m, U, ambiguous) ==
  CASE U = {} -> IF ambiguous THEN "own" ELSE "green"
    [] U # {} /\ m \notin ModeA -> "own"
    [] U # {} /\ m \in ModeA /\ m \in U -> "fails"
    [] U # {} /\ m \in ModeA /\ m \notin U -> IF ambiguous THEN "own" ELSE "green"

\* attribute: the derived failures of every member reproduce the union's.
attribute(s, b, U, A) ==
  LET of == s[2][b].of
      how(m) == attributeUnion(m, U, m \in A) IN
  << [m \in Members |->
        IF m \notin of \/ s[1][m].ph = "settled" THEN s[1][m]
        ELSE IF how(m) = "own" THEN [s[1][m] EXCEPT !.ph = "own-wait"]
        ELSE [s[1][m] EXCEPT !.ph = "held", !.out = "ran",
                             !.fails = IF how(m) = "fails" THEN {m} ELSE {}]],
     [s[2] EXCEPT ![b].uids = U,
                  ![b].repro = {m \in of : how(m) = "fails"}] >>

outstanding(bt) == bt.uids \ bt.repro

\* Mutated form: members are released while a union failure is unexplained.
MustWaitNever(s, b) == FALSE

\* advance() waits while an own run may still reproduce an open failure.
MustWait(s, b) ==
  /\ ~s[2][b].final /\ outstanding(s[2][b]) # {}
  /\ \E m \in LiveIn(s[1], s[2][b].of) : s[1][m].ph \in {"own-wait", "own-run"}

\* advance() taints the live members when no own run is left to explain.
taint(s, b) == ~s[2][b].final /\ outstanding(s[2][b]) # {}

\* advance() and release(): held members are answered, or wait for a recheck.
\* R are those an earlier recheck of the batch already answers, or whose
\* budget is too short for one (reuse, skippedForDeadline).
advance(s, b, R) ==
  IF MustWait(s, b) THEN s
  ELSE LET alive == LiveIn(s[1], s[2][b].of) IN
    << [m \in Members |->
          IF m \notin alive THEN s[1][m]
          ELSE LET r == [s[1][m] EXCEPT !.taint = @ \/ (taint(s, b) /\ s[1][m].out = "ran")] IN
            IF r.ph \notin {"held", "recheck-wait"} THEN r
            ELSE IF r.fails # {} /\ m \in Captured /\ m \notin R
            THEN [r EXCEPT !.ph = "recheck-wait"] ELSE Settle(r, "ran")],
       [s[2] EXCEPT ![b].final = TRUE] >>

\* drain: the next own run or recheck, or the end of the batch.  The members
\* that wait for the same reference's recheck go together.
DrainTo(s, b, next) ==
  LET alive == LiveIn(s[1], s[2][b].of)
      own == {m \in alive : s[1][m].ph = "own-wait"}
      re == {m \in alive : s[1][m].ph = "recheck-wait"} IN
  IF own \cup re = {} THEN next = {} /\ Finish(End(s, b), win, Planning)
  ELSE \/ /\ \E m \in own : next = {m}
          /\ Become(<<Put(s[1], next, "own-run"),
                      [s[2] EXCEPT ![b].step = "own", ![b].cur = next]>>, win)
       \/ /\ next # {} /\ next \subseteq re
          /\ Become(<<Put(s[1], next, "recheck"),
                      [s[2] EXCEPT ![b].step = "recheck", ![b].cur = next]>>, win)

Drains(s, b) ==
  \E R \in SUBSET s[2][b].of, next \in SUBSET s[2][b].of :
    DrainTo(advance(s, b, R), b, next)

\* The union run ran and is comparable.
UnionRan(b, U, A) ==
  /\ batch[b].step = "union"
  /\ Drains(attribute(<<mem, batch>>, b, U, A), b)
  /\ UNCHANGED <<expired, disposed>>

\* It could not be compared: everyone runs on their own, and every failing id
\* of an incomplete run may still taint.
UnionNotComparable(b, U) ==
  /\ batch[b].step = "union"
  /\ Drains(<<Put(mem, batch[b].of, "own-wait"),
              [batch EXCEPT ![b].uids = U]>>, b)
  /\ UNCHANGED <<expired, disposed>>

\* The slot was busy, or every deadline passed: the live members hear it.
UnionStopped(b, out) ==
  /\ batch[b].step = "union"
  /\ out = "slot-busy" \/ (out = "aborted" /\ BatchAborted(mem, batch[b].of))
  /\ Finish(End(<<SettleAll(mem, batch[b].of, out), batch>>, b), win, Planning)
  /\ UNCHANGED <<expired, disposed>>

-----------------------------------------------------------------------------
(* Own runs and rechecks.                                                    *)

\* settleLate: a member past its deadline is answered at once; what is still
\* open taints it.
settleLate(r, bt) ==
  IF r.out # "ran" THEN Settle(r, "aborted")
  ELSE [Settle(r, "ran") EXCEPT !.taint = @ \/ (~bt.final /\ outstanding(bt) # {})]

\* A member's own run ends: it ran and failed F, or has no result.
OwnRan(b, F) ==
  /\ batch[b].step = "own"
  /\ \E m \in batch[b].cur :
       LET bs == [batch EXCEPT ![b].repro = @ \cup F, ![b].cur = {}]
           r == [mem[m] EXCEPT !.out = "ran", !.fails = F]
           ms == IF mem[m].ph = "settled" THEN mem
                 ELSE [mem EXCEPT ![m] =
                   IF m \in expired THEN settleLate(r, bs[b])
                   ELSE [r EXCEPT !.ph = "held"]]
       IN /\ F \subseteq {m, Shared} /\ (m \in ModeA => F \subseteq {m})
          /\ Drains(<<ms, bs>>, b)
  /\ UNCHANGED <<expired, disposed>>

OwnStopped(b, out) ==
  /\ batch[b].step = "own"
  /\ \E m \in batch[b].cur :
       /\ out \in {"error", "slot-busy"} \/ (out = "aborted" /\ (m \in expired \/ disposed))
       /\ Drains(<<SettleAll(mem, {m}, out), [batch EXCEPT ![b].cur = {}]>>, b)
  /\ UNCHANGED <<expired, disposed>>

\* deriveSharedRecheck: the members a shared recheck may leave to rechecks of
\* their own; a member rechecked alone takes its recheck whole.
SplitsOf(cur) == IF Cardinality(cur) = 1 THEN {{}} ELSE SUBSET cur

\* A shared recheck ends: those it does not cover (S) are rechecked one by one.
RecheckEnds(b, S) ==
  LET cur == batch[b].cur
      ms == SettleAll(mem, cur \ S, "ran")
      again == LiveIn(ms, S \cup batch[b].split) IN
  /\ batch[b].step = "recheck"
  /\ S \in SplitsOf(cur)
  /\ IF again = {} THEN Drains(<<ms, [batch EXCEPT ![b].cur = {}, ![b].split = {}]>>, b)
     ELSE \E m \in again :
       Become(<<ms, [batch EXCEPT ![b].cur = {m}, ![b].split = again \ {m}]>>, win)
  /\ UNCHANGED <<expired, disposed>>

-----------------------------------------------------------------------------
(* Deadlines, the sweep and dispose.                                         *)

\* A deadline passes: onAbort answers the member by its phase; its own run is
\* ended through its linked deadline instead.
Expire(m) ==
  LET b == {k \in Running(batch) : m \in batch[k].of} IN
  /\ m \notin expired /\ mem[m].ph \notin {"new", "settled"}
  /\ expired' = expired \cup {m}
  /\ win' = win \ {m}
  /\ mem' = [mem EXCEPT ![m] =
       CASE @.ph \in {"window", "run", "own-wait"} -> Settle(@, "aborted")
         [] @.ph \in {"held", "recheck-wait"} -> settleLate(@, batch[Least(b)])
         [] @.ph = "recheck" -> Settle(@, "ran")
         [] @.ph \in {"planning", "own-run"} -> @]
  /\ UNCHANGED <<batch, disposed>>

evict(b) == [batch EXCEPT ![b].step = "evicted"]

\* sweep(): a batch whose members are all answered and whose seam never
\* returns is evicted.
Evict(b) ==
  /\ b \in Running(batch) /\ Live(mem, b) = {}
  /\ Finish(<<mem, evict(b)>>, win, Planning)
  /\ UNCHANGED <<expired, disposed>>

\* dispose(): windows and batches answer everyone.
Dispose ==
  /\ ~disposed /\ disposed' = TRUE
  /\ mem' = SettleAll(mem, win \cup UNION {batch[b].of : b \in Running(batch)}, "aborted")
  /\ win' = {}
  /\ UNCHANGED <<expired, batch>>

Init ==
  /\ mem = [m \in Members |-> NewMember]
  /\ batch = [m \in Members |-> NoBatch]
  /\ expired = {} /\ win = {} /\ disposed = FALSE

BatchStep(b) ==
  \/ Dissolves(b) \/ PoolAdvances(b) \/ PoolAborted(b)
  \/ \E U \in SUBSET (batch[b].of \cup {Shared}) :
       UnionNotComparable(b, U) \/ \E A \in SUBSET batch[b].of : UnionRan(b, U, A)
  \/ \E out \in {"aborted", "slot-busy", "error"} : UnionStopped(b, out) \/ OwnStopped(b, out)
  \/ \E F \in SUBSET Ids : OwnRan(b, F)
  \/ \E S \in SplitsOf(batch[b].cur) : RecheckEnds(b, S)

PlanStep(m) == Join(m) \/ \E out \in {"no-affected", "unverifiable", "error"} : PlanAnswers(m, out)

Next ==
  \/ \E m \in Members : Submit(m) \/ PlanStep(m) \/ Expire(m)
  \/ \E b \in Members : BatchStep(b) \/ Evict(b)
  \/ CloseWindow \/ Dispose

Spec == Init /\ [][Next]_vars

-----------------------------------------------------------------------------
(* Properties.                                                               *)

\* A batched run never makes a failure disappear: a member answered without a
\* taint from a pool leaves no failure of the union run that no request's own
\* run or inputs reproduced (attribute, advance, settleLate).
NoUnexplainedGreen ==
  \A b \in Members : batch[b].step = "ended" /\ ~disposed =>
    \/ outstanding(batch[b]) = {}
    \/ \A m \in batch[b].of : mem[m].out = "ran" => mem[m].taint \/ mem[m].ph # "settled"

\* Only a member's own deadline, or the end of the plugin, cuts it short: the
\* timeout of a member it was pooled with never does (createBatchDeadline).
AbortIsOwn ==
  \A m \in Members : mem[m].out = "aborted" => m \in expired \/ disposed

\* Every member that waits is in exactly the place that will wake it: the
\* window, or one running batch.
NobodyOrphaned ==
  \A m \in Members :
    /\ mem[m].ph = "window" <=> m \in win
    /\ mem[m].ph \notin {"new", "planning", "window", "settled"} =>
         Cardinality({b \in Running(batch) : m \in batch[b].of}) = 1

=============================================================================
