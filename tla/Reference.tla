------------------------------ MODULE Reference ------------------------------
(***************************************************************************)
(* Dispatches over one repository: what is captured when they begin, what  *)
(* is attributed to them when they end, and the reference worktrees their  *)
(* failures are rerun in.  verify/dispatch.ts keeps the dispatches,        *)
(* verify/tree.ts and verify/reference.ts read the repository, the flights *)
(* of verify/wiring.ts share those reads between dispatches, and the       *)
(* worktrees live in the temp directory next to those of other processes,  *)
(* where a garbage collection removes what is left over.                   *)
(*                                                                         *)
(* Sessions are the orchestrator (0) and the producer of each dispatch.  A *)
(* session changes the tree inside tool calls, which the hooks announce    *)
(* before and after.  Directory k > 0 is the worktree of dispatch k in     *)
(* this process; directory 0 was left by another process.                  *)
(***************************************************************************)
EXTENDS Trees

CONSTANTS
  Dispatches,   \* their numbers, from 1
  Work,         \* the content each session writes
  Scenarios     \* [start, left, collects, who, captures, writes]: the
                \* repository and directory 0 at first, whether a collection
                \* runs (dispatches then start where their reference is
                \* wanted), the dispatches that begin, those judged by tests,
                \* which need a reference, and how often each session changes
                \* the tree

ASSUME DispatchesAssumption == Dispatches \subseteq Nat \ {0}

\* The files have a content at first, and directory 0 is one a process can leave: only an
\* entry of git's list is locked, one of another repository is not in it, and what a
\* collection has to leave alone is there.
ASSUME ReferenceAssumption ==
  \A sc \in Scenarios :
    /\ sc.start = [head |-> [f \in Files |-> sc.start.head[f]], tree |-> [f \in Files |-> sc.start.tree[f]]]
    /\ sc.left \in [exists : BOOLEAN, reg : BOOLEAN, lock : {"none", "init", "own", "user"},
                    links : BOOLEAN, fresh : BOOLEAN, foreign : BOOLEAN]
    /\ sc.left.lock # "none" => sc.left.reg
    /\ sc.left.reg => ~sc.left.foreign
    /\ sc.left.foreign \/ sc.left.lock = "user" => sc.left.exists

VARIABLES
  g,        \* the repository
  writer,   \* per file: the session that changed it last, or -1
  calls,    \* per session: [kind, file, left]: its open tool call
  ds,       \* per dispatch: its record
  during,   \* history: <<s, d>> when dispatch d began during the open call of s
  lanes,    \* the shared flights: per lane its running and its next one
  dirs,     \* the worktree directories
  mats,     \* per dispatch: the materialization of its reference
  gc,       \* the garbage collection
  alive     \* whether this process is

rvars == <<g, writer, calls, ds, during, lanes, dirs, mats, gc, alive>>

Sessions == {0} \cup Dispatches
Dirs == {0} \cup Dispatches

-----------------------------------------------------------------------------
(* Shared flights (createSharedFlight).                                    *)

NoFlight == [on |-> FALSE, phase |-> 0, snap |-> NoSnapshot, ref |-> NoReference, torn |-> FALSE, sharers |-> {}]
NewFlight(d) == [NoFlight EXCEPT !.on = TRUE, !.sharers = {d}]
NoLane == [running |-> NoFlight, next |-> NoFlight]

\* Mutated form: a request is served by a flight that is already running.
JoinRunning(lane, d) ==
  IF lane.running.on THEN [lane EXCEPT !.running.sharers = @ \cup {d}] ELSE [lane EXCEPT !.running = NewFlight(d)]
\* A request is served by a flight that starts after it: the one that waits,
\* a new one that waits for the running one, or one that starts now.
Join(lane, d) ==
  CASE lane.next.on -> [lane EXCEPT !.next.sharers = @ \cup {d}]
    [] ~lane.next.on /\ lane.running.on -> [lane EXCEPT !.next = NewFlight(d)]
    [] OTHER -> [lane EXCEPT !.running = NewFlight(d)]

Advance(lane) == [running |-> lane.next, next |-> NoFlight]

\* A sharer leaves; a flight without sharers is abandoned.
LeaveFlight(lane, d) ==
  CASE lane.running.sharers = {d} -> Advance(lane)
    [] lane.next.sharers = {d} -> [lane EXCEPT !.next = NoFlight]
    [] OTHER -> [lane EXCEPT !.running.sharers = @ \ {d}, !.next.sharers = @ \ {d}]

Snap == <<"snap", {}>>
Cap == <<"cap", {}>>
\* Gate snapshots are shared by the dispatches whose baselines cover the same
\* paths when they ask.
LaneKeys == {Snap, Cap, <<"all", {}>>} \cup ({"gate"} \X SUBSET Files)
GateKey(d) == IF ds[d].snap.ok THEN <<"gate", DOMAIN ds[d].snap.digests.of>> ELSE <<"all", {}>>

-----------------------------------------------------------------------------
NoDispatch ==
  [st |-> "none", tests |-> FALSE, snapPending |-> FALSE, snapBad |-> FALSE, capPending |-> FALSE, capBad |-> FALSE,
   snap |-> NoSnapshot, ref |-> NoReference, observed |-> {},
   start |-> Nowhere, touched |-> {}, due |-> {}, asked |-> FALSE, gateKey |-> Snap,
   now |-> NoSnapshot, torn |-> FALSE, result |-> [files |-> {}, available |-> FALSE]]
NoDir == [exists |-> FALSE, reg |-> FALSE, lock |-> "none", links |-> FALSE, fresh |-> TRUE, foreign |-> FALSE]
NoMat == [st |-> "none", ref |-> NoReference, content |-> Nowhere, lost |-> {}, exact |-> FALSE, released |-> FALSE]
Wanted(r) == [NoMat EXCEPT !.st = IF r.ok THEN "wanted" ELSE "gone", !.ref = r]
NoGc == [phase |-> "off", by |-> "none", list |-> <<>>, todo |-> {}, at |-> -1, step |-> "none",
         git |-> FALSE, ok |-> TRUE, due |-> {}]

RefInit ==
  /\ \E sc \in Scenarios :
       /\ g = sc.start
       /\ calls = [s \in Sessions |-> [kind |-> "idle", file |-> "none", left |-> sc.writes[s]]]
       /\ dirs = [k \in Dirs |-> IF k = 0 THEN sc.left ELSE NoDir]
       /\ gc = [NoGc EXCEPT !.phase = IF sc.collects THEN "off" ELSE "done"]
       /\ ds = [d \in Dispatches |-> [NoDispatch EXCEPT !.start = IF sc.collects THEN g.tree ELSE Nowhere,
                 !.tests = d \in sc.captures,
                 !.st = IF d \notin sc.who THEN "over" ELSE IF sc.collects THEN "prepared" ELSE "none"]]
       /\ mats = [d \in Dispatches |-> IF sc.collects /\ d \in sc.who THEN Wanted(captureUntracked(captureStash(g), g)) ELSE NoMat]
  /\ writer = [f \in Files |-> -1]
  /\ lanes = [k \in LaneKeys |-> NoLane]
  /\ during = {}
  /\ alive = TRUE

Open(d) == ds[d].st \notin {"none", "over"}

-----------------------------------------------------------------------------
(* A dispatch begins.                                                      *)

\* beginDispatch: the fingerprint and, when tests will judge it, the reference
\* are read in the background; the producer may start before they are done
\* (boundedCaptureWait).
Begin(d) ==
  /\ alive /\ ds[d].st = "none"
  /\ ds' = [ds EXCEPT ![d].st = "working", ![d].snapPending = TRUE,
                      ![d].capPending = ds[d].tests, ![d].start = g.tree]
  /\ lanes' = [lanes EXCEPT ![Snap] = Join(@, d), ![Cap] = IF ds[d].tests THEN Join(@, d) ELSE @]
  /\ during' = during \cup {<<s, d>> : s \in {x \in Sessions : calls[x].kind # "idle"}}
  /\ UNCHANGED <<g, writer, calls, dirs, mats, gc, alive>>

\* The fingerprint of d is done; s is NoSnapshot when it failed.
SnapDone(r, s) ==
  [r EXCEPT !.snapPending = FALSE, !.snap = IF s.ok /\ ~r.snapBad THEN s ELSE NoSnapshot]
CapDone(r, c) == [r EXCEPT !.capPending = FALSE, !.ref = c]
GateDone(r, s, torn) == [r EXCEPT !.st = "judged", !.now = s, !.torn = torn]

\* A flight ends: everybody who shares it gets what it read.
Settle(k, flight, s, c) ==
  /\ ds' = [d \in Dispatches |->
              IF d \notin flight.sharers THEN ds[d]
              ELSE CASE k = Snap -> SnapDone(ds[d], s)
                     [] k = Cap -> CapDone(ds[d], c)
                     [] OTHER -> GateDone(ds[d], s, flight.torn)]
  /\ lanes' = [lanes EXCEPT ![k] = Advance(@)]

\* One read of the running flight of lane k.
Read(k) ==
  LET flight == lanes[k].running
      paths == IF k[1] = "gate" THEN k[2] ELSE flight.snap.files
      step(fl) == lanes' = [lanes EXCEPT ![k].running = fl] /\ UNCHANGED ds
  IN /\ alive /\ flight.on
     /\ CASE k = Cap /\ flight.phase = 0 ->
               step([flight EXCEPT !.phase = 1, !.ref = captureStash(g), !.snap = snapshotHead(g)])
          [] k = Cap /\ flight.phase = 1 ->
               step([flight EXCEPT !.phase = 2, !.ref = captureTracked(@, flight.snap.head, g)])
          [] k = Cap /\ flight.phase = 2 -> Settle(k, flight, NoSnapshot, captureUntracked(flight.ref, g))
          [] k # Cap /\ flight.phase = 0 -> step([flight EXCEPT !.phase = 1, !.snap = snapshotHead(g)])
          [] k # Cap /\ flight.phase = 1 ->
               step([flight EXCEPT !.phase = 2, !.snap = snapshotStatus(@, g), !.torn = @ \/ flight.snap.head # g.head])
          [] OTHER -> Settle(k, flight, snapshotDigests(flight.snap, g, paths), NoReference)
     /\ UNCHANGED <<g, writer, calls, dirs, mats, gc, alive, during>>

\* A git command fails: everybody gets nothing.
ReadFails(k) ==
  /\ alive /\ lanes[k].running.on
  /\ Settle(k, lanes[k].running, NoSnapshot, NoReference)
  /\ UNCHANGED <<g, writer, calls, dirs, mats, gc, alive, during>>

\* A dispatch's own time for a capture runs out: it alone leaves the flight.
CaptureTimesOut(d, k) ==
  /\ alive
  /\ \/ k = Snap /\ ds[d].snapPending /\ ds' = [ds EXCEPT ![d] = SnapDone(@, NoSnapshot)]
     \/ k = Cap /\ ds[d].capPending /\ ds' = [ds EXCEPT ![d] = CapDone(@, NoReference)]
     \/ ds[d].st = "gate" /\ k = ds[d].gateKey /\ ds' = [ds EXCEPT ![d] = GateDone(@, NoSnapshot, FALSE)]
  /\ lanes' = [lanes EXCEPT ![k] = LeaveFlight(@, d)]
  /\ UNCHANGED <<g, writer, calls, dirs, mats, gc, alive, during>>

-----------------------------------------------------------------------------
(* Tool calls.                                                             *)

\* Mutated form: only the fingerprint is contaminated.
ContaminatesSnap(r) == [r EXCEPT !.snapBad = @ \/ r.snapPending]
\* observeEdit: a capture in progress is worthless once somebody may edit.
Contaminated(r) ==
  [r EXCEPT !.snapBad = @ \/ r.snapPending, !.capBad = @ \/ r.capPending, !.capPending = FALSE]
\* Their captures leave the flight.
LeaveAll(lane) ==
  LET out == {d \in Dispatches : ds[d].capPending /\ Contaminated(ds[d]).capBad}
      run == [lane.running EXCEPT !.sharers = @ \ out]
      nxt == [lane.next EXCEPT !.sharers = @ \ out]
      next == IF nxt.on /\ nxt.sharers # {} THEN nxt ELSE NoFlight
  IN IF run.on /\ run.sharers # {} THEN [running |-> run, next |-> next] ELSE [running |-> next, next |-> NoFlight]
observeEdit ==
  /\ ds' = [d \in Dispatches |-> Contaminated(ds[d])]
  /\ lanes' = [lanes EXCEPT ![Cap] = LeaveAll(@)]

MayCall(s) == s \in {0} \cup {d \in Dispatches : ds[d].st = "working"}

\* Before a tool call: every dispatch over this tree is contaminated.
BeforeCall(s) ==
  /\ alive /\ MayCall(s) /\ calls[s].kind = "idle" /\ calls[s].left > 0
  /\ \E kind \in {"edit", "bash"} : calls' = [calls EXCEPT ![s].kind = kind]
  /\ observeEdit
  /\ UNCHANGED <<g, writer, dirs, mats, gc, alive, during>>

\* touched, a history: what a call that was running when a dispatch began changes under its
\* captures.  Nothing announces such a call to the dispatch before it is over.
Exposed(s, d) == <<s, d>> \in during /\ (ds[d].snapPending \/ ds[d].capPending)
Touched(s, F) == [d \in Dispatches |-> IF Exposed(s, d) THEN [ds[d] EXCEPT !.touched = @ \cup F] ELSE ds[d]]

\* The tool at work (external): it writes a file, deletes it or restores it
\* from HEAD, or commits.
Change(s, f, c) ==
  /\ alive /\ calls[s].kind # "idle" /\ calls[s].left > 0
  /\ calls[s].kind = "edit" => c = Work[s]
  /\ c # g.tree[f]
  /\ g' = [g EXCEPT !.tree[f] = c]
  /\ writer' = [writer EXCEPT ![f] = s]
  /\ calls' = [calls EXCEPT ![s].left = @ - 1, ![s].file = IF calls[s].kind = "edit" THEN f ELSE "none"]
  /\ ds' = Touched(s, {f})
  /\ UNCHANGED <<lanes, dirs, mats, gc, alive, during>>
Commit(s) ==
  /\ alive /\ calls[s].kind = "bash" /\ calls[s].left > 0 /\ g.tree # g.head
  /\ g' = [g EXCEPT !.head = g.tree]
  /\ calls' = [calls EXCEPT ![s].left = @ - 1]
  /\ ds' = Touched(s, Listed(g))
  /\ UNCHANGED <<writer, lanes, dirs, mats, gc, alive, during>>

\* After a tool call (record): an edit's file is remembered for its session.
AfterCall(s) ==
  /\ alive /\ calls[s].kind # "idle"
  /\ LET seen == IF calls[s].file = "none" THEN {} ELSE {calls[s].file}
         edited(d) == IF d = s THEN seen ELSE {}
     IN ds' = [d \in Dispatches |-> [Contaminated(ds[d]) EXCEPT !.observed = @ \cup edited(d)]]
  /\ lanes' = [lanes EXCEPT ![Cap] = LeaveAll(@)]
  /\ calls' = [calls EXCEPT ![s].kind = "idle", ![s].file = "none"]
  /\ during' = {p \in during : p[1] # s}
  /\ UNCHANGED <<g, writer, dirs, mats, gc, alive>>

-----------------------------------------------------------------------------
(* The gate asks what a dispatch changed (observeChange).                  *)

Ask(d) ==
  /\ alive /\ ds[d].st = "working" /\ calls[d].kind = "idle"
  /\ ds' = [ds EXCEPT ![d].st = "gate", ![d].gateKey = GateKey(d), ![d].asked = TRUE,
                      ![d].due = {f \in Files : writer[f] = d /\ g.tree[f] # ds[d].start[f]}]
  /\ lanes' = [lanes EXCEPT ![GateKey(d)] = Join(@, d)]
  /\ UNCHANGED <<g, writer, calls, dirs, mats, gc, alive, during>>

\* The commits since, the delta, and the reference: the gate waits for one
\* that is still pending unless its own time is short.
Prepare(d) ==
  /\ alive /\ ds[d].st = "judged"
  /\ \E diffRuns, waits \in BOOLEAN :
       /\ waits => ~ds[d].capPending
       /\ ds' = [ds EXCEPT ![d].st = "prepared",
                   ![d].result = delta(ds[d].snap, ds[d].observed, ds[d].now,
                                       committedSinceDispatch(ds[d].snap, ds[d].now, g, diffRuns))]
       /\ mats' = [mats EXCEPT ![d] = Wanted(IF waits THEN ds[d].ref ELSE NoReference)]
  /\ UNCHANGED <<g, writer, calls, lanes, dirs, gc, alive, during>>

\* The store forgets a dispatch (clear after the gate, or sweep when its
\* session was idle too long): its captures are aborted.
Evict(d) ==
  /\ alive /\ Open(d)
  /\ \/ ds[d].snapPending /\ ~ds[d].snapBad
     \/ ds[d].capPending \/ ds[d].snap.ok \/ ds[d].ref.ok
  /\ ds[d].st \in {"working", "prepared"}
  /\ ds' = [ds EXCEPT ![d].snapBad = TRUE, ![d].capPending = FALSE, ![d].snap = NoSnapshot, ![d].ref = NoReference]
  /\ lanes' = [lanes EXCEPT ![Cap] = IF ds[d].capPending THEN LeaveFlight(@, d) ELSE @]
  /\ UNCHANGED <<g, writer, calls, dirs, mats, gc, alive, during>>

-----------------------------------------------------------------------------
(* The reference is materialized as a detached worktree.                   *)

InUse == {"made", "adding", "added", "copied", "linked", "ready"}

MakeDir(d) ==
  /\ alive /\ mats[d].st = "wanted"
  /\ \/ mats' = [mats EXCEPT ![d].st = "made"] /\ dirs' = [dirs EXCEPT ![d].exists = TRUE]
     \/ mats' = [mats EXCEPT ![d].st = "gone"] /\ UNCHANGED dirs
  /\ UNCHANGED <<g, writer, calls, ds, lanes, gc, alive, during>>

\* git worktree add: registered and locked as "initializing" at first, with
\* the lock of this module (or none, on an old git) when it is done.
AddWorktree(d) ==
  /\ alive
  /\ \/ /\ mats[d].st = "made" /\ mats' = [mats EXCEPT ![d].st = "adding"]
        /\ dirs' = [dirs EXCEPT ![d].reg = TRUE, ![d].lock = "init"]
     \/ /\ mats[d].st = "adding" /\ mats' = [mats EXCEPT ![d].st = "added"]
        /\ \E lock \in {"own", "none"} : dirs' = [dirs EXCEPT ![d].lock = lock]
  /\ UNCHANGED <<g, writer, calls, ds, lanes, gc, alive, during>>

\* The untracked files are copied, those that are still what they were.
CopyUntracked(d) ==
  /\ alive /\ mats[d].st = "added"
  /\ mats' = [mats EXCEPT ![d].st = "copied", ![d].content = Content(mats[d].ref, g), ![d].lost = Lost(mats[d].ref, g)]
  /\ UNCHANGED <<g, writer, calls, ds, lanes, dirs, gc, alive, during>>

\* The links to the live node_modules.
LinkModules(d) ==
  /\ alive /\ mats[d].st = "copied"
  /\ mats' = [mats EXCEPT ![d].st = "linked"] /\ dirs' = [dirs EXCEPT ![d].links = TRUE]
  /\ UNCHANGED <<g, writer, calls, ds, lanes, gc, alive, during>>

\* A reference is exact when nothing was found that makes it differ.
Exact(r, lost, repo) ==
  lost = {} /\ Converted(r) = {} /\ Drifted(r, repo, lost) \cap DependencyFiles = {}
CheckDrift(d) ==
  /\ alive /\ mats[d].st = "linked"
  /\ \E otherReason \in BOOLEAN :
       mats' = [mats EXCEPT ![d].st = "ready", ![d].exact = ~otherReason /\ Exact(mats[d].ref, mats[d].lost, g)]
  /\ UNCHANGED <<g, writer, calls, ds, lanes, dirs, gc, alive, during>>

\* An abort or a failure on the way, or dispose when the rerun is over.
Abandon(d) ==
  /\ alive /\ mats[d].st \in InUse
  /\ mats' = [mats EXCEPT ![d].st = "sweep"]
  /\ UNCHANGED <<g, writer, calls, ds, lanes, dirs, gc, alive, during>>

-----------------------------------------------------------------------------
(* Removal (removeReferenceDir): the links first, then the directory, then *)
(* the entry of the worktree, each step giving up when it fails.           *)

StepAfter == [sweep |-> "rm", rm |-> "admin", admin |-> "gone"]
Removed(k, step) ==
  CASE step = "sweep" -> [dirs EXCEPT ![k].links = FALSE]
    [] step = "rm" -> [dirs EXCEPT ![k].exists = FALSE, ![k].links = FALSE]
    [] OTHER -> [dirs EXCEPT ![k].reg = FALSE, ![k].lock = "none"]

\* The owner removes its directory; what it cannot remove it releases to the
\* garbage collection.
RemoveOwn(d) ==
  /\ alive /\ mats[d].st \in DOMAIN StepAfter
  /\ \/ /\ dirs' = Removed(d, mats[d].st)
        /\ mats' = [mats EXCEPT ![d].st = StepAfter[@]]
     \/ mats' = [mats EXCEPT ![d].st = "gone", ![d].released = TRUE] /\ UNCHANGED dirs
  /\ UNCHANGED <<g, writer, calls, ds, lanes, gc, alive, during>>

-----------------------------------------------------------------------------
(* Garbage collection, once per process, some time after it starts.        *)

OwnerAlive(k) == k # 0 /\ alive
Active(k) == k # 0 /\ mats[k].st \in InUse \cup DOMAIN StepAfter
Released(k) == k # 0 /\ mats[k].released
Mine == gc.by = "me"

\* Mutated form: a directory of a process that lives is stale too.
isStaleAlways(k) == ~Mine \/ ~Active(k)
isStale(k) == ~dirs[k].exists \/ (Mine /\ Released(k)) \/ ~OwnerAlive(k) \/ ~dirs[k].fresh

\* Mutated form: the lock git holds while a worktree is made is somebody's.
isOwnLockReasonFinal(lock) == lock = "own"
isOwnLockReason(lock) == lock \in {"init", "own"}

GcList(by) ==
  /\ gc.phase = "off" /\ (by = "me" => alive)
  /\ LET entries == {k \in Dirs : dirs[k].reg}
     IN gc' = [gc EXCEPT !.phase = "entries", !.by = by, !.list = [k \in entries |-> dirs[k].lock], !.todo = entries,
                 !.due = {k \in Dirs : ~OwnerAlive(k) /\ ~dirs[k].foreign /\ dirs[k].lock # "user"
                                        /\ (dirs[k].exists \/ dirs[k].reg)}]
  /\ UNCHANGED <<g, writer, calls, ds, lanes, dirs, mats, alive, during>>

GcMoves == gc.phase \in {"entries", "orphans"} /\ (Mine => alive)

\* A registered worktree: kept when it is locked by somebody else, active, or
\* still initializing under a process that lives.
GcEntry(k) ==
  /\ GcMoves /\ gc.phase = "entries" /\ gc.at = -1 /\ k \in gc.todo
  /\ LET lock == gc.list[k]
         kept == (lock # "none" /\ ~isOwnLockReason(lock)) \/ (Mine /\ Active(k))
         collect == IF lock = "init" THEN (Mine /\ Released(k)) \/ ~OwnerAlive(k) ELSE isStale(k)
     IN gc' = IF ~kept /\ collect
                THEN [gc EXCEPT !.at = k, !.step = "sweep", !.git = TRUE] ELSE [gc EXCEPT !.todo = @ \ {k}]
  /\ UNCHANGED <<g, writer, calls, ds, lanes, dirs, mats, alive, during>>

\* Then the directories of the temp directory that were not registered.
GcScan ==
  /\ GcMoves /\ gc.phase = "entries" /\ gc.todo = {}
  /\ gc' = [gc EXCEPT !.phase = "orphans", !.todo = {k \in Dirs : dirs[k].exists}]
  /\ UNCHANGED <<g, writer, calls, ds, lanes, dirs, mats, alive, during>>

\* One of another repository, by its .git file, is left alone.
GcOrphan(k) ==
  /\ GcMoves /\ gc.phase = "orphans" /\ gc.at = -1 /\ k \in gc.todo
  /\ gc' = IF /\ dirs[k].exists /\ k \notin DOMAIN gc.list /\ ~(Mine /\ Active(k))
              /\ isStale(k) /\ ~dirs[k].foreign
             THEN [gc EXCEPT !.at = k, !.step = "sweep", !.git = FALSE] ELSE [gc EXCEPT !.todo = @ \ {k}]
  /\ UNCHANGED <<g, writer, calls, ds, lanes, dirs, mats, alive, during>>

\* One step of a removal; a lock is undone only when it was ours in the list.
GcRemove ==
  /\ GcMoves /\ gc.at # -1
  /\ LET k == gc.at
         over == (gc.step = "rm" /\ ~gc.git) \/ gc.step = "admin"
         barred == gc.step = "admin" /\ dirs[k].reg /\ dirs[k].lock # "none" /\ ~isOwnLockReason(gc.list[k])
         next == IF over THEN [gc EXCEPT !.todo = @ \ {k}, !.at = -1, !.step = "none"]
                 ELSE [gc EXCEPT !.step = StepAfter[@]]
     IN \/ ~barred /\ dirs' = Removed(k, gc.step) /\ gc' = next
        \/ dirs' = dirs /\ gc' = [gc EXCEPT !.todo = @ \ {k}, !.at = -1, !.step = "none", !.ok = FALSE]
  /\ UNCHANGED <<g, writer, calls, ds, lanes, mats, alive, during>>

\* The end, or an early return when the time for it is spent.
GcDone ==
  /\ GcMoves /\ gc.at = -1
  /\ LET complete == gc.phase = "orphans" /\ gc.todo = {}
     IN gc' = [gc EXCEPT !.phase = "done", !.todo = {}, !.ok = @ /\ complete]
  /\ UNCHANGED <<g, writer, calls, ds, lanes, dirs, mats, alive, during>>

\* No heartbeat reached the directory for an hour.  (This and a crash matter
\* to a collection only.)
AgeDir(k) ==
  /\ gc.phase # "done" /\ dirs[k].exists /\ dirs[k].fresh
  /\ dirs' = [dirs EXCEPT ![k].fresh = FALSE]
  /\ UNCHANGED <<g, writer, calls, ds, lanes, mats, gc, alive, during>>

\* The process dies: its directories stay.
ProcessDies ==
  /\ gc.phase # "done" /\ alive /\ alive' = FALSE
  /\ UNCHANGED <<g, writer, calls, ds, lanes, dirs, mats, gc, during>>

RefNext ==
  \/ \E d \in Dispatches :
       \/ Begin(d) \/ Evict(d) \/ Ask(d) \/ Prepare(d) \/ MakeDir(d) \/ AddWorktree(d) \/ CopyUntracked(d) \/ LinkModules(d)
       \/ CheckDrift(d) \/ Abandon(d) \/ RemoveOwn(d)
       \/ \E k \in LaneKeys : CaptureTimesOut(d, k)
  \/ \E k \in LaneKeys : Read(k) \/ ReadFails(k)
  \/ \E s \in Sessions :
       \/ BeforeCall(s) \/ AfterCall(s) \/ Commit(s)
       \/ \E f \in Files : \E c \in {Work[s], "none", g.head[f]} : Change(s, f, c)
  \/ \E by \in {"me", "other"} : GcList(by)
  \/ \E k \in Dirs : GcEntry(k) \/ GcOrphan(k) \/ AgeDir(k)
  \/ GcScan \/ GcRemove \/ GcDone \/ ProcessDies

RefSpec == RefInit /\ [][RefNext]_rvars

-----------------------------------------------------------------------------
(* The promises.                                                           *)

\* A reference called exact holds what was in the tree when its dispatch began, whoever edits
\* between the reads that make it, except for what a call that was already running when the
\* dispatch began changed meanwhile (captureReference, observeEdit, createSharedFlight and
\* materialize).
ExactIsDispatchTree ==
  \A d \in Dispatches : mats[d].st = "ready" /\ mats[d].exact =>
    \A f \in Files \ ds[d].touched : mats[d].content[f] = ds[d].start[f]

\* When the attribution is available, every file the producer left changed is in it, with the
\* same exception and unless HEAD moved between two reads of the gate's own snapshot
\* (createSharedFlight, snapshotTree, delta).
DeltaComplete ==
  \A d \in Dispatches : ds[d].st = "prepared" /\ ds[d].result.available /\ ~ds[d].torn =>
    {f \in ds[d].due \ ds[d].touched : writer[f] = d} \subseteq ds[d].result.files

\* A directory in use whose heartbeat works keeps what it was given, and one
\* of another repository or locked by somebody else is left alone
\* (gcStaleReferences, removeReferenceDir).
OnlyStaleRemoved ==
  /\ \A d \in Dispatches : alive /\ mats[d].st \in InUse /\ dirs[d].fresh =>
       /\ dirs[d].exists
       /\ mats[d].st \in {"adding", "added", "copied", "linked", "ready"} => dirs[d].reg
       /\ mats[d].st \in {"linked", "ready"} => dirs[d].links
  /\ dirs[0].foreign \/ dirs[0].lock = "user" => dirs[0].exists

\* A collection that met no failure leaves nothing of the processes that were
\* dead when it started, on disk or in git's list (gcStaleReferences).
NothingLeaks ==
  gc.phase = "done" /\ gc.ok => \A k \in gc.due : ~dirs[k].exists /\ ~dirs[k].reg

\* What the gate gets to judge a dispatch by is true of it, however its captures were shared with
\* other dispatches and whoever wrote in the meantime: an exact reference is the tree it began
\* with, and no file its producer left changed is missing from an available list of changed
\* files.  Left out are the files that a call begun before the dispatch changed under its
\* captures (observeEdit sees calls when they begin and end), and a list whose own snapshot saw
\* HEAD move (prepareReference, wiring.ts:297).
ReferenceIsTrue == ExactIsDispatchTree /\ DeltaComplete

\* Garbage collection takes what is stale and nothing else (gcStaleReferences).  The owner of
\* a directory is alive when its process id is (OwnerAlive); that an id names another process
\* by now, which puts the removal off until the directory is old, is left out.
CleanupExact == OnlyStaleRemoved /\ NothingLeaks
=============================================================================
