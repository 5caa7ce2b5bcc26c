----------------------------- MODULE OutcomeSync -----------------------------
(***************************************************************************)
(* How several processes share one outcomes.json: the in-memory store of   *)
(* src/routing/outcomes/store.ts (recordVerdict, recordFalseRefusal,       *)
(* mergeForeign), the persister of persist.ts (load, readForeignWrites,    *)
(* saveSnapshot) and the snapshot transaction of its flusher.  A save      *)
(* writes disk + (memory - baseline).                                      *)
(*                                                                         *)
(* Keys are merged independently of each other, so the model follows one   *)
(* key.  Its entry is its counters; the sample counts of the cost means    *)
(* are merged like `falseRefusals`, which only grows too, and the Beta     *)
(* evidence is a decaying real, not a count.  The transaction runs under   *)
(* outcomes.json.lock, see FileLock for what that lock is worth.           *)
(***************************************************************************)
EXTENDS Integers, FiniteSets

CONSTANTS
  Procs,          \* the processes that share the directory
  Nobody,         \* nobody holds the lock
  MaxAttempts,    \* attempts one process scores in a behaviour
  MaxRefusals,    \* false refusals one process counts
  CanCrash,       \* the processes that may die
  MaxFileMishaps  \* how often something goes wrong with the file

ASSUME SyncAssumption ==
  /\ IsFiniteSet(Procs) /\ Nobody \notin Procs
  /\ MaxAttempts \in Nat /\ MaxRefusals \in Nat /\ MaxFileMishaps \in Nat
  /\ CanCrash \subseteq Procs

AttemptIds == 1..MaxAttempts

VARIABLES
  disk,      \* outcomes.json
  live,      \* the store's entry in each process
  base,      \* the persister's `baseline`
  scored,    \* the store's `scored` map: what each attempt was scored as
  pc,        \* where each process is, in load or in the flush transaction
  snap,      \* the snapshot saveSnapshot is writing
  dirty,     \* store.revision # writtenRevision
  lock,      \* who holds outcomes.json.lock
  mine,      \* history: all that this process has recorded
  inSnap,    \* history: `mine` when the last snapshot was taken
  inFile,    \* history: `mine` when the last saved snapshot was taken
  intact,    \* history: only the plugin has touched the file, and no saved
             \* pass was converted
  fileMishaps

story == <<intact, fileMishaps>>
store == <<live, scored, mine, dirty>>
file == <<disk, lock>>
flush == <<base, snap, inSnap, inFile>>
syncVars == <<store, file, flush, pc, story>>

Counters == {"pass", "fail", "falseRefusals"}
Zero == [c \in Counters |-> 0]
One(c0) == [c \in Counters |-> IF c = c0 THEN 1 ELSE 0]
Converted == [c \in Counters |-> IF c = "pass" THEN -1 ELSE 1]
Add(x, y) == [c \in Counters |-> x[c] + y[c]]
Sub(x, y) == [c \in Counters |-> x[c] - y[c]]
Floor(x) == [c \in Counters |-> IF x[c] < 0 THEN 0 ELSE x[c]]

\* What readText and parseSnapshot make of outcomes.json.
Missing == [state |-> "missing", entry |-> Zero]
Corrupt == [state |-> "corrupt", entry |-> Zero]
Newer == [state |-> "newer", entry |-> Zero]
Holds(e) == [state |-> "ok", entry |-> e]

Verdicts == {"pass", "fail", "unverifiable"}

\* An I/O error, and a foreign hand on the file.
FileTrouble ==
  /\ fileMishaps < MaxFileMishaps
  /\ fileMishaps' = fileMishaps + 1
  /\ UNCHANGED intact
Tampered ==
  /\ fileMishaps < MaxFileMishaps
  /\ fileMishaps' = fileMishaps + 1
  /\ intact' = FALSE
Goes(p, next) == pc' = [pc EXCEPT ![p] = next]

SyncInit ==
  /\ disk = Missing
  /\ live = [p \in Procs |-> Zero]
  /\ base = [p \in Procs |-> Zero]
  /\ scored = [p \in Procs |-> [a \in AttemptIds |-> "none"]]
  /\ pc = [p \in Procs |-> "start"]
  /\ snap = [p \in Procs |-> Zero]
  /\ dirty = [p \in Procs |-> FALSE]
  /\ lock = Nobody
  /\ mine = [p \in Procs |-> Zero]
  /\ inSnap = [p \in Procs |-> Zero]
  /\ inFile = [p \in Procs |-> Zero]
  /\ intact = TRUE
  /\ fileMishaps = 0

-----------------------------------------------------------------------------
(* The store.  Its operations are synchronous and may fall between any two
   steps of the process's load or flush.                                   *)

\* The entry's counters change by d (never below 0) and the revision moves.
Record(p, d) ==
  /\ pc[p] # "dead"
  /\ live' = [live EXCEPT ![p] = Floor(Add(@, d))]
  /\ mine' = [mine EXCEPT ![p] = Add(@, d)]
  /\ dirty' = [dirty EXCEPT ![p] = TRUE]
  /\ UNCHANGED <<file, flush, pc, fileMishaps>>

Score(p, a, kind) == scored' = [scored EXCEPT ![p][a] = kind]

\* recordVerdict of an attempt not scored yet: a second verdict, or one that
\* is neither a pass nor a fail, changes nothing.
RecordVerdict(p, a, verdict) ==
  /\ verdict \in {"pass", "fail"}
  /\ scored[p][a] = "none"
  /\ Record(p, One(verdict))
  /\ UNCHANGED intact
  /\ Score(p, a, verdict)

\* The bound on refusals, not a condition of the code.
MayRefuse(p) == mine[p]["falseRefusals"] < MaxRefusals

\* recordFalseRefusal as the first signal of the attempt, and again after a
\* failure: the lifetime counter only.
RecordRefusal(p, a) ==
  /\ MayRefuse(p)
  /\ scored[p][a] \in {"none", "fail", "refusal"}
  /\ Record(p, One("falseRefusals"))
  /\ UNCHANGED intact
  /\ IF scored[p][a] = "none" THEN Score(p, a, "refusal") ELSE UNCHANGED scored

\* recordFalseRefusal after a pass: the counters move from pass to fail, even
\* if a snapshot holds the pass already.
ConvertPass(p, a) ==
  /\ MayRefuse(p)
  /\ scored[p][a] = "pass"
  /\ Record(p, Converted)
  /\ intact' = (intact /\ mine[p]["pass"] > inSnap[p]["pass"])
  /\ Score(p, a, "refusal")

-----------------------------------------------------------------------------
(* Merging what another process wrote (mergeForeign). *)

\* Mutated form: every file is taken for a later state of the baseline's.
AlwaysDescends(d, b) == TRUE

\* descendsFrom: no counter on disk is lower than in the baseline.
DescendsFrom(d, b) == \A c \in Counters : d[c] >= b[c]

\* An entry of another lineage, or of a first load, is taken whole; of its own
\* lineage, what the other writers added.
absorb(l, d) == Add(l, d)
mergeDescendant(l, d, b) == Floor(Sub(Add(l, d), b))

\* An entry that did not grow is left alone, which is what adding 0 does.
MergeForeign(l, d, b) ==
  IF DescendsFrom(d, b) THEN mergeDescendant(l, d, b) ELSE absorb(l, d)

\* load(): the baseline is what was read, and fromSnapshot(merge) adds it to
\* what was recorded before.
LoadFile(p) ==
  /\ pc[p] = "start"
  /\ disk.state = "ok"
  /\ live' = [live EXCEPT ![p] = absorb(@, disk.entry)]
  /\ base' = [base EXCEPT ![p] = disk.entry]
  /\ dirty' = [dirty EXCEPT ![p] = TRUE]
  /\ Goes(p, "up")
  /\ UNCHANGED <<scored, mine, file, snap, inSnap, inFile, story>>

\* No file yet, or a corrupt one, which is moved aside.
LoadNothing(p) ==
  /\ pc[p] = "start"
  /\ disk.state \in {"missing", "corrupt"}
  /\ disk' = Missing
  /\ Goes(p, "up")
  /\ UNCHANGED <<store, flush, lock, story>>

\* A file of a newer version, or an unreadable one: read-only.
LoadNewer(p) ==
  /\ pc[p] = "start"
  /\ disk.state = "newer"
  /\ Goes(p, "blocked")
  /\ UNCHANGED <<store, file, flush, story>>

LoadFails(p) ==
  /\ pc[p] = "start"
  /\ FileTrouble
  /\ Goes(p, "blocked")
  /\ UNCHANGED <<store, file, flush>>

\* Mutated form: a busy lock does not stop the transaction.
LockFileAnyway(p) ==
  /\ pc[p] = "up"
  /\ dirty[p]
  /\ lock' = p
  /\ Goes(p, "read")
  /\ UNCHANGED <<store, flush, disk, story>>

\* doFlush: there is something to save and the lock is free.  A busy lock
\* leaves everything pending for the next flush.
LockFile(p) ==
  /\ pc[p] = "up"
  /\ dirty[p]
  /\ lock = Nobody
  /\ lock' = p
  /\ Goes(p, "read")
  /\ UNCHANGED <<store, flush, disk, story>>

\* readForeignWrites(true) and mergeForeign.  A missing file is not merged
\* and leaves the baseline alone; a corrupt one is moved aside first.
ReadForeign(p) ==
  /\ pc[p] = "read"
  /\ disk.state # "newer"
  /\ IF disk.state = "ok"
     THEN /\ live' = [live EXCEPT ![p] = MergeForeign(@, disk.entry, base[p])]
          /\ base' = [base EXCEPT ![p] = disk.entry]
          /\ UNCHANGED disk
     ELSE disk' = Missing /\ UNCHANGED <<live, base>>
  /\ Goes(p, "snapshot")
  /\ UNCHANGED <<scored, mine, dirty, lock, snap, inSnap, inFile, story>>

\* The file belongs to a newer version: saveSnapshot refuses (read-only) and
\* snapshotBlocked is set; the lock is given back.
ReadForeignNewer(p) ==
  /\ pc[p] = "read"
  /\ disk.state = "newer"
  /\ Goes(p, "blocked")
  /\ lock' = Nobody
  /\ UNCHANGED <<store, flush, disk, story>>

\* The file cannot be read: "skip", the snapshot stays pending.
ReadForeignFails(p) ==
  /\ pc[p] = "read"
  /\ FileTrouble
  /\ Goes(p, "unlock")
  /\ UNCHANGED <<store, file, flush>>

\* revision = store.revision and store.snapshot() are taken together.
TakeSnapshot(p) ==
  /\ pc[p] = "snapshot"
  /\ snap' = [snap EXCEPT ![p] = live[p]]
  /\ inSnap' = [inSnap EXCEPT ![p] = mine[p]]
  /\ dirty' = [dirty EXCEPT ![p] = FALSE]
  /\ Goes(p, "write")
  /\ UNCHANGED <<live, scored, mine, file, base, inFile, story>>

\* saveSnapshot: the temporary file replaces outcomes.json and becomes the
\* baseline.
SaveSnapshot(p) ==
  /\ pc[p] = "write"
  /\ disk' = Holds(snap[p])
  /\ base' = [base EXCEPT ![p] = snap[p]]
  /\ inFile' = [inFile EXCEPT ![p] = inSnap[p]]
  /\ Goes(p, "unlock")
  /\ UNCHANGED <<store, lock, snap, inSnap, story>>

\* The write or the rename failed: the snapshot stays pending.
SaveSnapshotFails(p) ==
  /\ pc[p] = "write"
  /\ FileTrouble
  /\ dirty' = [dirty EXCEPT ![p] = TRUE]
  /\ Goes(p, "unlock")
  /\ UNCHANGED <<live, scored, mine, file, flush>>

Unlock(p) ==
  /\ pc[p] = "unlock"
  /\ lock' = Nobody
  /\ Goes(p, "up")
  /\ UNCHANGED <<store, flush, disk, story>>

-----------------------------------------------------------------------------
Crash(p) ==
  /\ p \in CanCrash
  /\ pc[p] # "dead"
  /\ Goes(p, "dead")
  /\ UNCHANGED <<store, file, flush, story>>

\* The lock of a dead process grows stale and is taken away (FileLock).
RecoverLock ==
  /\ \E p \in Procs : lock = p /\ pc[p] = "dead"
  /\ lock' = Nobody
  /\ UNCHANGED <<store, flush, disk, pc, story>>

\* The user or a temp cleaner removes the file, something truncates it, or a
\* newer version of the plugin (which takes the lock as well) replaces it.
FileRemoved ==
  /\ disk # Missing
  /\ Tampered
  /\ disk' = Missing
  /\ UNCHANGED <<store, flush, lock, pc>>

FileCorrupted ==
  /\ disk.state = "ok"
  /\ Tampered
  /\ disk' = Corrupt
  /\ UNCHANGED <<store, flush, lock, pc>>

FileUpgraded ==
  /\ lock = Nobody
  /\ Tampered
  /\ disk' = Newer
  /\ UNCHANGED <<store, flush, lock, pc>>

Records(p) ==
  \E a \in AttemptIds :
    \/ \E verdict \in Verdicts : RecordVerdict(p, a, verdict)
    \/ RecordRefusal(p, a)
    \/ ConvertPass(p, a)

\* The steps a running process goes on taking by itself: the flusher re-arms
\* its timer as long as there is work.
Flushes(p) ==
  \/ LoadFile(p) \/ LoadNothing(p) \/ LoadNewer(p)
  \/ LockFile(p) \/ ReadForeign(p) \/ ReadForeignNewer(p)
  \/ TakeSnapshot(p) \/ SaveSnapshot(p) \/ Unlock(p)

Failures(p) == LoadFails(p) \/ ReadForeignFails(p) \/ SaveSnapshotFails(p) \/ Crash(p)

SyncNext ==
  \/ \E p \in Procs : Records(p) \/ Flushes(p) \/ Failures(p)
  \/ RecoverLock \/ FileRemoved \/ FileCorrupted \/ FileUpgraded

SyncSpec == SyncInit /\ [][SyncNext]_syncVars

\* A flush that finds the lock busy is retried every minIntervalMs, while the
\* lock is held for milliseconds: strong fairness of StartFlush.
SyncFairness ==
  /\ \A p \in Procs : WF_syncVars(Flushes(p)) /\ SF_syncVars(LockFile(p))
  /\ WF_syncVars(RecoverLock)

SyncFairSpec == SyncSpec /\ SyncFairness

-----------------------------------------------------------------------------
PC == {"start", "up", "read", "snapshot", "write", "unlock", "blocked", "dead"}
States == {"missing", "ok", "corrupt", "newer"}
NatEntry == [Counters -> Nat]

SyncTypeOK ==
  /\ disk \in [state : States, entry : NatEntry]
  /\ live \in [Procs -> NatEntry]
  /\ base \in [Procs -> NatEntry]
  /\ snap \in [Procs -> NatEntry]
  /\ scored \in [Procs -> [AttemptIds -> {"none", "pass", "fail", "refusal"}]]
  /\ pc \in [Procs -> PC]
  /\ dirty \in [Procs -> BOOLEAN]
  /\ lock \in Procs \cup {Nobody}
  /\ mine \in [Procs -> [Counters -> Int]]
  /\ inSnap \in [Procs -> [Counters -> Int]]
  /\ inFile \in [Procs -> [Counters -> Int]]
  /\ intact \in BOOLEAN
  /\ fileMishaps \in 0..MaxFileMishaps

\* Whatever happens to the file, merging never takes from a process's memory
\* an observation of its own: if outcomes.json is removed, replaced by a fresh
\* process or restored from a backup, the next save still contains it.
MemoryKeepsOwn == \A p \in Procs : \A c \in Counters : live[p][c] >= mine[p][c]

\* While the file is intact, memory is the baseline plus what this process
\* recorded and has not saved.
MemoryIsBasePlusOwn ==
  intact => \A p \in Procs : live[p] = Add(base[p], Sub(mine[p], inFile[p]))

\* "write disk + (memory - baseline), never plain memory over another
\* process's work": a save adds to the file exactly what its process recorded
\* since its last save; nothing of another process is lost or counted twice,
\* as long as the file is intact.
SavesOwn ==
  \A p \in Procs :
    intact /\ pc[p] = "write" /\ pc'[p] = "unlock" /\ disk' # disk =>
      disk'.entry = Add(disk.entry, Sub(inSnap[p], inFile[p]))
SaveAddsOwn == [][SavesOwn]_syncVars

\* Everything recorded reaches the file in the end, whatever fails in between
\* and whoever dies holding the lock.
EventuallySaved ==
  \A p \in Procs :
    <>[](pc[p] \in {"dead", "blocked"} \/ inFile[p] = mine[p])

=============================================================================
