------------------------------ MODULE FileLock ------------------------------
(***************************************************************************)
(* withLock of src/routing/file-lock.ts: the best-effort lock file that    *)
(* guards outcomes.json and the cost doctor's notice state.  A caller      *)
(* creates the file exclusively, or judges it stale by its mtime, moves it *)
(* to a grave of its own, looks again, and either puts it back or deletes  *)
(* it.  Every file-system call is a step; steps of different callers       *)
(* interleave.                                                             *)
(***************************************************************************)
EXTENDS Naturals, FiniteSets

CONSTANTS
  Procs,        \* the callers, each in a process of its own
  Nobody,       \* the process of an earlier session
  MaxFiles,     \* lock files each caller may create in a behaviour
  Troubles,     \* the file-system calls that may fail
  MaxMishaps,   \* how many of them fail in a behaviour
  CanCrash      \* the callers that may die between two steps

VARIABLES
  lock,      \* the file at lockPath
  grave,     \* the file each caller has moved to its own grave path
  pc,        \* where each caller's withLock is
  tries,     \* its loop counter `attempt`
  made,      \* how many lock files it has created
  mishaps,   \* failures so far
  misplaced  \* history: a live lock that was moved by mistake came back too late, or never

vars == <<lock, grave, pc, tries, made, mishaps, misplaced>>

Attempts == 3

\* A lock file is told apart by its creator; `fresh` says that its mtime is
\* less than staleMs old.
File == [by : Procs \cup {Nobody}, fresh : BOOLEAN]
NoFile == [by |-> Nobody, fresh |-> TRUE]
Leftover == [by |-> Nobody, fresh |-> FALSE]

holders == {p \in Procs : pc[p] \in {"run", "release"}}

\* A crash of an earlier session may have left a stale lock behind.
Init ==
  /\ lock \in {NoFile, Leftover}
  /\ grave = [p \in Procs |-> NoFile]
  /\ pc = [p \in Procs |-> "idle"]
  /\ tries = [p \in Procs |-> 0]
  /\ made = [p \in Procs |-> 0]
  /\ mishaps = 0
  /\ misplaced = FALSE

Goto(p, next) == pc' = [pc EXCEPT ![p] = next]

\* The next turn of the for loop, or "busy" after the last one.
TryAgain(p) ==
  IF tries[p] + 1 < Attempts
  THEN Goto(p, "create") /\ tries' = [tries EXCEPT ![p] = @ + 1]
  ELSE Goto(p, "idle") /\ UNCHANGED tries

Trouble(t) == t \in Troubles /\ mishaps < MaxMishaps /\ mishaps' = mishaps + 1

Call(p) ==
  /\ pc[p] = "idle"
  /\ made[p] < MaxFiles[p]
  /\ Goto(p, "create")
  /\ tries' = [tries EXCEPT ![p] = 0]
  /\ UNCHANGED <<lock, grave, made, mishaps, misplaced>>

\* A lock file moved away by mistake: nothing is at the path although its lease runs.
LiveInGrave == \E q \in Procs : grave[q] # NoFile /\ grave[q].fresh

\* Mutated form: the file is not created exclusively.
CreateAnyway(p) ==
  /\ pc[p] = "create"
  /\ made[p] < MaxFiles[p]
  /\ made' = [made EXCEPT ![p] = @ + 1]
  /\ lock' = [by |-> p, fresh |-> TRUE]
  /\ Goto(p, "run")
  /\ misplaced' = (misplaced \/ LiveInGrave)
  /\ UNCHANGED <<grave, tries, mishaps>>

\* createExclusive (open with "wx"): the caller holds the lock.
Create(p) ==
  /\ pc[p] = "create"
  /\ lock = NoFile
  /\ made' = [made EXCEPT ![p] = @ + 1]
  /\ lock' = [by |-> p, fresh |-> TRUE]
  /\ Goto(p, "run")
  /\ misplaced' = (misplaced \/ LiveInGrave)
  /\ UNCHANGED <<grave, tries, mishaps>>

\* The file was created but its content could not be written: the error
\* propagates and the file stays behind.
CreateFails(p) ==
  /\ pc[p] = "create"
  /\ lock = NoFile
  /\ Trouble("create")
  /\ made' = [made EXCEPT ![p] = @ + 1]
  /\ lock' = [by |-> p, fresh |-> TRUE]
  /\ Goto(p, "idle")
  /\ UNCHANGED <<grave, tries, misplaced>>

Exists(p) ==
  /\ pc[p] = "create"
  /\ lock # NoFile
  /\ Goto(p, "stat")
  /\ UNCHANGED <<lock, grave, tries, made, mishaps, misplaced>>

\* Mutated form: any lock file found in the way counts as held.
StatAlwaysBusy(p) ==
  /\ pc[p] = "stat"
  /\ IF lock = NoFile THEN TryAgain(p) ELSE Goto(p, "idle") /\ UNCHANGED tries
  /\ UNCHANGED <<lock, grave, made, mishaps, misplaced>>

\* stat(lockPath): released meanwhile, busy, or stale.
Stat(p) ==
  /\ pc[p] = "stat"
  /\ IF lock = NoFile THEN TryAgain(p)
     ELSE Goto(p, IF lock.fresh THEN "idle" ELSE "rename") /\ UNCHANGED tries
  /\ UNCHANGED <<lock, grave, made, mishaps, misplaced>>

\* rename(lockPath, grave): whatever is at the path by now.  ENOENT: another
\* caller moved it first.
Rename(p) ==
  /\ pc[p] = "rename"
  /\ IF lock = NoFile
     THEN TryAgain(p) /\ UNCHANGED <<lock, grave>>
     ELSE /\ grave' = [grave EXCEPT ![p] = lock]
          /\ lock' = NoFile
          /\ Goto(p, "statGrave")
          /\ UNCHANGED tries
  /\ UNCHANGED <<made, mishaps, misplaced>>

\* Any other error of that rename propagates to the caller.
RenameFails(p) ==
  /\ pc[p] = "rename"
  /\ Trouble("rename")
  /\ Goto(p, "idle")
  /\ UNCHANGED <<lock, grave, tries, made, misplaced>>

\* stat(grave): a fresh file is a live lock moved by mistake.
StatGrave(p) ==
  /\ pc[p] = "statGrave"
  /\ Goto(p, IF grave[p].fresh THEN "putBack" ELSE "drop")
  /\ UNCHANGED <<lock, grave, tries, made, mishaps, misplaced>>

\* rename(grave, lockPath) replaces whatever is at the path, then "busy".
PutBack(p) ==
  /\ pc[p] = "putBack"
  /\ lock' = grave[p]
  /\ grave' = [grave EXCEPT ![p] = NoFile]
  /\ Goto(p, "idle")
  /\ UNCHANGED <<tries, made, mishaps, misplaced>>

\* The put-back failed: logged, and "busy" all the same.
PutBackFails(p) ==
  /\ pc[p] = "putBack"
  /\ Trouble("putBack")
  /\ misplaced' = TRUE
  /\ grave' = [grave EXCEPT ![p] = NoFile]
  /\ Goto(p, "idle")
  /\ UNCHANGED <<lock, tries, made>>

\* unlink(grave), whether it succeeds or is only logged: the grave's name is
\* unique, nobody reads it again.
DropGrave(p) ==
  /\ pc[p] = "drop"
  /\ grave' = [grave EXCEPT ![p] = NoFile]
  /\ TryAgain(p)
  /\ UNCHANGED <<lock, made, mishaps, misplaced>>

\* run() resolves or rejects.
EndRun(p) ==
  /\ pc[p] = "run"
  /\ Goto(p, "release")
  /\ UNCHANGED <<lock, grave, tries, made, mishaps, misplaced>>

\* finally: unlink(lockPath), whosever file is there; ENOENT is logged.
Release(p) ==
  /\ pc[p] = "release"
  /\ lock' = NoFile
  /\ Goto(p, "idle")
  /\ UNCHANGED <<grave, tries, made, mishaps, misplaced>>

\* The unlink failed (logged): the file stays until it is stale.
ReleaseFails(p) ==
  /\ pc[p] = "release"
  /\ Trouble("unlink")
  /\ Goto(p, "idle")
  /\ UNCHANGED <<lock, grave, tries, made, misplaced>>

\* The process dies; its lock file and its grave stay.
Crash(p) ==
  /\ p \in CanCrash
  /\ pc[p] # "dead"
  /\ Goto(p, "dead")
  /\ UNCHANGED <<lock, grave, tries, made, mishaps, misplaced>>

\* staleMs pass without the file being written again.  A caller that is not
\* suspended finishes run() before that, so the file of a holder stays fresh;
\* nor does a caller take that long to recover a lock it judged stale or to
\* release its own.
TimePasses ==
  /\ lock # NoFile /\ lock.fresh /\ lock.by \notin holders
  /\ \A p \in Procs : pc[p] \in {"idle", "create", "stat", "run", "dead"}
  /\ lock' = [lock EXCEPT !.fresh = FALSE]
  /\ UNCHANGED <<grave, pc, tries, made, mishaps, misplaced>>

Steps(p) ==
  \/ Call(p) \/ Create(p) \/ Exists(p) \/ Stat(p) \/ Rename(p) \/ StatGrave(p)
  \/ PutBack(p) \/ DropGrave(p) \/ EndRun(p) \/ Release(p)

Failures(p) ==
  \/ CreateFails(p) \/ RenameFails(p) \/ PutBackFails(p) \/ ReleaseFails(p)
  \/ Crash(p)

Next == (\E p \in Procs : Steps(p) \/ Failures(p)) \/ TimePasses

\* Callers keep running and retrying.  Time goes on however often a recovery
\* holds TimePasses up: strong fairness.
Fairness == (\A p \in Procs : WF_vars(Steps(p))) /\ SF_vars(TimePasses)

Spec == Init /\ [][Next]_vars
FairSpec == Spec /\ Fairness

-----------------------------------------------------------------------------
PC == {"idle", "create", "stat", "rename", "statGrave", "putBack", "drop",
       "run", "release", "dead"}

TypeOK ==
  /\ lock \in File
  /\ grave \in [Procs -> File]
  /\ pc \in [Procs -> PC]
  /\ tries \in [Procs -> 0..Attempts - 1]
  /\ \A p \in Procs : made[p] \in 0..MaxFiles[p]
  /\ mishaps \in 0..MaxMishaps /\ misplaced \in BOOLEAN

\* The lock is a semaphore of one slot, whatever fails or dies, until a
\* recovery that moved a live lock away does not bring it back before another
\* caller makes its own: from then on two callers may run at once.
Guarded == IF misplaced THEN {} ELSE holders
Abstract == INSTANCE Semaphore WITH Callers <- Procs, MaxSlots <- 1, holders <- Guarded
ImplementsSemaphore == Abstract!Spec

\* A lock left behind by a crash, a failed write or a failed unlink is
\* recovered: a caller that keeps calling runs in the end.
EveryCallerRuns ==
  \A p \in Procs : <>(pc[p] \in {"run", "dead"} \/ made[p] = MaxFiles[p])

=============================================================================
