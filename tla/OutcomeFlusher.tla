---------------------------- MODULE OutcomeFlusher ----------------------------
(***************************************************************************)
(* createFlusher of src/routing/outcomes/persist.ts: the coalescing writer *)
(* behind the outcome store of one process.  enqueue and requestFlush arm  *)
(* a throttled timer, flushNow and dispose bypass it; a flush writes the   *)
(* snapshot under the file lock and then the queued decision rows, in      *)
(* batches.  Everything runs on one thread, but the flush awaits, so the   *)
(* calls fall between its steps.                                           *)
(*                                                                         *)
(* How long the timer waits is left out: an armed timer may fire at any    *)
(* time.  What the snapshot transaction does to the file is OutcomeSync.   *)
(***************************************************************************)
EXTENDS Integers, Sequences, FiniteSets, SequencesExt

CONSTANTS
  Requesters,   \* callers of requestFlush
  Callers,      \* callers of flushNow
  Disposer,     \* the caller of dispose
  Flights,      \* names for running flushes
  None,
  MaxRows,      \* rows enqueued in a behaviour
  MaxRevision,  \* store changes and merges in a behaviour
  BatchRows, MaxQueuedRows,
  Troubles,     \* what may fail
  MaxMishaps    \* and how often

ASSUME FlusherAssumption ==
  /\ Disposer \notin Callers
  /\ None \notin Flights
  /\ MaxRows \in Nat /\ MaxRevision \in Nat /\ MaxMishaps \in Nat
  /\ BatchRows \in Nat \ {0} /\ MaxQueuedRows \in Nat \ {0}
  /\ Troubles \subseteq {"timer", "lock", "read", "save", "readOnly", "append", "torn"}

VARIABLES
  revision, written,    \* store.revision and writtenRevision
  saved,                \* history: the revision outcomes.json holds
  snapshotBlocked,
  ready,                \* deps.ready: the snapshot on disk has been merged
  queue, log,           \* queued rows; decisions.jsonl
  enqueued, dropped,    \* history: rows accepted, rows trimmed away
  timer,                \* "off", "armed", or "failed": the last attempt to arm it threw
  inFlight, flight,     \* the current run; each running flush
  waiters, request, asked,  \* requestFlush promises; history: what was pending
  call, disposed,       \* flushNow and dispose promises
  mishaps

rows == <<queue, log, enqueued, dropped>>
snapshot == <<revision, written, saved, snapshotBlocked, ready>>
promises == <<waiters, request, asked, call>>
running == <<timer, inFlight, flight>>
vars == <<rows, snapshot, promises, running, disposed, mishaps>>

Armed == timer = "armed"
AllCallers == Callers \cup {Disposer}
Run(pc, ws) == [pc |-> pc, batch |-> <<>>, covers |-> ws, revision |-> 0]
Idle == Run("idle", {})
NotCalled == [state |-> "idle", of |-> None]

Trouble(t) == t \in Troubles /\ mishaps < MaxMishaps /\ mishaps' = mishaps + 1

HasWork(q) == (~snapshotBlocked /\ revision # written) \/ q # <<>>

\* trimQueue: the oldest rows beyond the limit go.
Over(q) == IF Len(q) > MaxQueuedRows THEN Len(q) - MaxQueuedRows ELSE 0
Trimmed(q) == SubSeq(q, Over(q) + 1, Len(q))
TrimQueue(q) ==
  /\ queue' = Trimmed(q)
  /\ dropped' = dropped \cup Range(SubSeq(q, 1, Over(q)))

Init ==
  /\ revision = 0 /\ written = 0 /\ saved = 0
  /\ snapshotBlocked = FALSE /\ ready = FALSE
  /\ queue = <<>> /\ log = <<>> /\ enqueued = 0 /\ dropped = {}
  /\ timer = "off" /\ inFlight = None
  /\ flight = [f \in Flights |-> Idle]
  /\ waiters = {}
  /\ request = [r \in Requesters |-> "idle"]
  /\ asked = [r \in Requesters |-> [rows |-> {}, revision |-> 0]]
  /\ call = [c \in AllCallers |-> NotCalled]
  /\ disposed = FALSE
  /\ mishaps = 0

-----------------------------------------------------------------------------
(* Arming and starting. *)

\* schedule(): setTimer may throw, which leaves nothing armed.
Schedule ==
  \/ timer' = "armed" /\ UNCHANGED mishaps
  \/ timer' = "failed" /\ Trouble("timer")

\* kick(): armed only when there is work, no timer and no running flush.
Kick(q) ==
  IF disposed \/ ~HasWork(q) \/ inFlight # None \/ Armed
  THEN UNCHANGED <<timer, mishaps>> ELSE Schedule

\* startFlush(): the run takes over every waiter there is.
StartFlush(f) ==
  /\ flight[f].pc = "idle"
  /\ flight' = [flight EXCEPT ![f] = Run("ready", waiters)]
  /\ inFlight' = f
  /\ waiters' = {}

\* The store changes: an attempt is recorded.
StoreChanges ==
  /\ revision < MaxRevision
  /\ revision' = revision + 1
  /\ UNCHANGED <<written, saved, snapshotBlocked, ready, rows, promises, running, disposed, mishaps>>

\* load() is over; a snapshot that was merged moves the revision.
Load ==
  /\ ~ready
  /\ ready' = TRUE
  /\ revision' \in {revision, revision + 1} /\ revision' <= MaxRevision
  /\ UNCHANGED <<written, saved, snapshotBlocked, rows, promises, running, disposed, mishaps>>

\* enqueue(row): a disposed flusher ignores it.
Enqueue ==
  /\ ~disposed
  /\ enqueued < MaxRows
  /\ enqueued' = enqueued + 1
  /\ TrimQueue(Append(queue, enqueued'))
  /\ Kick(queue')
  /\ UNCHANGED <<log, snapshot, promises, inFlight, flight, disposed>>

\* Mutated form: whether the timer could be armed is not looked at.
RequestFlushBlindly(r) ==
  /\ request[r] = "idle"
  /\ asked' = [asked EXCEPT ![r] = [rows |-> Range(queue), revision |-> revision]]
  /\ Kick(queue)
  /\ IF disposed \/ ~HasWork(queue)
     THEN request' = [request EXCEPT ![r] = "done"] /\ UNCHANGED waiters
     ELSE /\ request' = [request EXCEPT ![r] = "waiting"]
          /\ waiters' = waiters \cup {r}
  /\ UNCHANGED <<rows, snapshot, call, inFlight, flight, disposed>>

\* requestFlush(): resolves at once when there is nothing to do or nothing
\* could be scheduled, and waits for a run otherwise.
RequestFlush(r) ==
  /\ request[r] = "idle"
  /\ asked' = [asked EXCEPT ![r] = [rows |-> Range(queue), revision |-> revision]]
  /\ Kick(queue)
  /\ IF disposed \/ ~HasWork(queue) \/ (~Armed' /\ inFlight = None)
     THEN request' = [request EXCEPT ![r] = "done"] /\ UNCHANGED waiters
     ELSE /\ request' = [request EXCEPT ![r] = "waiting"]
          /\ waiters' = waiters \cup {r}
  /\ UNCHANGED <<rows, snapshot, call, inFlight, flight, disposed>>

TimerFires ==
  /\ Armed
  /\ timer' = "off"
  /\ \E f \in Flights : StartFlush(f)
  /\ UNCHANGED <<rows, snapshot, request, asked, call, disposed, mishaps>>

-----------------------------------------------------------------------------
(* flushNow and dispose. *)

\* while (inFlight !== null) await inFlight; then cancelTimer and startFlush.
FlushNowLoop(c) ==
  IF inFlight # None
  THEN /\ call' = [call EXCEPT ![c] = [state |-> "await", of |-> inFlight]]
       /\ UNCHANGED <<running, waiters>>
  ELSE /\ timer' = "off"
       /\ \E f \in Flights :
            /\ StartFlush(f)
            /\ call' = [call EXCEPT ![c] = [state |-> "own", of |-> f]]

\* flushNow or dispose is called, or resumed after the run it awaited.
FlushNow(c) ==
  /\ call[c].state \in {"idle", "resumed"}
  /\ FlushNowLoop(c)
  /\ UNCHANGED <<rows, snapshot, request, asked, disposed, mishaps>>

\* The promises of ws resolve.
Release(ws) == request' = [r \in Requesters |-> IF r \in ws THEN "done" ELSE request[r]]

\* The rest of dispose, after its flushNow.
FinishDispose ==
  /\ call[Disposer].state = "done"
  /\ ~disposed
  /\ timer' = "off"
  /\ disposed' = TRUE
  /\ Release(waiters)
  /\ waiters' = {}
  /\ UNCHANGED <<rows, snapshot, asked, call, inFlight, flight, mishaps>>

-----------------------------------------------------------------------------
(* doFlush. *)

At(f, pc) == flight[f].pc = pc
Goto(f, pc) == flight' = [flight EXCEPT ![f].pc = pc]
Stays == UNCHANGED <<promises, timer, inFlight, disposed>>

\* deps.ready is awaited; the snapshot is skipped when there is none to write.
BeginFlush(f) ==
  /\ At(f, "ready")
  /\ ready
  /\ Goto(f, IF ~snapshotBlocked /\ revision # written THEN "lock" ELSE "rows")
  /\ UNCHANGED <<rows, snapshot, mishaps>>
  /\ Stays

GetLock(f) ==
  /\ At(f, "lock")
  /\ Goto(f, "absorb")
  /\ UNCHANGED <<rows, snapshot, mishaps>>
  /\ Stays

\* The lock is busy or taking it failed: the snapshot stays pending.
LockBusy(f) ==
  /\ At(f, "lock")
  /\ Trouble("lock")
  /\ Goto(f, "rows")
  /\ UNCHANGED <<rows, snapshot>>
  /\ Stays

\* absorbForeignWrites: a merge moves the revision; the revision that is about
\* to be saved is noted with the snapshot.
Absorb(f) ==
  /\ At(f, "absorb")
  /\ revision' \in {revision, revision + 1} /\ revision' <= MaxRevision
  /\ flight' = [flight EXCEPT ![f].pc = "save", ![f].revision = revision']
  /\ UNCHANGED <<written, saved, snapshotBlocked, ready, rows, mishaps>>
  /\ Stays

\* "skip": the file could not be read, so nothing is saved this round.
AbsorbSkips(f) ==
  /\ At(f, "absorb")
  /\ Trouble("read")
  /\ Goto(f, "rows")
  /\ UNCHANGED <<rows, snapshot>>
  /\ Stays

\* saveSnapshot is done: what it wrote is the revision read before it.
Save(f) ==
  /\ At(f, "save")
  /\ written' = flight[f].revision
  /\ saved' = flight[f].revision
  /\ Goto(f, "rows")
  /\ UNCHANGED <<revision, snapshotBlocked, ready, rows, mishaps>>
  /\ Stays

\* A failed save stays pending; a read-only store blocks snapshots for good.
SaveFails(f) ==
  /\ At(f, "save")
  /\ \/ Trouble("save") /\ UNCHANGED snapshotBlocked
     \/ Trouble("readOnly") /\ snapshotBlocked' = TRUE
  /\ Goto(f, "rows")
  /\ UNCHANGED <<revision, written, saved, ready, rows>>
  /\ Stays

BatchSize == IF Len(queue) < BatchRows THEN Len(queue) ELSE BatchRows

\* The next batch leaves the queue.
TakeBatch(f) ==
  /\ At(f, "rows")
  /\ queue # <<>>
  /\ flight' = [flight EXCEPT ![f].pc = "append", ![f].batch = SubSeq(queue, 1, BatchSize)]
  /\ queue' = SubSeq(queue, BatchSize + 1, Len(queue))
  /\ UNCHANGED <<log, enqueued, dropped, snapshot, mishaps>>
  /\ Stays

NoMoreRows(f) ==
  /\ At(f, "rows")
  /\ queue = <<>>
  /\ Goto(f, "end")
  /\ UNCHANGED <<rows, snapshot, mishaps>>
  /\ Stays

AppendRows(f) ==
  /\ At(f, "append")
  /\ log' = log \o flight[f].batch
  /\ flight' = [flight EXCEPT ![f].pc = "rows", ![f].batch = <<>>]
  /\ UNCHANGED <<queue, enqueued, dropped, snapshot, mishaps>>
  /\ Stays

\* Mutated form: the batch goes back behind what was queued meanwhile.
AppendFailsRequeues(f) ==
  /\ At(f, "append")
  /\ \/ Trouble("append") /\ UNCHANGED log
     \/ Trouble("torn") /\ \E k \in 1..Len(flight[f].batch) : log' = log \o SubSeq(flight[f].batch, 1, k)
  /\ TrimQueue(queue \o flight[f].batch)
  /\ flight' = [flight EXCEPT ![f].pc = "end", ![f].batch = <<>>]
  /\ UNCHANGED <<enqueued, snapshot>>
  /\ Stays

\* Mutated form: a batch that failed is not put back.
AppendFailsForgets(f) ==
  /\ At(f, "append")
  /\ Trouble("append")
  /\ flight' = [flight EXCEPT ![f].pc = "end", ![f].batch = <<>>]
  /\ UNCHANGED <<rows, snapshot>>
  /\ Stays

\* The append failed, perhaps after some rows: the batch goes back in front.
AppendFails(f) ==
  /\ At(f, "append")
  /\ \/ Trouble("append") /\ UNCHANGED log
     \/ Trouble("torn") /\ \E k \in 1..Len(flight[f].batch) : log' = log \o SubSeq(flight[f].batch, 1, k)
  /\ TrimQueue(flight[f].batch \o queue)
  /\ flight' = [flight EXCEPT ![f].pc = "end", ![f].batch = <<>>]
  /\ UNCHANGED <<enqueued, snapshot>>
  /\ Stays

\* Those who awaited the run f are resumed, its own caller has its answer.
Resume(f) ==
  call' = [c \in AllCallers |->
             CASE call[c].of = f /\ call[c].state = "await" -> [state |-> "resumed", of |-> None]
               [] call[c].of = f /\ call[c].state = "own" -> [state |-> "done", of |-> None]
               [] OTHER -> call[c]]

\* The waiters of the run, and all the others when nothing is armed that
\* would serve them.
ReleaseAfter(f) ==
  IF Armed'
  THEN Release(flight[f].covers) /\ UNCHANGED waiters
  ELSE Release(flight[f].covers \cup waiters) /\ waiters' = {}

\* Mutated form: a run does not arm the timer for the work it leaves.
EndFlushIdly(f) ==
  /\ At(f, "end")
  /\ inFlight' = IF inFlight = f THEN None ELSE inFlight
  /\ UNCHANGED <<timer, mishaps>>
  /\ ReleaseAfter(f)
  /\ flight' = [flight EXCEPT ![f] = Idle]
  /\ Resume(f)
  /\ UNCHANGED <<rows, snapshot, asked, disposed>>

\* The finally of startFlush.
EndFlush(f) ==
  /\ At(f, "end")
  /\ inFlight' = IF inFlight = f THEN None ELSE inFlight
  /\ IF ~disposed /\ HasWork(queue) /\ ~Armed
     THEN Schedule ELSE UNCHANGED <<timer, mishaps>>
  /\ ReleaseAfter(f)
  /\ flight' = [flight EXCEPT ![f] = Idle]
  /\ Resume(f)
  /\ UNCHANGED <<rows, snapshot, asked, disposed>>

FlushSteps(f) ==
  \/ BeginFlush(f) \/ GetLock(f) \/ Absorb(f) \/ Save(f)
  \/ TakeBatch(f) \/ NoMoreRows(f) \/ AppendRows(f) \/ EndFlush(f)

FlushFailures(f) == LockBusy(f) \/ AbsorbSkips(f) \/ SaveFails(f) \/ AppendFails(f)

Next ==
  \/ StoreChanges \/ Load \/ Enqueue \/ TimerFires \/ FinishDispose
  \/ \E r \in Requesters : RequestFlush(r)
  \/ \E c \in AllCallers : FlushNow(c)
  \/ \E f \in Flights : FlushSteps(f) \/ FlushFailures(f)

Spec == Init /\ [][Next]_vars

\* Timers fire, promises resolve, I/O ends; nobody has to call anything.
Fairness ==
  /\ WF_vars(Load) /\ WF_vars(TimerFires) /\ WF_vars(FinishDispose)
  /\ \A f \in Flights : WF_vars(FlushSteps(f))
  /\ \A c \in AllCallers : WF_vars(call[c].state = "resumed" /\ FlushNow(c))

FairSpec == Spec /\ Fairness

-----------------------------------------------------------------------------
FlightPC == {"idle", "ready", "lock", "absorb", "save", "rows", "append", "end"}

TypeOK ==
  /\ revision \in Nat /\ written \in Nat /\ saved \in Nat
  /\ snapshotBlocked \in BOOLEAN /\ ready \in BOOLEAN
  /\ queue \in Seq(Nat) /\ Len(queue) <= MaxQueuedRows
  /\ log \in Seq(Nat)
  /\ enqueued \in 0..MaxRows /\ dropped \subseteq 1..MaxRows
  /\ timer \in {"off", "armed", "failed"} /\ disposed \in BOOLEAN
  /\ inFlight \in Flights \cup {None}
  /\ flight \in [Flights -> [pc : FlightPC, batch : Seq(Nat),
                             covers : SUBSET Requesters, revision : Nat]]
  /\ waiters \subseteq Requesters
  /\ request \in [Requesters -> {"idle", "waiting", "done"}]
  /\ asked \in [Requesters -> [rows : SUBSET Nat, revision : Nat]]
  /\ call \in [AllCallers -> [state : {"idle", "await", "resumed", "own", "done"},
                              of : Flights \cup {None}]]
  /\ mishaps \in 0..MaxMishaps

Active == {f \in Flights : flight[f].pc # "idle"}

\* "Still serialized with an in-flight flush": the timer, flushNow callers
\* resumed together and dispose never run two flushes of a process at once.
OneFlush == \A f, g \in Active : f = g

\* Nobody waits for an attempt that will never run: as long as a requestFlush
\* promise is unresolved a run covers it, a timer is armed or a run whose end
\* will look at it is in flight.
WaitersCovered ==
  \A r \in Requesters : request[r] = "waiting" =>
    \/ \E f \in Active : r \in flight[f].covers
    \/ r \in waiters /\ (Armed \/ inFlight # None)

InHand == UNION {Range(flight[f].batch) : f \in Flights}

\* No row vanishes between the queue, the batch in hand and the log, except
\* those trimmed away at the queue limit.
NoRowLost == 1..enqueued \subseteq Range(log) \cup InHand \cup Range(queue) \cup dropped

\* Rows are written in the order they were enqueued, whatever fails and is
\* retried, and each one once, except those an append that failed half-way had
\* already written: a row that follows itself or a later one is such a repeat.
RowsInOrder ==
  \A f \in Flights :
    LET all == log \o flight[f].batch \o queue IN
      (flight[f].batch # <<>> \/ Active = {}) =>
        \A i, j \in DOMAIN all :
          i < j /\ all[j] <= all[i] => mishaps > 0 /\ \E k \in 1..i : all[k] = all[j]

\* A requestFlush promise that resolves means that the rows queued and the
\* store changes made before the call are on disk, unless something failed or
\* the flusher was disposed of.
RequestHonoured ==
  \A r \in Requesters :
    request[r] = "done" /\ mishaps = 0 /\ ~disposed =>
      /\ asked[r].rows \subseteq Range(log) \cup dropped
      /\ saved >= asked[r].revision

\* Every row, and every store change somebody asked to be flushed, is written
\* in the end without being asked for again: a run that fails leaves a timer,
\* unless none can be armed.
EventuallyFlushed ==
  <>[](\/ disposed \/ timer = "failed"
       \/ /\ queue = <<>>
          /\ \A r \in Requesters : request[r] # "idle" =>
               snapshotBlocked \/ saved >= asked[r].revision)


\* The rows of the decision log are all kept, in order, and nobody is told they are written
\* before they are (doFlush, trimQueue, releaseWaiters).
RowsKept == RowsInOrder /\ NoRowLost /\ RequestHonoured
=============================================================================
