# A TLA+ verification of zcode-model-router

The repository is a plugin for coding agents. It routes work to model tiers,
runs delegated tasks on child sessions, verifies what they return, escalates
when the result is rejected and learns from the outcomes. This directory holds
TLA+ models of its concurrent and stateful parts, TLC runs over small instances
and TLAPS proofs for all values of the constants. Paths below are relative to
`src/` of the repository, except the hook scripts in `hooks/scripts`; a file is named
without its directory once that is clear, and `slot.ts:715` means line 715.

`PROJECT.json` lists every component with its status, the lines each definition
models, the hazards with the property that covers each, and for every property a
small plausible mistake (a dropped guard, a swapped order) that the property
detects. These mutated forms stand next to the definitions they replace.

## 1. The system and its models

```
orchestrator --call--> hooks --> routing engine --> delegate / role dispatch --> child session
                         |                              |                            |
                    read caps, guards,             capture of the tree          tool-call guards
                    depth guard                         |                            |
                                                        v                            v
                              verification: pending registry, batch, gate, runner, reference
                                                        |                            |
                                                verification slot             outcome store, log
```

| Part of the code | Module | State and actions |
|---|---|---|
| what a slot promises | `Semaphore` | the set of holders, at most `MaxSlots`; acquire, release |
| in-process fallback (`verify/slot.ts:942`) | `LocalSemaphore` | count, queue, one status per caller; an action per path through acquire, release and give-up |
| lock files of the slot (`verify/slot.ts:318-940`, `1289-1555`) | `SlotFiles` | lock and claim files; per process a program counter with a stack of nested claims; one action per file-system call |
| wait tickets (`acquireFile` of `verify/slot.ts` and its tickets) | `SlotTickets` | the ticket files, the loop of every waiting call and its heartbeat, peers and a temp cleaner that delete them |
| file lock (`routing/file-lock.ts`) | `FileLock` | the lock file, one grave per caller, one action per file-system call |
| shared outcome file (`routing/outcomes/store.ts`, `persist.ts`) | `OutcomeSync` | disk, and per process memory and baseline; the snapshot transaction step by step |
| flusher (`persist.ts`, `createFlusher`) | `OutcomeFlusher` | queue, timer, flights, waiters, callers of `flushNow` and `dispose` |
| outcome ingestion (`routing/outcomes/ingest.ts`, `index.ts`) | `Ingest` | the bus of host events, the place of each plugin instance on it, held final steps, the stores and their holders, the hooks that judge a call |
| delegate loop, ladder, variants, resume (`index.ts:1346-1910`, `escalate/`) | `Delegation` | `LadderState`, the attempt plan, the child sessions |
| pending registry and background queue (`verify/pending.ts`, `wiring.ts`) | `Pending` | entries, rejection ledger, queue with its timer, calls of `router_verify`, background runs |
| batch coordinator (`verify/batch.ts`) | `Batch` | requests, the open window, batches with their step |
| gate (`verify/gate.ts`, `deterministic.ts`, `checker.ts`) | `Gate`, with the pure `Judging`, `Scoping`, `PytestConfig` | one verification: checks, scopes with their slot, the process and its kill, the rerun at the reference, the budget |
| captures and references (`verify/dispatch.ts`, `tree.ts`, `reference.ts`, flights of `wiring.ts`) | `Reference`, with the pure `Trees` | repository, tool calls, dispatches, shared reads, worktrees of two processes, garbage collection |
| depth tracker and guard (`router/depth.ts`, `depth-guard.ts`) | `Depth` | tracked sessions, evicted evidence, walks, lookups, what the host has created and deleted |
| roles mode (`compat/v2-hooks.ts`, `routing/wire/dispatch.ts`, `routing/roles/`, `guard/`) | `Roles`, with `RolePolicy`, `RoleBinding`, `DispatchRules`, `Guards`, `Engine` | the stages of each call through the hooks, grant registry, authority requests, dispatch records, guard states, host sessions |
| read caps in the plugin (`router/sessions.ts`) | `SessionStore` | a cap state per child session, tool calls under way |
| read caps of the hook scripts (`hooks/scripts`) | `HookCaps` | the caps file, the turn file, one process per tool call with its copy of the file |

How they meet: `Delegation` and `Pending` take the gate's verdict as a free
choice, which `Gate` models; `Gate` takes its slot as granted at some time,
`SlotTickets` shows who gets it, and `SlotFiles`, `LocalSemaphore` and `FileLock`
are shown to implement `Semaphore` (`INSTANCE Semaphore WITH holders <- ...`).
`OutcomeSync` takes the file lock as exclusive. `Roles` composes the operators of
five pure modules with the hooks that call them; `Gate` does so with three.

What makes each part correct: the slots admit at most `max` holders, delete no
file they did not check and do not stay blocked by a dead process; every
observation is counted at most once in `outcomes.json`, every row reaches the log in
order, and every flush promise is honest and resolves; a delegation tries what
its configuration promises and leaves no session behind; a verdict rests on what
the tests really do, a late one never labels work it did not judge, and a shared
run hides no failure from anyone; a reference is the tree of its dispatch; a
child uses only what it was granted; caps and stops hold under parallel calls.

`*Proofs` holds the theorems about the module it extends, `MC*` the instances.

## 2. Runs

Every run finishes within four minutes on two workers. Where a run covers
several specifications, a behaviour plays one of them.

| Run | Instance | Shows |
|---|---|---|
| `semaphores` | fallback with 4 callers, 2 slots; file lock with 3 callers, one of which may die, and one mishap; tickets of 2 waiters and a passer | both locks implement `Semaphore`, the file lock until a live lock stays displaced; no ticket file outlives its call but by a failed delete; a waiter that keeps its ticket is overtaken at most once and served |
| `slot` | "crash": 3 processes on 2 hosts, 2 may die, 1 slot; "errors": 2 processes, one gives up, one exits, one mishap | no unlink hits a file that was not the one checked; at most one holder; a dead process's lock goes, a frozen holder learns of its loss |
| `outcomes` | 2 processes sharing a file that may be lost or corrupted; a flusher with 3 rows, limit 2, one mishap | memory keeps its own records, a save adds exactly what was recorded since, rows stay in order, promises are honest and resolve |
| `delegation` | every 3-tier ladder of 9 kinds of tiers, three sets of limits | no failed effort is paid for twice, no tier is skipped, children are accounted for |
| `pending` | 2 overlapping delegations, 1 call, 2 background runs, caps 1 and 2, one trouble | verdicts are stable, nobody joins a background run or waits on a run that is gone, no pass inherits a rejected delegation's failures |
| `batch` | 3 requests of all modes, windows of 2 | failures of a union run are explained, deadlines are one's own, everyone who waits is placed |
| `gate` | families of cases: pytest and JS mappings, command and repository flaws, configurations, failures at a reference, delegations | the verdict agrees with what the tests do, the slot covers every run the gate waits for, a command left running does not pass, a scoped run keeps its configuration, a reported failure is not forgotten |
| `reference` | 2 dispatches over 2 files, clean and dirty, the orchestrator writing once or twice; or a collection over every kind of left-over worktree | but for files a call open at the dispatch changed under the capture, an exact reference is the tree of its dispatch and the list of changes is complete; only abandoned worktrees go |
| `depth` | a chain of 4 sessions of which 2 fit into the tracker | an answer is the true depth, a deleted session is not tracked again |
| `roles` | 8 families of scenarios: parallel and aborted dispatches, widening, raised floors, named roles, deleted sessions, budgets, tiers | grants are respected and fit the tier, a record follows its child, a stop is final |
| `ingest` | 2 instances on one directory, on two, one static; 2 runs, 3 steps; or calls judged in parallel and again | a step is counted at most once and, but for lagging instances, for its own run; an ended attempt is folded; the log tells what the store did |
| `caps` | 1 session, 2-3 reads in parallel, 5 settings | the store follows its session, advice is true, lost counts are bounded |

Bounds. Three processes are what the slot protocol needs: an owner, a reaper and
a second reaper. A merge of counters looks at one file and one baseline, so one
attempt and one refusal per process reach every merge. Three tiers give a start,
a middle that can be skipped and a top. In a batch a third member is the one
nothing should happen to. A lock moved by mistake harms a third caller, so the
file lock has three. Two delegations give a basis and what rests on it; two
writes of an outsider hide a change of the producer between them; two instances,
the recording one and the lagging one. A tracker of two entries evicts on a chain
of three. The bounds of each module are named in its
`CONSTANTS`. Deadlock checking is off where the system really may stop:
everybody may be finished, dead or disposed of.

Fairness. A process that is up keeps running its calls, because nothing in them
blocks for good: weak fairness of its steps. The slot run adds that time passes,
that a waiting caller polls again and that the heartbeat timer fires; the file
lock needs strong fairness of the passing of time, which goes on however often
recoveries hold it up; `OutcomeSync` needs strong fairness of the start of a
flush, which is retried every `minIntervalMs` while the lock is held for
milliseconds. The flusher assumes that an armed timer fires. No run assumes that
a failing operation succeeds in the end; failures are bounded in number.
`Pending`, `Batch`, `Gate`, `Reference`, `Depth`, `Roles`, `Ingest` and the caps
are checked for safety only.

### Where the code departs from its text

Three facts met while modelling. The properties are stated so that they hold
beside them.

- `routing/file-lock.ts:27`: the rename that moves a stale lock away goes by
  path. Two callers that saw the same stale lock move it one after the other; the
  second may move the first one's fresh lock, and until it puts it back a third
  caller can create the file. Two callers then run at once although nobody was
  suspended, which the comment at line 8 ("A process suspended longer than staleMs
  can lose its lease") names as the way to lose one. The run has three callers and
  reaches this; `LockIsSemaphore` is stated until a lock that was moved while its lease
  ran is not back before another caller makes its own (`misplaced`).
- `routing/outcomes/store.ts:479`: a late false refusal converts a pass that may
  be on disk already and so lowers a counter, while `store.ts:259-260` rests on
  counters that only grow. The next process takes the file for another lineage,
  absorbs it whole, and its counters are doubled (`persist.ts:962`). `SaveAddsOwn`
  is stated while `intact` holds: no saved pass was converted, no foreign hand
  touched the file.
- `index.ts:1621`: whether the caller is a root session is looked up on every
  attempt. If the lookup fails on the first, that attempt is gated; if it succeeds
  on the second, that one is deferred, although the comment at line 1656 says that
  a gated delegation stays gated. `GatedOnceKnown` states what is true: once the
  answer is known.

Smaller ones: `flushNow` after `dispose` still starts a flush (`outcomes/types.ts:898`
calls later calls no-ops); an instance whose settings turned static but which
still holds its stores takes the end of an execution while it skipped the steps,
so a held final stays with a lagging instance until the idle sweep
(`ingest.ts:778-780`); a delegate child on v1 is registered by
`registerProducerSession` and registered again as resumed by its first
`chat.message` (`sessions.ts:404-409`); a call of an hour or more is forgotten
while it runs (`sessions.ts:466-475`).

## 3. Proofs

The theorems hold for any number of processes, callers, members, rows, slots,
failures and crashes, from the named assumption of each module (finite sets,
positive bounds), which TLC evaluates on every run. Each invariant was checked by
TLC on the run's instance before it was proved.

**`ResourceProofs`** (`LocalSemaphore`, `SlotTickets`, `Reference`), what a check
holds while it runs. `IInv`: types, the queue holds exactly the waiting callers, the
count is the number of holders, nobody waits beside a free slot, `count <= MaxSlots`.
The last two need each other: a release hands its slot on without lowering the count.
From it `CountCorrect`, `NoLostWakeUp` and `FallbackImplementsSemaphore`: every step is
a step or a stutter of `Semaphore`. `TicketInv`: a refresh is in flight only while its
call still waits or drops its ticket, and none begins to write for a dropped one, so
that when the call is over nothing is on its way that could make the file again, whoever
deleted it; hence `NoTicketComesBack`, which leaves out only calls whose own delete
failed (`stuck`).

`ReferenceInv` is about captures. Whoever shares a flight is waiting for it
(`FlightsAre`). The start of a tool call takes every pending capture out of its flight
(`observeEdit`), so while one is pending its producer is idle (`CallsAre`) and only a
call that was open when the dispatch began (`during`) can change a file, which then
counts as touched. Hence every
other file is as it was when the dispatch began, and what each of the flight's reads
found is still so (`CaptureIsTrue`); the reference keeps that through materialization,
where an exact one lost no untracked file (`ReferencesAreTrue`): `ExactIsTrue`.
`CleanupInv` is about
the worktrees: git locks what it lists and a dispatch's directory is its own from the
moment it is made (`DirsAreOwn`); a scan's list is older than what it looks at, so what
it calls initializing may be in use by now (`ListIsOld`); what a removal takes was
stale when it was chosen and its owner, whose process lives, cannot come back to it
(`TakesStale`); and what was left over at the scan is still to do or gone unless
something failed (`DueIsSwept`). Hence `CleanupIsExact`. `ReferenceAssumption` says
what a process can leave behind: only an entry of git's list is locked, and one of
another repository is not in it.

**`OutcomeProofs`** (`OutcomeSync`, `OutcomeFlusher`, `Ingest`). `OwnNeverLost` rests on
`MergeKeeps`: `descendsFrom` is what makes subtracting the baseline safe.
`SavesExact` and `MergedOnce` rest on `ExactInv`: whoever is in the transaction
holds the lock, the file descends from every baseline, memory is the baseline
plus the unsaved records, and from the merge to the save the baseline is the
file. `FlightInv`: `inFlight` names the one run there is, no timer is armed while
it runs, and every waiter is covered by the run or by the timer; hence
`FlushesSerialized` and `NoRequestForgotten`.
`RowsInv`: what is not written yet rises, the batch in hand before the queue, and a
row of the log is not above one that follows it unless a failed append had already
written that one; it needs to say so of the unwritten rows too, because a batch that
was torn comes back. `HonourInv` adds what a run has done at each of its places for
those it covers: saved what they asked for before it takes rows, written their rows
when it ends. Hence `RowsAreKept`, which is `RowsInOrder`, `NoRowLost` and
`RequestHonoured` in one.
`IngestInv` is about the ingestion, for any number of instances, directories and
registrations. `StepsSound`: in each directory a step is in at most one place, folded, open or
held (`FoldsSound`, `OpensSound`, `HeldSound`), a fold or an open attempt has only steps
of its own runs or steps that were late when it was registered, a closed attempt has
nothing open, and whatever is somewhere was seen
there (`SeenSound`); the id is recorded before the step is placed and the handler may
meanwhile settle, fold and let stores go, so in between all of it holds but for that one
id. `StepsOnTheirWay` is why the attempt is the right one: what an instance
that records has not taken yet belongs to the latest registration or is late for it
(`PendingOwn`), which is the one `targetOf` finds, and the step it is pricing to the
registration it looked up before the await (`PricedOwn`). A registration keeps the first
because it notes as late what an instance that records has still to take: nothing in the
code makes a resume wait for such an instance (`sessions.ts:861`). It does not touch the
second, so a step whose price was awaited is never excused. Hence `StepsOnce`.
`BooksSound`: the rows and the counts of a directory move together, which for a refusal
that takes a pass back needs that the module's own scored map and the store's agree on
who passed (`BooksAgree`); the refusals counted are no more than the attempts that have
the key of one in `signalled` (`FewRefusals`), and a signal in the log has its key there
(`SignalsAreOne`). Hence `RowsAgree`. `EndInv` follows the ends
(from `IngestAssumption`, which also says that `Nil` is no record of a step). Always
(`EventsInOrder`): a run's steps are on the bus before its end, and an end that was
delivered is one of the bus. While the latest attempt was registered before its run's
first step, with no step late for it, and nobody's settings have moved (`Settled`), moreover (`Onward`): an instance
holds no store but that of its own settings (`Steady`); what is left of the attempt in a
directory is that directory's last attempt, which is the one an end folds; what an
instance has taken is placed, or awaits its price for the latest attempt
(`PricesLatest`); and an end it has taken, or that was delivered for the directory, left
nothing (`FoldedIn`): the instance had taken every step of the run and awaited no price,
and a price that another instance gets later finds its step recorded. Hence `EndsFold`.

**`DelegationProofs`** (`Delegation`). `SessionInv`: between two attempts only the
child to resume is alive, its producer did not fail, and while an attempt is
judged only its own child is alive; hence `ChildrenAccounted`. `AttemptsInv`: the
attempt count stays below `maxTotalAttempts`, so the loop never needs its safety
net (`AttemptsBounded`). `DecidedInv`: a known root caller that was gated may not
defer any more (`GatedOnceKnown`). `LadderInv` says where the ladder is: every tier
below the current one has run or is covered by a failed rung of its model
(`BelowTried`), the attempts left reach to the top (`Reserved`), what counts as
tried has failed or is about to run (`TriedIsTrue`), and, where the catalog knows
every tier, no rung that failed is above the one tried and the current effort is that
one (`FailedBelow`, `CurrentIsTop`). Only together do they survive a step: a tier is
skipped on the word of `triedByModel`, so that must be true, and a tier entered above
it must be new for its model. Hence `LadderOrder`.

**`PendingProofs`** (`Pending`). `PendingInv`: an entry that is being verified
names the call that claimed it and has not settled it (`RunsClaimed`); whoever
joined joined a run that is still going (`JoinsGoing`); at most one background run
(`OneBackground`); a foreground call waits only for that one, which has begun
(`WaitersAwait`). The conjuncts depend on each other through `maintain`, which
takes an overdue claim from its run in the middle of every operation. Hence
`NeverJoinsBackground`, `JoinersWaitOnSomeone` and, as an action property,
`VerdictNeverReplaced`.

**`BatchProofs`** (`Batch`). `BatchInv` says of each member where it waits and of
each batch what its members may have been told. `Placed`: every waiting member is
in the window or in exactly one running batch. `Sane`: before the union run is
over nobody of the batch was told that its tests ran; while a failure of it is
unexplained, whoever is told so is tainted (`Explained`); once the batch is final
nobody is left who could explain it. One step of the code may end a batch and
start the next, so the lemmas also speak of the state in the middle of a step.
Hence `EveryoneIsPlaced`, `UnionFailuresExplained`, `OwnDeadlineOnly`.

**`GateProofs`** (`Gate` with its pure modules). `PlanInv`: a run about to start is
the one the planner made for the case. It carries the argument about pytest's
lookup: `ConfigStaysPinned` says for every chain of directories, every set of
configuration files in it, every arguments and each release, that a scoped
command that is planned at all has the configuration and rootdir of the user's
command. `SlotInv`: from the acquisition to the judgement the running check's
scope has its slot and is open, and background closes wait for what is in flight
(`SlotHeldWhileRunning`). `SurvivorInv`: a check that left a command behind after the
grace of its kill has not passed, or is about to be judged on a run without a result.
`ResultInv`: reported failures are among the results
(`FailureIsAnswered`). `TruthInv`: the scoped run failed only tests that fail now,
and an exact rerun ran its files as they were at dispatch; hence `FailureIsNew`,
the half of `VerdictIsRight` that says a change is blamed only for failures it
introduced. `CasesAssumption` states what a case is: the lookup runs over a
numbered chain of directories, trees are finite, a test that failed at dispatch
was there, and a known cache at its own place is not read by tests.

**`CapsProofs`** (`HookCaps`, `SessionStore`). The files and every copy a hook process
is about to write back count no more than was made (`CountsAreMade`, `TurnIsMade`),
counting the processes still about to add theirs; a copy never falls behind the
enforced rounds (`RoundsAreCounted`). Hence `AdviceTrue`, `LostCountsBounded` and
`CountsNeverInvented`, for any number of parallel calls. For the plugin's own store
`EntriesTell`: an entry's tier, cap and mark are the latest dispatch's, `calls` the reads
since that dispatch, and the total, the rounds and the fingerprints those of the entry's
life at the tier, which begins with a dispatch that finds no entry or another tier, or
makes it a producer; `WorkIsFresh`: a sweep takes nobody's work; and the latest banner is
right (`BannerTellsTruth`). The log of reads is a sequence, so counting it needs lemmas
about appending and the cardinality of a set of positions. Hence
`CapsFollowSession`.

**`RolesProofs`** (`Roles`, `Guards`). `StopInv` has three parts. `HostIsSound`: a fresh
call's child is there from its start, a running call's child is not deleted, and the
plugin hears of a deletion only after it. `GuardsAreSound`: in its first round a child's
calls are all it made; a later round has a noted tier and `budget=`, and no budget ever
was above the peak. `HaltsAreSpent`: a child is stopped exactly when its guard says so
of the running round, and nothing the round can still do makes its next call legal
(`Spent`). That is the heart: a call in flight may end after the stop and only adds to
what is used up, a refusal never lowers the count, and the policy, which the guard
computes anew for every call, keeps its cumulative limit while the round lasts
(`PolicyStays`), because the noted `budget=` and the peak do; a first round, whose
policy may still change with the binding, stops on its own budget alone. Hence
`StopsAreFinal`. `GrantInv` adds what a grant rests on. A pending slot holds the grant its
own call was routed to, and what a call was sent to stays (`SlotsAreOwn`,
`WorkIsSettled`); a session shows no nonce but that of a call whose grant it was given
(`MarkersAreOwn`); a nonce that bound a session is retired or claimed by it
(`BindsStand`); a bound child holds no more than it was granted, or only reads
(`BoundIsGranted`), and names its own role (`AgentsAreNamed`). The hard part is a
resume: a request may widen the bound grant only by what the resume's preview covered,
so that what was previewed must still stand when it is consumed (`RequestsStand`,
`PreviewsHold`). Hence `GrantsHold`. Both from `ScenariosAssumption`: calls are finitely
many, a resume is of the child of a call and under the same agent, budgets are numbers,
and the plugin knows its directory. `RecordInv` says whose a record is while a call is
on its way: a resume's own from its commit on (`ResumedAreNoted`), and what it will
restore if it comes to nothing is the record of the last call that returned
(`ReturnedAreKept`); a fresh child may be claimed for another dispatch until its result
arrives, so that before a first return nothing is said of it; a deletion takes no record
of a living child (`GoneTogether`, `OfParent`). Hence `RecordsFollow`, under
`ResumesApart`, which says of the orchestrators that no two resumes of a child overlap
and that, where sessions are deleted, a child is resumed by its own parent and the
parents are not children themselves. The run's scenarios satisfy it (TLC evaluates it),
and it is needed. Without the first part the second of two rejected resumes restores the
record of the first; without the second the deletion of a parent takes the record of a
child it resumed but does not own. TLC finds both.

### Only model-checked

- Liveness (`EveryCallerServed`, `LossesNoticed`, `NothingStaysPending`): fairness
  and `ENABLED` are beyond the prover.
- What folds and recursive operators compute: `NoInheritedPass` and `OvertakenOnce`
  rest on `FoldLeft` and `SelectSeq`, the passing half of `VerdictIsRight` on the
  planner's closure over the files that name each other.
- `LockIsSemaphore` and its history `misplaced`.
- `DepthIsTrue` and `NoResurrection` rest on functions that recur over sets of
  sessions (`climb`, `memoize`, `drop`); that such a function satisfies its equation
  needs induction over data.
- `FloorCoversGrant` rests on the ladders of `Engine`, which are folds.
- `DeltaComplete`, the other half of `ReferenceIsTrue`. It leaves out what a call that
  was open when the dispatch began changes under its captures. Without that exception it
  is false: such a call changes a file before the fingerprint reads it, writes again
  after, and the producer writes back what the fingerprint saw. The fingerprints agree
  (`delta`) and the file is not reported, although the producer wrote it and it differs
  from what it was when the dispatch began. `dispatch.ts` cannot see it: a call announces
  its files only when it ends (`observeEdit`). Every other write of another session,
  twice and around the producer's own, is in the promise.
- `UnlinksChecked` and `SlotsAreSemaphore`: not proved yet.

## 4. What the models leave out

**Slot files.** Which observations let a process conclude an age (the observation
sidecars) and the directory probe; ages stand for them. The calls, the watch and
the housekeeping of one process are serialised, its heartbeat is not. The exit
hook's open and write are one step. The residual risk the file's header admits, a
process that stops between its last check and its unlink for longer than a margin,
is excluded, and so is one the header does not name: a process that stalls past
`claimInertMs` and then exits drops its claims without looking at their age
(`slot.ts:866-872`, `912-932`) and can unlink another claimer's file. Three
processes with stalls are not run. **Tickets.** Taking a slot is one step;
overtaking and service are stated for one slot, and for calls whose ticket was not taken
from them (`lapsed`).

**Outcomes.** One key, whose counters are modelled; the Beta evidence and the cost
means are decaying reals. A file that vanished and grew past the old baseline
between two reads is taken for a descendant, which the model contains. The delay
of the flusher's timer is abstracted. **Ingest.** An instance takes
the events in the order of the bus, however late; nothing waits for it. A resume is
registered at any time after the last execution ended (`awaitExecutionEnd` waits until
some instance has noted that). A step may be counted for no attempt at all, which is the code's
choice: its attempt was closed, the child was registered again while its price was
awaited, or the store went. One that a lagging instance takes after a new registration
counts for the new attempt (`late`). The signal of a redispatch (`index.ts:1220`), an
attempt scored in two directories or around the end of a store's life, the size caps,
untrusted classes and the change of an attempt's key are left out; an instance's settings
change when it has taken the steps that were sent.

**Delegation.** Tier names are distinct; the invalid-variant fallback of
`planNextAttempt` is left out, as policy and plan use one catalog; a child the
host creates after the time-box aborted the call is not modelled.
`RungNotRepeated` is narrower than the comment at `ladder.ts:360`: an escalation
out of a tier the catalog does not know skips `skipCoveredTiers`, and
`triedByModel` keeps one rung per model, so bare and unranked variants may be run
again.

**Pending.** Reference weights and their shedding, and the difference between an
expired and an unknown handle. Clocks are flags raised by the environment.
**Batch.** One batch key; argument merging and duration estimates are free
choices. **Gate.** Tests are deterministic, the planner follows direct naming
only, static planning and directives are left out. A killed command either ends or is
left to itself after the grace (`KILL_GRACE_MS`); background children that outlive a
command which ended by itself, and children that left its process group, are not
modelled. **Reference.** One repository
root; a HEAD moved between the reads of one snapshot is seen (`torn`), a tool call
in flight when a dispatch begins is seen (`touched`); a process suspended without
heartbeat for an hour may lose its reference, and a dead owner's process id is not given
to another process.

**Depth.** The host tells the truth; hop cap, cycles, fetch budget and the advisory
mode are left out, as is the order of eviction. **Roles.** What `ResumesApart` excludes
is left out (two overlapping resumes of one child; where sessions are deleted, resumes
by another parent), as are resumes under another agent, expiry times and size limits
except `ExpirePending`, the host budget observer and dollar costs. **Caps.** Calls
during bypass are not counted; hook processes lose each other's counts, which
`ReadsBounded` bounds; the race of an interrupt with the reset of a turn and two
concurrent commands are left out.

Hazards no property covers: observations of processes with different clock origins
(`slot.ts:544`), two processes rotating the decision log (`persist.ts:613`), a
directory reacquired while its last holder still flushes (`outcomes/index.ts:165`),
the time-box expiring while the host creates the child (`index.ts:1612`), runner
tokens (`sessions.ts:1039`), `dispatch-verify.mjs:48`, and the exit hook's claims
(`slot.ts:915`).

Left out for good: configuration parsing, prompt text, command output and
telemetry (formatting without state), statistics over real numbers, and git, the
test commands and the host, which are external.

## 5. What is left to do

The proofs of `OneDeleter` and `NoABA` of the claim protocol, and a model of log
rotation around `OutcomeFlusher`.
