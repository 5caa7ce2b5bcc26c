------------------------------ MODULE Pending ------------------------------
(***************************************************************************)
(* Deferred verification: the registry of unverified delegations, the       *)
(* router_verify calls that claim, join and settle them, and the background *)
(* queue that verifies them without being asked (src/verify/pending.ts and  *)
(* the half of src/verify/wiring.ts that drives it).                        *)
(*                                                                         *)
(* A handle stands for the one delegation it was issued to.  Clocks are     *)
(* abstracted to flags the environment raises (an entry is past its TTL, a  *)
(* claim is past maxVerifyingMs, a deadline has passed); what the code then *)
(* does with a raised flag is deterministic.                                *)
(* A test id is named after the delegation that introduced it.              *)
(***************************************************************************)
EXTENDS Naturals, Sequences, FiniteSets, SequencesExt, FiniteSetsExt

CONSTANTS
  Handles, Sessions,
  Owner,         \* [Handles -> Sessions]: the orchestrator session
  Files,         \* [Handles -> SUBSET paths]; {} is an unattributed change set
  FgCalls,       \* router_verify calls, each made at most once
  BgRuns,        \* background runs, each made at most once
  Caps,          \* pairs <<maxPerSession, maxGlobal>> the options may set
  MaxAttempts, QueueMax, LedgerMax, NoticesMax,
  MaxTroubles    \* bound: how many timeouts, expiries and deletions happen

Calls == FgCalls \cup BgRuns
NoCall == "no call"

ASSUME PendingAssumption ==
  /\ Owner \in [Handles -> Sessions]
  /\ IsFiniteSet(Handles)
  /\ FgCalls \cap BgRuns = {} /\ NoCall \notin Calls
  /\ Caps \subseteq (Nat \ {0}) \X (Nat \ {0})
  /\ {MaxAttempts, QueueMax, LedgerMax, NoticesMax} \subseteq Nat \ {0}
  /\ MaxTroubles \in Nat

VARIABLES
  caps,      \* <<maxPerSession, maxGlobal>>
  landed,    \* the delegations that returned, in order
  basis,     \* basis[h]: those that had returned when h was dispatched
  entry,     \* the registry, and the required gate of what it refuses
  ledger,    \* proven rejections per session, oldest first
  queue,     \* queued background requests, oldest first
  item,      \* item[h]: the attempts of the request for h, and was it deferred?
  running,   \* the background run in flight, or NoCall
  timer,     \* is the queue's one timer armed?
  notices,   \* undelivered late notices, oldest first
  reported,  \* handles whose verdict router_verify or a notice has told
  call,      \* the verifyHandles calls
  over,      \* deleted sessions, and "plugin" once the plugin is disposed
  troubles,  \* how many of them happened
  lapsed     \* history: labels the ledger has dropped

regVars   == <<landed, basis, entry, ledger>>
queueVars == <<queue, item, running, timer, notices>>
vars == <<caps, regVars, queueVars, reported, call, over, troubles, lapsed>>

-----------------------------------------------------------------------------
(* The registry.                                                            *)

NewEntry == [state |-> "new", run |-> NoCall, ttl |-> FALSE, late |-> FALSE,
             doomed |-> FALSE, result |-> "none", bg |-> FALSE,
             replayed |-> FALSE, cause |-> "none", inherits |-> FALSE]

LiveStates == {"unverified", "verifying", "verified"}
Live(e) == {h \in Handles : e[h].state \in LiveStates}

evict(r, why) == [NewEntry EXCEPT !.state = "gone", !.cause = why,
                                  !.result = r.result, !.inherits = r.inherits]

\* finishRun: a retryable result returns the entry to the unverified ones.
finishRun(r, res, retry, bg) ==
  IF retry THEN [r EXCEPT !.run = NoCall, !.late = FALSE, !.state = "unverified"]
           ELSE [r EXCEPT !.run = NoCall, !.late = FALSE, !.state = "verified",
                          !.result = res, !.bg = bg]

\* One entry under maintain(): an overdue claim is abandoned, then a doomed
\* or expired entry that is not being verified leaves.
maintainEntry(r) ==
  LET q == IF r.state = "verifying" /\ r.late
           THEN finishRun(r, "unverifiable", TRUE, FALSE) ELSE r
  IN IF q.state \notin {"unverified", "verified"} THEN q
     ELSE IF q.doomed THEN evict(q, "session-gone")
     ELSE IF q.ttl THEN evict(q, "ttl")
     ELSE q
maintain(e) == [h \in Handles |-> maintainEntry(e[h])]

\* The handles whose run maintain() resolves as abandoned.
Reaped(e) == {h \in Handles : e[h].state = "verifying" /\ e[h].late}

awaitsReplay(r) ==
  r.state = "verified" /\ r.bg /\ ~r.replayed /\ r.result # "pass"

\* Verified and not awaiting replay; the oldest n of them leave.
evictionCandidates(e, S) ==
  {h \in S : e[h].state = "verified" /\ ~awaitsReplay(e[h])}
Before(g, h) ==
  \E i, j \in DOMAIN landed : i < j /\ landed[i] = g /\ landed[j] = h
Oldest(S, n) == {h \in S : Cardinality({g \in S : Before(g, h)}) < n}

\* The evictions register() plans: the session cap first, then the global one.
Excess(n, max) == IF n + 1 > max THEN n + 1 - max ELSE 0
SessionNeed(e, h) ==
  Excess(Cardinality({g \in Live(e) : Owner[g] = Owner[h]}), caps[1])
SessionVictims(e, h) ==
  Oldest(evictionCandidates(e, {g \in Handles : Owner[g] = Owner[h]}),
         SessionNeed(e, h))
GlobalNeed(e, h) ==
  Excess(Cardinality(Live(e)) - Cardinality(SessionVictims(e, h)), caps[2])
GlobalVictims(e, h) ==
  Oldest(evictionCandidates(e, Handles \ SessionVictims(e, h)), GlobalNeed(e, h))
Fits(e, h) ==
  /\ Cardinality(SessionVictims(e, h)) = SessionNeed(e, h)
  /\ Cardinality(GlobalVictims(e, h)) = GlobalNeed(e, h)

\* recordRejection: one record per label, the newest kept, the oldest dropped.
Recorded(list, h) == Append(SelectSeq(list, LAMBDA g : g # h), h)
recordRejection(list, h) ==
  LET l == Recorded(list, h)
  IN IF Len(l) > LedgerMax THEN Tail(l) ELSE l
\* Several, in registration order (the order of the call's claims).
recordRejections(list, S) ==
  FoldLeft(recordRejection, list, SelectSeq(landed, LAMBDA h : h \in S))

\* findLineage: a rejected delegation that had landed when h was dispatched
\* and whose failures h's reference shows as pre-existing.
findLineage(list, h, pre) == Range(list) \cap basis[h] \cap pre # {}

-----------------------------------------------------------------------------
(* The calls.  slot[h] is the report a call builds for target h.             *)

NewCall == [phase |-> "idle", session |-> NoCall, awaits |-> NoCall,
            cut |-> FALSE, preempted |-> FALSE, cancelled |-> FALSE,
            slot |-> [h \in Handles |-> "no"]]

Claims(c) == {h \in Handles : call[c].slot[h] = "claimed"}

\* lookup: only the session that dispatched it finds a live entry.
lookup(e, s, h) == e[h].state \in LiveStates /\ Owner[h] = s

\* markVerifying, on the maintained registry.
markVerifying(e, s, h) ==
  CASE ~lookup(e, s, h) -> "gone"
    [] lookup(e, s, h) /\ e[h].state = "verified" -> "cached"
    [] lookup(e, s, h) /\ e[h].state = "verifying" -> "joined"
    [] lookup(e, s, h) /\ e[h].state = "unverified" -> "claimed"

\* Mutated form: abandoned runs are not resolved.
JoinersOfSettled(cs, S, report) == cs

\* A resolved run on S: what those who joined it report.
Joiners(cs, S, report) ==
  [c \in Calls |-> [cs[c] EXCEPT !.slot =
     [h \in Handles |-> IF h \in S /\ @[h] = "joined" THEN report[h] ELSE @[h]]]]
AllRetry == [h \in Handles |-> "joined retry"]

\* The claims of call c on targets T: entry and slots after them.
ClaimedEntry(e, c, s, T) ==
  [h \in Handles |-> IF h \in T /\ markVerifying(e, s, h) = "claimed"
                     THEN [e[h] EXCEPT !.state = "verifying", !.run = c,
                                       !.late = FALSE]
                     ELSE e[h]]
ClaimSlots(e, s, T) ==
  [h \in Handles |-> IF h \in T THEN markVerifying(e, s, h) ELSE "no"]

-----------------------------------------------------------------------------
(* The background queue.                                                     *)

Queued == Range(queue)
NewItem == [attempts |-> 0, deferred |-> FALSE]
isFresh(h) == item[h].attempts = 0 /\ ~item[h].deferred
Overlapping(S, h) ==
  {g \in S : Owner[g] = Owner[h] /\ Files[g] \cap Files[h] # {}}

\* enforceCap: the oldest request leaves.
enforceCap(q) == IF Len(q) > QueueMax THEN Tail(q) ELSE q

\* preempt(): the run in flight is aborted, once.
Preempted(cs) ==
  IF running = NoCall THEN cs
  ELSE [cs EXCEPT ![running].preempted = @ \/ ~cs[running].cancelled,
                  ![running].cut = TRUE]

\* Foreground testsPass work in flight: foreground.tests > 0.
Busy == \/ \E c \in FgCalls : call[c].phase = "testing"
        \/ \E h \in Handles : entry[h].state = "testing"

-----------------------------------------------------------------------------
(* A delegation is dispatched, returns, and is deferred.                     *)

Dispatch(h) ==
  /\ entry[h].state = "new" /\ over \cap {"plugin", Owner[h]} = {}
  /\ entry' = [entry EXCEPT ![h].state = "dispatched"]
  /\ basis' = [basis EXCEPT ![h] = Range(landed)]
  /\ UNCHANGED <<caps, landed, ledger, queueVars, reported, call, over, lapsed, troubles>>

InRun(g) == running # NoCall /\ call[running].slot[g] # "no"
enqueue(h) ==
  /\ queue' = enforceCap(Append(
                SelectSeq(queue, LAMBDA g : g \notin Overlapping(Queued, h)), h))
  /\ item' = [g \in Handles |-> IF g \in Range(queue') \ {h} \/ InRun(g)
                                 THEN item[g] ELSE NewItem]
  /\ timer' = (timer \/ running = NoCall)

\* finishDeferred, the producer's result registered: victims leave, the entry
\* is unverified, and an attributed change set is queued.
Register(h) ==
  LET e == maintain(entry) IN
  /\ entry[h].state = "dispatched" /\ "plugin" \notin over
  /\ Fits(e, h)
  /\ landed' = Append(landed, h)
  /\ entry' = [g \in Handles |->
       CASE g = h -> [e[g] EXCEPT !.state = "unverified"]
         [] g # h /\ g \in SessionVictims(e, h) \cup GlobalVictims(e, h)
              -> evict(e[g], "cap")
         [] OTHER -> e[g]]
  /\ call' = Joiners(call, Reaped(entry), AllRetry)
  /\ IF Files[h] # {} THEN enqueue(h) ELSE UNCHANGED <<queue, item, timer>>
  /\ UNCHANGED <<caps, basis, ledger, running, notices, reported, over, lapsed, troubles>>

\* finishDeferred, not deferred (registry full, no change, or an error): the
\* required gate runs, and its testsPass preempts the background run.
RequireGate(h) ==
  /\ entry[h].state = "dispatched" /\ "plugin" \notin over
  /\ entry' = [maintain(entry) EXCEPT ![h].state = "testing"]
  /\ call' = Preempted(Joiners(call, Reaped(entry), AllRetry))
  /\ landed' = Append(landed, h)
  /\ UNCHANGED <<caps, basis, ledger, queueVars, reported, over, lapsed, troubles>>

\* History: the session's rejections that can be known, with those of fails.
Rejected(s, fails) ==
  ({g \in Handles : entry[g].result = "fail" /\ Owner[g] = s} \ lapsed) \cup fails

\* lineageDowngrade: a verdict other than fail that excuses failures an
\* earlier rejection introduced.
lineageDowngrade(list, h, out, pre) ==
  IF out # "fail" /\ findLineage(list, h, pre) THEN "unverifiable" ELSE out

\* The required gate's verdict under applyLineage; a fail is recorded.
RequiredVerdict(h, out, pre) ==
  /\ entry[h].state = "testing"
  /\ entry' = [entry EXCEPT
       ![h].state = "gone", ![h].cause = "required",
       ![h].inherits = pre \cap Rejected(Owner[h], {}) # {},
       ![h].result = lineageDowngrade(ledger[Owner[h]], h, out, pre)]
  /\ ledger' = IF out = "fail"
               THEN [ledger EXCEPT ![Owner[h]] = recordRejection(@, h)] ELSE ledger
  /\ lapsed' = lapsed \cup (Range(ledger[Owner[h]]) \ Range(ledger'[Owner[h]]))
  /\ UNCHANGED <<caps, landed, basis, queueVars, reported, call, over, troubles>>

-----------------------------------------------------------------------------
(* verifyHandles, for router_verify and for a background run.                *)

\* Steps 1 and 2 of a router_verify call: its targets, its deadline, and the
\* background run it preempts.
FgBegin(c, s, T) ==
  /\ call[c].phase = "idle" /\ over \cap {"plugin", s} = {}
  /\ T # {}
  /\ call' = [Preempted(call) EXCEPT ![c] =
       [NewCall EXCEPT !.phase = "waiting", !.session = s, !.awaits = running,
                       !.slot = [h \in Handles |-> IF h \in T THEN "target" ELSE "no"]]]
  /\ UNCHANGED <<caps, regVars, queueVars, reported, over, lapsed, troubles>>

\* Mutated form: the claims do not wait for the preempted run.
WaitedNot(c) == TRUE

Waited(c) ==
  call[c].cut \/ \A r \in BgRuns : call[c].awaits = r => call[r].phase = "done"

\* Step 3: every claim at once, after the preempted run ended or the deadline.
FgClaim(c) ==
  LET e == maintain(entry)
      T == {h \in Handles : call[c].slot[h] = "target"} IN
  /\ call[c].phase = "waiting" /\ Waited(c)
  /\ entry' = ClaimedEntry(e, c, call[c].session, T)
  /\ call' = [Joiners(call, Reaped(entry), AllRetry) EXCEPT
       ![c].phase = "preparing", ![c].awaits = NoCall,
       ![c].slot = ClaimSlots(e, call[c].session, T)]
  /\ UNCHANGED <<caps, landed, basis, ledger, queueVars, reported, over, lapsed, troubles>>

\* Step 4: every gate at once.  A router_verify call's testsPass preempts the
\* background run in flight (a background run goes on to its gates by itself).
StartGates(c) ==
  /\ call[c].phase = "preparing"
  /\ call' = [IF Claims(c) # {} THEN Preempted(call) ELSE call
              EXCEPT ![c].phase = IF Claims(c) = {} THEN "judged" ELSE "testing"]
  /\ UNCHANGED <<caps, regVars, queueVars, reported, over, lapsed, troubles>>

\* What a gate may answer for h: a verdict, the failures it excuses as
\* pre-existing (none without a reference), whether it is retryable (transient,
\* or nothing judged before the cut), and whether the producer's files have
\* provably not drifted.
GateResults(c, h) ==
  {g \in [out : {"pass", "fail", "unverifiable"},
          pre : SUBSET basis[h],
          retry : BOOLEAN, drift : BOOLEAN] :
     /\ g.retry => g.out = "unverifiable"
     /\ g.out = "unverifiable" /\ call[c].cut => g.retry
     /\ g.out # "pass" => g.pre = {} /\ ~g.drift}

\* Mutated form: each verdict is judged before the call's rejections are
\* recorded.
LedgerJudgedAgainstOld(c, g) == ledger[call[c].session]

\* The ledger a call's verdicts are judged against: step 5(b).
LedgerJudgedAgainst(c, g) ==
  recordRejections(ledger[call[c].session],
                   {h \in Claims(c) : g[h].out = "fail"})

\* judgeVerdict: lineage, then drift; neither makes a pass or a fail.
judgeVerdict(c, g, h) ==
  IF g[h].out = "pass" /\ (\/ findLineage(LedgerJudgedAgainst(c, g), h, g[h].pre)
                           \/ g[h].drift)
  THEN "unverifiable" ELSE g[h].out

\* Mutated form: a settle that does not look whose run it is.
SettlesAny(c, e) == {h \in Claims(c) : e[h].state \in LiveStates}

\* The claims whose settle() is accepted: the run is still this call's.
Settles(c, e) == {h \in Claims(c) : e[h].run = c}

\* The end of an accepted settle: a doomed or expired entry leaves at once.
afterSettle(r, q) ==
  CASE r.doomed -> evict(q, "session-gone")
    [] ~r.doomed /\ r.ttl -> evict(q, "ttl")
    [] ~r.doomed /\ ~r.ttl -> q

\* Step 5: the rejections recorded, the verdicts judged, every claim settled.
\* A lineage query maintains the registry first.
Judge(c, g) ==
  LET e == IF \E h \in Claims(c) : g[h].out = "pass" /\ g[h].pre # {}
           THEN maintain(entry) ELSE entry
      ok == Settles(c, e)
      s == call[c].session
      known == Rejected(s, {h \in ok : g[h].out = "fail"})
      settled(h) == [finishRun(e[h], judgeVerdict(c, g, h), g[h].retry, c \in BgRuns)
                     EXCEPT !.inherits = g[h].pre \cap known # {}]
      final(h) == h \in ok /\ ~g[h].retry
      heard == [h \in Handles |-> IF final(h) THEN "joined final" ELSE "joined retry"]
  IN
  /\ call[c].phase = "testing"
  /\ entry' = [h \in Handles |->
       IF h \in ok THEN afterSettle(e[h], settled(h)) ELSE e[h]]
  /\ ledger' = [ledger EXCEPT ![s] = recordRejections(LedgerJudgedAgainst(c, g),
                  {h \in ok : g[h].out = "fail"})]
  /\ lapsed' = lapsed \cup (Range(ledger[s]) \ Range(ledger'[s]))
  /\ call' = [Joiners(call, (Reaped(entry) \ Reaped(e)) \cup ok, heard) EXCEPT
       ![c].phase = "judged",
       ![c].slot = [h \in Handles |-> IF h \notin Claims(c) THEN @[h]
                                      ELSE IF final(h) THEN "final" ELSE "retry"]]
  /\ UNCHANGED <<caps, landed, basis, queueVars, reported, over, troubles>>

\* What the caller reads: every slot resolved, or the deadline has passed.
Answered(c) == call[c].phase = "judged"
               /\ (call[c].cut \/ \A h \in Handles : call[c].slot[h] # "joined")
Terminal(c) == {h \in Handles : call[c].slot[h] \in {"cached", "final", "joined final"}}
\* A joined run still going at the deadline is judged elsewhere: not reported.
Finished == [NewCall EXCEPT !.phase = "done"]

remember(S) == reported \cup S
removeNotices(S) == SelectSeq(notices, LAMBDA h : h \notin S)
markReported(S) == reported' = remember(S) /\ notices' = removeNotices(S)
markReplayed(S) ==
  entry' = [h \in Handles |-> IF h \in S /\ entry[h].state \in LiveStates
                             THEN [entry[h] EXCEPT !.replayed = TRUE] ELSE entry[h]]

\* router_verify returns: markReported and markReplayed on terminal verdicts.
FgReport(c) ==
  /\ c \in FgCalls /\ Answered(c)
  /\ markReported(Terminal(c)) /\ markReplayed(Terminal(c))
  /\ call' = [call EXCEPT ![c] = Finished]
  /\ UNCHANGED <<caps, landed, basis, ledger, queue, item, running, timer, over, lapsed, troubles>>

-----------------------------------------------------------------------------
(* The queue's timer and its runs.  A timer callback is a task of its own:   *)
(* every call that can go on to its claims has done so before it.            *)

Drained == \A c \in FgCalls : ~(call[c].phase = "waiting" /\ Waited(c))

\* reschedule(): armed exactly when a request waits.
Rescheduled(q) == q # <<>>

\* runNext during foreground work, with the requests of D due: postponeDue.
TimerPostpones(D) ==
  /\ timer /\ running = NoCall /\ Drained /\ Busy
  /\ D # {}
  /\ item' = [h \in Handles |-> IF h \in D THEN [item[h] EXCEPT !.deferred = TRUE]
                                 ELSE item[h]]
  /\ timer' = Rescheduled(queue)
  /\ UNCHANGED <<caps, regVars, queue, running, notices, reported, call, over, lapsed, troubles>>

ForegroundIdle == ~Busy

\* runNext: a due lead (D are the due requests) and its session's fresh and due requests are claimed.
BgStart(c, lead, D) ==
  LET s == Owner[lead]
      T == {h \in Queued : Owner[h] = s /\ (isFresh(h) \/ h \in D)}
      e == maintain(entry) IN
  /\ timer /\ running = NoCall /\ Drained /\ ForegroundIdle
  /\ call[c].phase = "idle" /\ lead \in D
  /\ running' = c /\ timer' = FALSE
  /\ queue' = SelectSeq(queue, LAMBDA h : h \notin T)
  /\ entry' = ClaimedEntry(e, c, s, T)
  /\ call' = [Joiners(call, Reaped(entry), AllRetry) EXCEPT
       ![c] = [NewCall EXCEPT !.session = s, !.phase =
                 IF \E h \in T : markVerifying(e, s, h) = "claimed"
                 THEN "testing" ELSE "judged",
                              !.slot = ClaimSlots(e, s, T)]]
  /\ UNCHANGED <<caps, landed, basis, ledger, item, notices, reported, over, lapsed, troubles>>

\* retry(): counted unless the run was preempted; dropped at maxAttempts, or
\* when a newer queued request overlaps.
Retries(c, q, h) ==
  /\ call[c].preempted \/ item[h].attempts + 1 < MaxAttempts
  /\ Overlapping(Range(q), h) = {}
retry(c, q, h) == IF Retries(c, q, h) THEN enforceCap(Append(q, h)) ELSE q

\* apply(): the queue and the notices after the run's own outcomes.
ToRetry(c) == SelectSeq(landed, LAMBDA h : call[c].slot[h] = "retry")

\* addNotice: the run's own terminal verdicts that did not pass and that
\* nobody has reported.
Noticeable(c) ==
  SelectSeq(landed, LAMBDA h : /\ call[c].slot[h] = "final"
                               /\ entry[h].result # "pass" /\ h \notin reported)
LastNotices(ns) == IF Len(ns) > NoticesMax
                   THEN SubSeq(ns, Len(ns) - NoticesMax + 1, Len(ns)) ELSE ns

BgFinish(c) ==
  LET live == "plugin" \notin over /\ ~call[c].cancelled
      q == IF live THEN FoldLeft(LAMBDA acc, h : retry(c, acc, h), queue,
                                 ToRetry(c))
           ELSE queue IN
  /\ c = running /\ Answered(c)
  /\ queue' = q
  /\ item' = [h \in Handles |->
       IF h \in Queued THEN item[h]
       ELSE IF h \notin Range(q) THEN NewItem
       ELSE [attempts |-> IF call[c].preempted THEN item[h].attempts
                          ELSE item[h].attempts + 1,
             deferred |-> item[h].deferred \/ call[c].preempted]]
  /\ notices' = IF live THEN LastNotices(notices \o Noticeable(c)) ELSE notices
  /\ running' = NoCall
  /\ timer' = Rescheduled(q)
  /\ call' = [call EXCEPT ![c] = Finished]
  /\ UNCHANGED <<caps, regVars, reported, over, lapsed, troubles>>

\* The orchestrator's next message takes the session's notices.
TakeNotices(s) ==
  LET out == {h \in Range(notices) : Owner[h] = s} IN
  /\ out # {}
  /\ notices' = removeNotices(out)
  /\ reported' = remember(out)
  /\ UNCHANGED <<caps, regVars, queue, item, running, timer, call, over, lapsed, troubles>>

-----------------------------------------------------------------------------
(* Sessions end, the plugin is disposed, and time passes.                    *)

Trouble == troubles < MaxTroubles /\ troubles' = troubles + 1

\* The registry's half of forgetting a session; what it verifies is doomed.
forget(s) ==
  /\ entry' = [h \in Handles |->
       CASE Owner[h] = s /\ entry[h].state = "verifying"
              -> [entry[h] EXCEPT !.doomed = TRUE]
         [] Owner[h] = s /\ entry[h].state \in {"unverified", "verified"}
              -> evict(entry[h], "session-gone")
         [] OTHER -> entry[h]]
  /\ ledger' = [ledger EXCEPT ![s] = <<>>]
  /\ lapsed' = lapsed \cup Range(ledger[s])

\* session.deleted: background.forgetSession, then pending.forgetSession.
ForgetSession(s) ==
  /\ Trouble
  /\ over \cap {"plugin", s} = {}
  /\ over' = over \cup {s}
  /\ queue' = SelectSeq(queue, LAMBDA h : Owner[h] # s)
  /\ notices' = SelectSeq(notices, LAMBDA h : Owner[h] # s)
  /\ timer' = IF running = NoCall THEN Rescheduled(queue') ELSE timer
  /\ call' = IF running # NoCall /\ call[running].session = s
             THEN [call EXCEPT ![running].cancelled = TRUE, ![running].cut = TRUE]
             ELSE call
  /\ forget(s)
  /\ UNCHANGED <<caps, landed, basis, item, running, reported>>

\* The queue's half of disposing, from the calls cs.
disposeQueue(cs) ==
  /\ queue' = <<>> /\ notices' = <<>> /\ timer' = FALSE
  /\ call' = IF running = NoCall THEN cs
             ELSE [cs EXCEPT ![running].cancelled = TRUE, ![running].cut = TRUE]

\* Plugin dispose: the queue first, then the registry resolves every run.
Dispose ==
  /\ Trouble
  /\ "plugin" \notin over
  /\ over' = over \cup {"plugin"}
  /\ disposeQueue(Joiners(call, {h \in Handles : entry[h].state = "verifying"}, AllRetry))
  /\ entry' = [h \in Handles |-> IF entry[h].state \in LiveStates
                                 THEN evict(entry[h], "disposed") ELSE entry[h]]
  /\ ledger' = [s \in Sessions |-> <<>>]
  /\ lapsed' = lapsed \cup UNION {Range(ledger[s]) : s \in Sessions}
  /\ UNCHANGED <<caps, landed, basis, item, running, reported>>

\* The registry's idle sweep.
Sweep ==
  /\ maintain(entry) # entry
  /\ entry' = maintain(entry)
  /\ call' = Joiners(call, Reaped(entry), AllRetry)
  /\ UNCHANGED <<caps, landed, basis, ledger, queueVars, reported, over, lapsed, troubles>>

\* The oldest undelivered notice outlives pendingTtlMs, as its entry did before.
NoticeExpires ==
  /\ notices # <<>>
  /\ entry[Head(notices)].ttl \/ entry[Head(notices)].state = "gone"
  /\ notices' = Tail(notices)
  /\ UNCHANGED <<caps, regVars, queue, item, running, timer, reported, call, over, lapsed, troubles>>

\* A call's deadline passes, or its tool call is cancelled.
Deadline(c) ==
  /\ call[c].phase \in {"waiting", "preparing", "testing", "judged"} /\ ~call[c].cut
  /\ call' = [call EXCEPT ![c].cut = TRUE]
  /\ UNCHANGED <<caps, regVars, queueVars, reported, over, lapsed, troubles>>

\* A claim outlives maxVerifyingMs, the gate budget and a grace: its call's
\* deadline has passed before.
Overdue(h) ==
  /\ Trouble
  /\ entry[h].state = "verifying" /\ ~entry[h].late /\ call[entry[h].run].cut
  /\ entry' = [entry EXCEPT ![h].late = TRUE]
  /\ UNCHANGED <<caps, landed, basis, ledger, queueVars, reported, call, over, lapsed>>

\* An entry outlives pendingTtlMs.
Expire(h) ==
  /\ Trouble
  /\ entry[h].state \in LiveStates /\ ~entry[h].ttl
  /\ entry' = [entry EXCEPT ![h].ttl = TRUE]
  /\ UNCHANGED <<caps, landed, basis, ledger, queueVars, reported, call, over, lapsed>>

\* The ledger half of maintain(): the oldest record outlives pendingTtlMs.
LedgerExpires(s) ==
  /\ Trouble
  /\ ledger[s] # <<>>
  /\ ledger' = [ledger EXCEPT ![s] = Tail(@)]
  /\ lapsed' = lapsed \cup {Head(ledger[s])}
  /\ UNCHANGED <<caps, landed, basis, entry, queueVars, reported, call, over>>

-----------------------------------------------------------------------------

Init ==
  /\ caps \in Caps
  /\ landed = <<>> /\ queue = <<>> /\ notices = <<>>
  /\ basis = [h \in Handles |-> {}]
  /\ entry = [h \in Handles |-> NewEntry]
  /\ item = [h \in Handles |-> NewItem]
  /\ ledger = [s \in Sessions |-> <<>>]
  /\ running = NoCall /\ timer = FALSE
  /\ call = [c \in Calls |-> NewCall]
  /\ troubles = 0 /\ reported = {} /\ over = {} /\ lapsed = {}

Judged(c) == \E g \in [Claims(c) -> UNION {GateResults(c, h) : h \in Claims(c)}] :
               (\A h \in Claims(c) : g[h] \in GateResults(c, h)) /\ Judge(c, g)

Next ==
  \/ \E h \in Handles :
       \/ Dispatch(h) \/ Register(h) \/ RequireGate(h)
       \/ \E out \in {"pass", "fail", "unverifiable"} :
            \E pre \in SUBSET (IF out = "pass" THEN basis[h] ELSE {}) :
              RequiredVerdict(h, out, pre)
       \/ Overdue(h) \/ Expire(h)
  \/ \E c \in FgCalls :
       \/ \E s \in Sessions : \E T \in SUBSET {h \in Range(landed) : Owner[h] = s} :
            FgBegin(c, s, T)
       \/ FgClaim(c) \/ StartGates(c) \/ FgReport(c)
  \/ \E c \in Calls : Judged(c) \/ Deadline(c)
  \/ \E c \in BgRuns : BgFinish(c) \/ \E lead \in Handles, D \in SUBSET Queued : BgStart(c, lead, D)
  \/ (\E D \in SUBSET Queued : TimerPostpones(D)) \/ Sweep \/ NoticeExpires \/ Dispose
  \/ \E s \in Sessions : TakeNotices(s) \/ ForgetSession(s) \/ LedgerExpires(s)

Spec == Init /\ [][Next]_vars

-----------------------------------------------------------------------------
(* Properties.                                                               *)

\* A verdict, once an entry is verified, is never replaced: the late settle of
\* a reaped claim, or of one a newer call took over, changes nothing
\* (markVerifying's settle).
VerdictStable ==
  [][\A h \in Handles : entry[h].state = "verified" =>
        entry'[h].result = entry[h].result /\ entry'[h].state # "verifying"]_vars

\* No verdict of a delegation passes on the strength of "pre-existing"
\* failures that a rejected earlier delegation of the session is known to have
\* introduced, in the same call or in an earlier one (R11, QA-2.4-1).
NoInheritedPass ==
  \A h \in Handles : entry[h].result = "pass" => ~entry[h].inherits

\* router_verify never waits on the background run it is aborting: a call
\* whose deadline has not passed has joined no background run.
NoJoinOfBackground ==
  \A c \in FgCalls, h \in Handles :
    call[c].slot[h] = "joined" /\ ~call[c].cut => entry[h].run \notin BgRuns

\* Nobody waits on nothing: a call that joined a run waits on a claim that is
\* still some call's to settle, whether runs are reaped, settled late or
\* disposed of in between.
JoinedRunIsLive ==
  \A c \in Calls, h \in Handles : call[c].slot[h] = "joined" =>
    \E d \in Calls \ {c} : entry[h].run = d /\ h \in Claims(d)
                           /\ call[d].phase \in {"preparing", "testing"}

=============================================================================
