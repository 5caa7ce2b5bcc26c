--------------------------- MODULE PendingProofs ---------------------------
(***************************************************************************)
(* Proofs about Pending, for any number of delegations, sessions, calls    *)
(* and background runs, any caps and any number of troubles.               *)
(***************************************************************************)
EXTENDS Pending, TLAPS

-----------------------------------------------------------------------------
(* The inductive invariant. *)

EntryStates == {"new", "dispatched", "testing", "unverified", "verifying", "verified", "gone"}
Phases == {"idle", "waiting", "preparing", "testing", "judged", "done"}
Slots == {"no", "target", "gone", "cached", "joined", "claimed", "final", "retry",
          "joined final", "joined retry"}
Verdicts == {"none", "pass", "fail", "unverifiable"}
EntryRecord ==
  [state : EntryStates, run : Calls \cup {NoCall}, ttl : BOOLEAN, late : BOOLEAN,
   doomed : BOOLEAN, result : Verdicts, bg : BOOLEAN, replayed : BOOLEAN,
   cause : {"none", "session-gone", "ttl", "cap", "required", "disposed"}, inherits : BOOLEAN]
CallRecord ==
  [phase : Phases, session : Sessions \cup {NoCall}, awaits : BgRuns \cup {NoCall},
   cut : BOOLEAN, preempted : BOOLEAN, cancelled : BOOLEAN, slot : [Handles -> Slots]]

PendingTypeOK ==
  /\ entry \in [Handles -> EntryRecord]
  /\ call \in [Calls -> CallRecord]
  /\ running \in BgRuns \cup {NoCall}

\* Whoever an entry says is verifying it has claimed it and has not settled it.
RunsClaimed ==
  \A h \in Handles :
    IF entry[h].state = "verifying"
    THEN /\ entry[h].run \in Calls
         /\ call[entry[h].run].slot[h] = "claimed"
         /\ call[entry[h].run].phase \in {"preparing", "testing"}
    ELSE entry[h].run = NoCall

\* Whoever joined a run joined one that is still going.
JoinsGoing ==
  \A c \in Calls, h \in Handles : call[c].slot[h] = "joined" => entry[h].state = "verifying"

\* The background queue runs one run at a time.
OneBackground ==
  /\ \A r \in BgRuns : r # running => call[r].phase \in {"idle", "done"}
  /\ running # NoCall => call[running].phase \in {"testing", "judged"}

\* A call that waits awaits the run in flight, which has begun.
WaitersAwait ==
  \A c \in FgCalls : call[c].phase = "waiting" =>
    /\ running \in {NoCall, call[c].awaits}
    /\ call[c].awaits # NoCall => call[call[c].awaits].phase # "idle"

PendingInv ==
  /\ PendingTypeOK /\ RunsClaimed /\ JoinsGoing /\ OneBackground /\ WaitersAwait
  /\ NoJoinOfBackground

-----------------------------------------------------------------------------
(* Lemmas about the operators of the registry and of the calls. *)

LEMMA CallsDisjoint ==
  /\ NoCall \notin Calls /\ NoCall \notin BgRuns /\ NoCall \notin FgCalls
  /\ FgCalls \subseteq Calls /\ BgRuns \subseteq Calls
  /\ \A c \in FgCalls : c \notin BgRuns
  BY PendingAssumption DEF Calls

LEMMA NewEntryFields ==
  NewEntry \in EntryRecord /\ NewEntry.state = "new" /\ NewEntry.run = NoCall
  BY DEF NewEntry, EntryRecord, EntryStates, Verdicts

\* An entry that leaves keeps its verdict.
LEMMA EvictFields ==
  ASSUME NEW r \in EntryRecord,
         NEW why \in {"session-gone", "ttl", "cap", "required", "disposed"}
  PROVE  /\ evict(r, why) \in EntryRecord
         /\ evict(r, why).state = "gone" /\ evict(r, why).run = NoCall
         /\ evict(r, why).result = r.result
  BY DEF evict, NewEntry, EntryRecord, EntryStates, Verdicts

LEMMA FinishFields ==
  ASSUME NEW r \in EntryRecord, NEW res \in Verdicts, NEW goesBack \in BOOLEAN, NEW bg \in BOOLEAN
  PROVE  LET q == finishRun(r, res, goesBack, bg)
         IN  /\ q \in EntryRecord /\ q.run = NoCall
             /\ q.state = IF goesBack THEN "unverified" ELSE "verified"
             /\ goesBack => q.result = r.result
  BY DEF finishRun, EntryRecord, EntryStates, Verdicts

\* What maintain() may do to an entry: an overdue claim is taken from its run, and what has
\* expired or is doomed leaves with the verdict it has.
LEMMA MaintainEntry ==
  ASSUME NEW r \in EntryRecord
  PROVE  LET q == maintainEntry(r)
         IN  /\ q \in EntryRecord
             /\ \/ q = r /\ ~(r.state = "verifying" /\ r.late)
                \/ /\ r.state = "verifying" /\ r.late
                   /\ q.state \in {"unverified", "gone"} /\ q.run = NoCall
                \/ /\ r.state \in {"unverified", "verified"}
                   /\ q.state = "gone" /\ q.run = NoCall /\ q.result = r.result
  <1> DEFINE p == IF r.state = "verifying" /\ r.late
                  THEN finishRun(r, "unverifiable", TRUE, FALSE) ELSE r
  <1>1. /\ p \in EntryRecord
        /\ r.state = "verifying" /\ r.late => p.state = "unverified" /\ p.run = NoCall
        /\ ~(r.state = "verifying" /\ r.late) => p = r
    BY FinishFields DEF Verdicts
  <1> HIDE DEF p
  <1>2. \/ maintainEntry(r) = p /\ p.state \notin {"unverified", "verified"}
        \/ /\ p.state \in {"unverified", "verified"}
           /\ \/ maintainEntry(r) = evict(p, "session-gone")
              \/ maintainEntry(r) = evict(p, "ttl")
              \/ maintainEntry(r) = p
    BY <1>1 DEF maintainEntry, p, EntryRecord
  <1>3. CASE maintainEntry(r) = p
    BY <1>1, <1>3
  <1>4. CASE /\ p.state \in {"unverified", "verified"}
             /\ \E why \in {"session-gone", "ttl"} : maintainEntry(r) = evict(p, why)
    BY <1>1, <1>4, EvictFields
  <1> QED
    BY <1>2, <1>3, <1>4

LEMMA Maintained ==
  ASSUME PendingTypeOK
  PROVE  /\ maintain(entry) \in [Handles -> EntryRecord]
         /\ \A h \in Handles :
              \/ maintain(entry)[h] = entry[h] /\ h \notin Reaped(entry)
              \/ /\ h \in Reaped(entry)
                 /\ maintain(entry)[h].state \in {"unverified", "gone"}
                 /\ maintain(entry)[h].run = NoCall
              \/ /\ entry[h].state \in {"unverified", "verified"} /\ h \notin Reaped(entry)
                 /\ maintain(entry)[h].state = "gone" /\ maintain(entry)[h].run = NoCall
                 /\ maintain(entry)[h].result = entry[h].result
  BY MaintainEntry DEF maintain, Reaped, PendingTypeOK

\* Resolving the runs on S changes only the reports of those who joined them.
LEMMA JoinersFields ==
  ASSUME NEW cs \in [Calls -> CallRecord], NEW S, NEW report \in [Handles -> Slots]
  PROVE  /\ Joiners(cs, S, report) \in [Calls -> CallRecord]
         /\ \A c \in Calls :
              LET d == Joiners(cs, S, report)[c]
              IN  /\ d.phase = cs[c].phase /\ d.awaits = cs[c].awaits
                  /\ d.session = cs[c].session /\ d.cut = cs[c].cut
                  /\ d.preempted = cs[c].preempted /\ d.cancelled = cs[c].cancelled
                  /\ \A h \in Handles :
                       d.slot[h] = IF h \in S /\ cs[c].slot[h] = "joined" THEN report[h]
                                   ELSE cs[c].slot[h]
  BY DEF Joiners, CallRecord

LEMMA AllRetryReport == AllRetry \in [Handles -> Slots] /\ \A h \in Handles : AllRetry[h] = "joined retry"
  BY DEF AllRetry, Slots

\* Preempting aborts the run in flight and changes nothing else.
LEMMA PreemptedFields ==
  ASSUME PendingTypeOK, NEW cs \in [Calls -> CallRecord]
  PROVE  /\ Preempted(cs) \in [Calls -> CallRecord]
         /\ \A c \in Calls :
              LET d == Preempted(cs)[c]
              IN  /\ d.phase = cs[c].phase /\ d.awaits = cs[c].awaits
                  /\ d.session = cs[c].session /\ d.slot = cs[c].slot
                  /\ cs[c].cut => d.cut
  <1>1. CASE running = NoCall
    BY <1>1 DEF Preempted
  <1>2. CASE running # NoCall
    <2> DEFINE b == cs[running].preempted \/ ~cs[running].cancelled
    <2>1. running \in Calls /\ b \in BOOLEAN
      BY <1>2, CallsDisjoint DEF PendingTypeOK
    <2>2. Preempted(cs) = [cs EXCEPT ![running].preempted = b, ![running].cut = TRUE]
      BY <1>2, Zenon DEF Preempted
    <2> HIDE DEF b
    <2> DEFINE r == cs[running]
               d == [r EXCEPT !.preempted = b, !.cut = TRUE]
    <2>3. d \in CallRecord /\ d.phase = r.phase /\ d.awaits = r.awaits /\ d.session = r.session
          /\ d.slot = r.slot /\ d.cut
      BY <2>1 DEF CallRecord
    <2>4. Preempted(cs) = [cs EXCEPT ![running] = d]
      BY <2>1, <2>2
    <2> HIDE DEF d
    <2> QED
      BY <2>1, <2>3, <2>4
  <1> QED
    BY <1>1, <1>2

-----------------------------------------------------------------------------
(* Steps that claim nothing and bring no call forward. *)

\* No call changes its phase, and no report but that of a joined run that was resolved.
CallsCalm ==
  \A c \in Calls :
    /\ call'[c].phase = call[c].phase /\ call'[c].awaits = call[c].awaits
    /\ call[c].cut => call'[c].cut
    /\ \A h \in Handles :
         \/ call'[c].slot[h] = call[c].slot[h]
         \/ call[c].slot[h] = "joined" /\ call'[c].slot[h] \notin {"joined", "claimed"}

\* An entry keeps its state and run, or leaves its run with nobody joined to it.
EntriesCalm ==
  \A h \in Handles :
    \/ entry'[h].state = entry[h].state /\ entry'[h].run = entry[h].run
    \/ /\ entry'[h].state # "verifying" /\ entry'[h].run = NoCall
       /\ entry[h].state = "verifying" => \A c \in Calls : call'[c].slot[h] # "joined"

LEMMA CalmStep ==
  ASSUME PendingInv, PendingTypeOK', UNCHANGED running, CallsCalm, EntriesCalm
  PROVE  PendingInv'
  <1>1. RunsClaimed'
    <2> SUFFICES ASSUME NEW h \in Handles
                 PROVE  IF entry'[h].state = "verifying"
                        THEN /\ entry'[h].run \in Calls
                             /\ call'[entry'[h].run].slot[h] = "claimed"
                             /\ call'[entry'[h].run].phase \in {"preparing", "testing"}
                        ELSE entry'[h].run = NoCall
      BY DEF RunsClaimed
    <2>1. CASE entry'[h].state = entry[h].state /\ entry'[h].run = entry[h].run
      <3>1. entry[h].state = "verifying" =>
              /\ entry[h].run \in Calls
              /\ call[entry[h].run].slot[h] = "claimed"
              /\ call[entry[h].run].phase \in {"preparing", "testing"}
        BY DEF PendingInv, RunsClaimed
      <3>2. entry[h].state # "verifying" => entry[h].run = NoCall
        BY DEF PendingInv, RunsClaimed
      <3> QED
        BY <2>1, <3>1, <3>2 DEF CallsCalm
    <2>2. CASE entry'[h].state # "verifying" /\ entry'[h].run = NoCall
      BY <2>2
    <2> QED
      BY <2>1, <2>2 DEF EntriesCalm
  <1>2. ASSUME NEW c \in Calls, NEW h \in Handles, call'[c].slot[h] = "joined"
        PROVE  call[c].slot[h] = "joined" /\ entry[h].state = "verifying"
               /\ entry'[h].state = "verifying" /\ entry'[h].run = entry[h].run
    <2>1. call[c].slot[h] = "joined"
      BY <1>2 DEF CallsCalm
    <2>2. entry[h].state = "verifying"
      BY <2>1 DEF PendingInv, JoinsGoing
    <2> QED
      BY <1>2, <2>1, <2>2 DEF EntriesCalm
  <1>3. JoinsGoing'
    BY <1>2 DEF JoinsGoing
  <1>4. OneBackground'
    BY CallsDisjoint DEF PendingInv, PendingTypeOK, OneBackground, CallsCalm
  <1>5. WaitersAwait'
    <2> SUFFICES ASSUME NEW c \in FgCalls, call'[c].phase = "waiting"
                 PROVE  /\ running' \in {NoCall, call'[c].awaits}
                        /\ call'[c].awaits # NoCall => call'[call'[c].awaits].phase # "idle"
      BY DEF WaitersAwait
    <2>1. c \in Calls /\ call'[c].awaits = call[c].awaits /\ call[c].phase = "waiting"
      BY CallsDisjoint DEF CallsCalm
    <2>2. /\ running \in {NoCall, call[c].awaits}
          /\ call[c].awaits # NoCall => call[call[c].awaits].phase # "idle"
      BY <2>1 DEF PendingInv, WaitersAwait
    <2>3. call[c].awaits \in BgRuns \cup {NoCall}
      BY <2>1 DEF PendingInv, PendingTypeOK, CallRecord
    <2> QED
      BY <2>1, <2>2, <2>3, CallsDisjoint DEF CallsCalm
  <1>6. NoJoinOfBackground'
    <2> SUFFICES ASSUME NEW c \in FgCalls, NEW h \in Handles,
                        call'[c].slot[h] = "joined", ~call'[c].cut
                 PROVE  entry'[h].run \notin BgRuns
      BY DEF NoJoinOfBackground
    <2>1. c \in Calls /\ ~call[c].cut
      BY CallsDisjoint DEF CallsCalm
    <2> QED
      BY <1>2, <2>1 DEF PendingInv, NoJoinOfBackground
  <1> QED
    BY <1>1, <1>3, <1>4, <1>5, <1>6 DEF PendingInv

\* A step that changes no call.
LEMMA SameCalls ==
  ASSUME PendingTypeOK, UNCHANGED call
  PROVE  CallsCalm
  BY DEF CallsCalm

\* A verified entry that keeps its verdict.
Keeps(h) ==
  entry[h].state = "verified" =>
    entry'[h].result = entry[h].result /\ entry'[h].state # "verifying"

Stable == \A h \in Handles : Keeps(h)

LEMMA DispatchKeeps ==
  ASSUME PendingInv, NEW h \in Handles, Dispatch(h)
  PROVE  PendingInv' /\ Stable
  <1>1. /\ entry[h].state = "new" /\ entry' = [entry EXCEPT ![h].state = "dispatched"]
        /\ UNCHANGED <<call, running>>
    BY DEF Dispatch, queueVars
  <1>2. entry[h].run = NoCall
    BY <1>1 DEF PendingInv, RunsClaimed
  <1>3. PendingTypeOK'
    BY <1>1 DEF PendingInv, PendingTypeOK, EntryRecord, EntryStates
  <1>4. EntriesCalm /\ Stable
    BY <1>1, <1>2 DEF PendingInv, PendingTypeOK, EntryRecord, EntriesCalm, Stable, Keeps
  <1> QED
    BY <1>1, <1>3, <1>4, SameCalls, CalmStep DEF PendingInv

\* The reports of those who joined an overdue run are resolved.
LEMMA ReapedJoiners ==
  ASSUME PendingTypeOK
  PROVE  LET J == Joiners(call, Reaped(entry), AllRetry)
         IN  /\ J \in [Calls -> CallRecord]
             /\ \A c \in Calls :
                  /\ J[c].phase = call[c].phase /\ J[c].awaits = call[c].awaits
                  /\ J[c].session = call[c].session /\ J[c].cut = call[c].cut
                  /\ \A h \in Handles :
                       /\ \/ J[c].slot[h] = call[c].slot[h]
                          \/ call[c].slot[h] = "joined" /\ J[c].slot[h] = "joined retry"
                       /\ h \in Reaped(entry) => J[c].slot[h] # "joined"
  <1> DEFINE S == Reaped(entry)
             J == Joiners(call, S, AllRetry)
  <1> HIDE DEF S
  <1>1. call \in [Calls -> CallRecord]
    BY DEF PendingTypeOK
  <1>2. /\ J \in [Calls -> CallRecord]
        /\ \A c \in Calls :
             /\ J[c].phase = call[c].phase /\ J[c].awaits = call[c].awaits
             /\ J[c].session = call[c].session /\ J[c].cut = call[c].cut
             /\ \A h \in Handles :
                  J[c].slot[h] = IF h \in S /\ call[c].slot[h] = "joined" THEN AllRetry[h]
                                 ELSE call[c].slot[h]
    <2>1. AllRetry \in [Handles -> Slots]
      BY AllRetryReport
    <2> QED
      BY <1>1, <2>1, JoinersFields
  <1> HIDE DEF J
  <1>3. \A c \in Calls, h \in Handles :
          /\ \/ J[c].slot[h] = call[c].slot[h]
             \/ call[c].slot[h] = "joined" /\ J[c].slot[h] = "joined retry"
          /\ h \in S => J[c].slot[h] # "joined"
    BY <1>2, AllRetryReport
  <1> QED
    BY <1>2, <1>3 DEF J, S

\* maintain() with the reports of the runs it resolves.
LEMMA MaintainCalm ==
  ASSUME PendingInv, call' = Joiners(call, Reaped(entry), AllRetry)
  PROVE  /\ call' \in [Calls -> CallRecord]
         /\ CallsCalm
         /\ \A h \in Reaped(entry), c \in Calls : call'[c].slot[h] # "joined"
  <1> DEFINE J == Joiners(call, Reaped(entry), AllRetry)
  <1>1. J = call'
    OBVIOUS
  <1>2. /\ J \in [Calls -> CallRecord]
        /\ \A c \in Calls :
             /\ J[c].phase = call[c].phase /\ J[c].awaits = call[c].awaits
             /\ J[c].session = call[c].session /\ J[c].cut = call[c].cut
             /\ \A h \in Handles :
                  /\ \/ J[c].slot[h] = call[c].slot[h]
                     \/ call[c].slot[h] = "joined" /\ J[c].slot[h] = "joined retry"
                  /\ h \in Reaped(entry) => J[c].slot[h] # "joined"
    BY ReapedJoiners DEF PendingInv
  <1> HIDE DEF J
  <1> QED
    BY <1>1, <1>2 DEF CallsCalm, Reaped

LEMMA VictimsVerified ==
  ASSUME NEW e, NEW h, NEW g \in SessionVictims(e, h) \cup GlobalVictims(e, h)
  PROVE  e[g].state = "verified"
  BY DEF SessionVictims, GlobalVictims, Oldest, evictionCandidates

LEMMA RegisterKeeps ==
  ASSUME PendingInv, NEW h \in Handles, Register(h)
  PROVE  PendingInv' /\ Stable
  <1> DEFINE e == maintain(entry)
             out == SessionVictims(e, h) \cup GlobalVictims(e, h)
  <1>1. /\ entry[h].state = "dispatched"
        /\ entry' = [g \in Handles |->
              CASE g = h -> [e[g] EXCEPT !.state = "unverified"]
                [] g # h /\ g \in out -> evict(e[g], "cap")
                [] OTHER -> e[g]]
        /\ call' = Joiners(call, Reaped(entry), AllRetry)
        /\ UNCHANGED running
    BY DEF Register
  <1>2. PendingTypeOK
    BY DEF PendingInv
  <1>3. \A g \in out : e[g].state = "verified"
    BY VictimsVerified
  <1>4. /\ call' \in [Calls -> CallRecord] /\ CallsCalm
        /\ \A g \in Reaped(entry), c \in Calls : call'[c].slot[g] # "joined"
    BY <1>1, MaintainCalm
  <1>5. e \in [Handles -> EntryRecord]
    BY <1>2, Maintained
  <1>6. ASSUME NEW g \in Handles
        PROVE  /\ entry'[g] \in EntryRecord
               /\ \/ entry'[g].state = entry[g].state /\ entry'[g].run = entry[g].run
                  \/ /\ entry'[g].state # "verifying" /\ entry'[g].run = NoCall
                     /\ entry[g].state = "verifying" => g \in Reaped(entry)
               /\ Keeps(g)
    <2>1. \/ e[g] = entry[g] /\ g \notin Reaped(entry)
          \/ g \in Reaped(entry) /\ e[g].state \in {"unverified", "gone"} /\ e[g].run = NoCall
          \/ /\ entry[g].state \in {"unverified", "verified"} /\ g \notin Reaped(entry)
             /\ e[g].state = "gone" /\ e[g].run = NoCall /\ e[g].result = entry[g].result
      BY <1>2, Maintained
    <2>2. entry[g].state # "verifying" => entry[g].run = NoCall
      BY DEF PendingInv, RunsClaimed
    <2>3. g \in Reaped(entry) => entry[g].state = "verifying"
      BY DEF Reaped
    <2> HIDE DEF e, out
    <2>4. CASE g = h
      <3>1. e[g] = entry[g]
        BY <1>1, <2>1, <2>3, <2>4
      <3>2. entry'[g] = [e[g] EXCEPT !.state = "unverified"]
        BY <1>1, <2>4
      <3> QED
        BY <1>1, <1>5, <2>2, <2>4, <3>1, <3>2 DEF Keeps, EntryRecord, EntryStates
    <2>5. CASE g # h /\ g \in out
      <3>1. entry'[g] = evict(e[g], "cap")
        BY <1>1, <2>5
      <3>2. /\ entry'[g] \in EntryRecord /\ entry'[g].state = "gone" /\ entry'[g].run = NoCall
            /\ entry'[g].result = e[g].result
        BY <1>5, <3>1, EvictFields
      <3>3. e[g] = entry[g] /\ entry[g].state = "verified"
        BY <1>3, <2>1, <2>5
      <3> QED
        BY <3>2, <3>3 DEF Keeps
    <2>6. CASE g # h /\ g \notin out
      <3>1. entry'[g] = e[g]
        BY <1>1, <2>6
      <3> QED
        BY <1>5, <2>1, <2>2, <2>3, <3>1 DEF Keeps
    <2> QED
      BY <2>4, <2>5, <2>6
  <1>7. PendingTypeOK'
    BY <1>1, <1>2, <1>4, <1>6 DEF PendingTypeOK
  <1>8. EntriesCalm
    BY <1>4, <1>6 DEF EntriesCalm
  <1> QED
    BY <1>1, <1>4, <1>6, <1>7, <1>8, CalmStep DEF Stable

\* What maintain() does to one entry, seen by the invariant.
LEMMA MaintainOne ==
  ASSUME PendingInv, NEW h \in Handles
  PROVE  LET q == maintain(entry)[h]
         IN  /\ q \in EntryRecord
             /\ \/ q.state = entry[h].state /\ q.run = entry[h].run
                \/ /\ q.state \in {"unverified", "gone"} /\ q.run = NoCall
                   /\ entry[h].state = "verifying" => h \in Reaped(entry)
             /\ entry[h].state = "verified" =>
                  q.result = entry[h].result /\ q.state \in {"verified", "gone"}
             /\ entry[h].state \in {"new", "dispatched", "testing", "gone"} => q = entry[h]
  <1> DEFINE q == maintain(entry)[h]
  <1>1. PendingTypeOK
    BY DEF PendingInv
  <1>2. /\ q \in EntryRecord
        /\ \/ q = entry[h] /\ h \notin Reaped(entry)
           \/ h \in Reaped(entry) /\ q.state \in {"unverified", "gone"} /\ q.run = NoCall
           \/ /\ entry[h].state \in {"unverified", "verified"} /\ h \notin Reaped(entry)
              /\ q.state = "gone" /\ q.run = NoCall /\ q.result = entry[h].result
    BY <1>1, Maintained
  <1>3. h \in Reaped(entry) => entry[h].state = "verifying"
    BY DEF Reaped
  <1> HIDE DEF q
  <1>4. /\ \/ q.state = entry[h].state /\ q.run = entry[h].run
           \/ /\ q.state \in {"unverified", "gone"} /\ q.run = NoCall
              /\ entry[h].state = "verifying" => h \in Reaped(entry)
        /\ entry[h].state = "verified" =>
             q.result = entry[h].result /\ q.state \in {"verified", "gone"}
        /\ entry[h].state \in {"new", "dispatched", "testing", "gone"} => q = entry[h]
    BY <1>2, <1>3
  <1> QED
    BY <1>2, <1>4 DEF q

LEMMA SweepKeeps ==
  ASSUME PendingInv, Sweep
  PROVE  PendingInv' /\ Stable
  <1>1. /\ entry' = maintain(entry) /\ call' = Joiners(call, Reaped(entry), AllRetry)
        /\ UNCHANGED running
    BY DEF Sweep, queueVars
  <1>2. PendingTypeOK
    BY DEF PendingInv
  <1>3. /\ call' \in [Calls -> CallRecord] /\ CallsCalm
        /\ \A g \in Reaped(entry), c \in Calls : call'[c].slot[g] # "joined"
    BY <1>1, MaintainCalm
  <1>4. PendingTypeOK'
    BY <1>1, <1>2, <1>3, Maintained DEF PendingTypeOK
  <1>5. EntriesCalm /\ Stable
    BY <1>1, <1>3, MaintainOne DEF EntriesCalm, Stable, Keeps
  <1> QED
    BY <1>1, <1>3, <1>4, <1>5, CalmStep

LEMMA RequireGateKeeps ==
  ASSUME PendingInv, NEW h \in Handles, RequireGate(h)
  PROVE  PendingInv' /\ Stable
  <1> DEFINE e == maintain(entry)
             J == Joiners(call, Reaped(entry), AllRetry)
  <1>1. /\ entry[h].state = "dispatched" /\ entry' = [e EXCEPT ![h].state = "testing"]
        /\ call' = Preempted(J) /\ UNCHANGED running
    BY DEF RequireGate, queueVars
  <1>2. PendingTypeOK
    BY DEF PendingInv
  <1>3. /\ J \in [Calls -> CallRecord]
        /\ \A c \in Calls :
             /\ J[c].phase = call[c].phase /\ J[c].awaits = call[c].awaits
             /\ J[c].cut = call[c].cut
             /\ \A g \in Handles :
                  /\ \/ J[c].slot[g] = call[c].slot[g]
                     \/ call[c].slot[g] = "joined" /\ J[c].slot[g] = "joined retry"
                  /\ g \in Reaped(entry) => J[c].slot[g] # "joined"
    BY <1>2, ReapedJoiners
  <1> HIDE DEF J
  <1>4. /\ call' \in [Calls -> CallRecord]
        /\ \A c \in Calls :
             /\ call'[c].phase = J[c].phase /\ call'[c].awaits = J[c].awaits
             /\ call'[c].slot = J[c].slot
             /\ J[c].cut => call'[c].cut
    <2>1. J \in [Calls -> CallRecord]
      BY <1>3
    <2>2. PendingTypeOK /\ call' = Preempted(J)
      BY <1>1, <1>2
    <2> DEFINE P == Preempted(J)
    <2>3. /\ P \in [Calls -> CallRecord]
          /\ \A c \in Calls :
               /\ P[c].phase = J[c].phase /\ P[c].awaits = J[c].awaits
               /\ P[c].slot = J[c].slot
               /\ J[c].cut => P[c].cut
      BY <2>1, <2>2, PreemptedFields
    <2> HIDE DEF P
    <2> QED
      BY <2>2, <2>3 DEF P
  <1>5. ASSUME NEW c \in Calls, NEW g \in Handles
        PROVE  /\ call'[c].phase = call[c].phase /\ call'[c].awaits = call[c].awaits
               /\ call[c].cut => call'[c].cut
               /\ \/ call'[c].slot[g] = call[c].slot[g]
                  \/ call[c].slot[g] = "joined" /\ call'[c].slot[g] = "joined retry"
               /\ g \in Reaped(entry) => call'[c].slot[g] # "joined"
    <2>1. /\ call'[c].phase = J[c].phase /\ call'[c].awaits = J[c].awaits
          /\ call'[c].slot = J[c].slot /\ (J[c].cut => call'[c].cut)
      BY <1>4
    <2>2. /\ J[c].phase = call[c].phase /\ J[c].awaits = call[c].awaits
          /\ J[c].cut = call[c].cut
      BY <1>3
    <2>3. /\ \/ J[c].slot[g] = call[c].slot[g]
             \/ call[c].slot[g] = "joined" /\ J[c].slot[g] = "joined retry"
          /\ g \in Reaped(entry) => J[c].slot[g] # "joined"
      BY <1>3
    <2> QED
      BY <2>1, <2>2, <2>3
  <1>6. \A g \in Reaped(entry), c \in Calls : call'[c].slot[g] # "joined"
    BY <1>5 DEF Reaped
  <1>7. e \in [Handles -> EntryRecord] /\ e[h] = entry[h]
    BY <1>1, <1>2, Maintained, MaintainOne
  <1> HIDE DEF e
  <1>8. /\ entry' \in [Handles -> EntryRecord]
        /\ entry'[h].state = "testing" /\ entry'[h].run = entry[h].run
        /\ \A g \in Handles : g # h => entry'[g] = e[g]
    BY <1>1, <1>7 DEF EntryRecord, EntryStates
  <1>9. entry[h].run = NoCall
    BY <1>1 DEF PendingInv, RunsClaimed
  <1>10. PendingTypeOK'
    BY <1>1, <1>2, <1>4, <1>8 DEF PendingTypeOK
  <1>11. ASSUME NEW g \in Handles, g # h
         PROVE  /\ \/ entry'[g].state = entry[g].state /\ entry'[g].run = entry[g].run
                   \/ /\ entry'[g].state # "verifying" /\ entry'[g].run = NoCall
                      /\ entry[g].state = "verifying" => g \in Reaped(entry)
                /\ Keeps(g)
    BY <1>8, <1>11, MaintainOne DEF e, Keeps
  <1>12. EntriesCalm
    BY <1>1, <1>6, <1>8, <1>9, <1>11 DEF EntriesCalm
  <1>13. Stable
    BY <1>1, <1>11 DEF Stable, Keeps
  <1>14. CallsCalm
    BY <1>5 DEF CallsCalm
  <1> QED
    BY <1>1, <1>10, <1>12, <1>13, <1>14, CalmStep

\* A step that changes the entry of one delegation, which nobody is verifying or which keeps
\* its run, and no call.
LEMMA OneEntry ==
  ASSUME PendingInv, NEW h \in Handles, NEW r \in EntryRecord, entry' = [entry EXCEPT ![h] = r],
         UNCHANGED running, call' \in [Calls -> CallRecord], CallsCalm,
         \/ r.state = entry[h].state /\ r.run = entry[h].run /\ r.result = entry[h].result
         \/ entry[h].state = "testing" /\ r.state = "gone" /\ r.run = entry[h].run
  PROVE  PendingInv' /\ Stable
  <1>1. PendingTypeOK'
    BY DEF PendingInv, PendingTypeOK
  <1>2. entry[h].state # "verifying" => entry[h].run = NoCall
    BY DEF PendingInv, RunsClaimed
  <1>3. EntriesCalm /\ Stable
    BY <1>2 DEF PendingInv, PendingTypeOK, EntriesCalm, Stable, Keeps
  <1> QED
    BY <1>1, <1>3, CalmStep

LEMMA RequiredVerdictKeeps ==
  ASSUME PendingInv, NEW h \in Handles, NEW out \in {"pass", "fail", "unverifiable"},
         NEW pre, RequiredVerdict(h, out, pre)
  PROVE  PendingInv' /\ Stable
  <1> DEFINE bad == pre \cap Rejected(Owner[h], {}) # {}
             res == lineageDowngrade(ledger[Owner[h]], h, out, pre)
             r == [entry[h] EXCEPT !.state = "gone", !.cause = "required", !.inherits = bad,
                                   !.result = res]
  <1>1. /\ entry[h].state = "testing"
        /\ entry' = [entry EXCEPT ![h].state = "gone", ![h].cause = "required",
                                  ![h].inherits = bad, ![h].result = res]
        /\ UNCHANGED <<call, running>>
    BY DEF RequiredVerdict, queueVars
  <1>2. entry[h] \in EntryRecord /\ call \in [Calls -> CallRecord] /\ entry \in [Handles -> EntryRecord]
    BY DEF PendingInv, PendingTypeOK
  <1>3. bad \in BOOLEAN /\ res \in Verdicts
    BY DEF lineageDowngrade, Verdicts
  <1> HIDE DEF bad, res
  <1>4. r \in EntryRecord /\ r.state = "gone" /\ r.run = entry[h].run
    BY <1>2, <1>3 DEF EntryRecord, EntryStates
  <1>5. entry' = [entry EXCEPT ![h] = r]
    BY <1>1, <1>2 DEF EntryRecord
  <1> HIDE DEF r
  <1> QED
    BY <1>1, <1>2, <1>4, <1>5, OneEntry, SameCalls DEF PendingInv

LEMMA OverdueKeeps ==
  ASSUME PendingInv, NEW h \in Handles, Overdue(h) \/ Expire(h)
  PROVE  PendingInv' /\ Stable
  <1>1. UNCHANGED <<call, running>>
    BY DEF Overdue, Expire, queueVars
  <1>2. entry[h] \in EntryRecord /\ call \in [Calls -> CallRecord] /\ entry \in [Handles -> EntryRecord]
    BY DEF PendingInv, PendingTypeOK
  <1>3. PICK r \in {[entry[h] EXCEPT !.late = TRUE], [entry[h] EXCEPT !.ttl = TRUE]} :
          entry' = [entry EXCEPT ![h] = r]
    BY <1>2 DEF Overdue, Expire
  <1>4. /\ r \in EntryRecord /\ r.state = entry[h].state /\ r.run = entry[h].run
        /\ r.result = entry[h].result
    BY <1>2, <1>3 DEF EntryRecord
  <1> QED
    BY <1>1, <1>2, <1>3, <1>4, OneEntry, SameCalls DEF PendingInv

\* Steps that touch neither an entry nor a call.
LEMMA StillKeeps ==
  ASSUME PendingInv, UNCHANGED <<entry, call, running>>
  PROVE  PendingInv' /\ Stable
  <1>1. PendingTypeOK'
    BY DEF PendingInv, PendingTypeOK
  <1>2. EntriesCalm /\ Stable
    BY DEF EntriesCalm, Stable, Keeps
  <1> QED
    BY <1>1, <1>2, SameCalls, CalmStep DEF PendingInv

LEMMA NoticeStepsKeep ==
  ASSUME PendingInv,
         \/ NoticeExpires
         \/ \E s \in Sessions : TakeNotices(s) \/ LedgerExpires(s)
         \/ \E D \in SUBSET Queued : TimerPostpones(D)
  PROVE  PendingInv' /\ Stable
  <1>1. UNCHANGED <<entry, call, running>>
    BY DEF NoticeExpires, TakeNotices, LedgerExpires, TimerPostpones, regVars, queueVars
  <1> QED
    BY <1>1, StillKeeps

LEMMA DeadlineKeeps ==
  ASSUME PendingInv, NEW c \in Calls, Deadline(c)
  PROVE  PendingInv' /\ Stable
  <1>1. call' = [call EXCEPT ![c].cut = TRUE] /\ UNCHANGED <<entry, running>>
    BY DEF Deadline, regVars, queueVars
  <1>2. call' \in [Calls -> CallRecord] /\ CallsCalm
    BY <1>1 DEF PendingInv, PendingTypeOK, CallRecord, CallsCalm
  <1>3. PendingTypeOK' /\ EntriesCalm /\ Stable
    BY <1>1, <1>2 DEF PendingInv, PendingTypeOK, EntriesCalm, Stable, Keeps
  <1> QED
    BY <1>1, <1>2, <1>3, CalmStep

\* Aborting the run in flight for good.
Cancelled(cs) == [cs EXCEPT ![running].cancelled = TRUE, ![running].cut = TRUE]

LEMMA CancelledFields ==
  ASSUME NEW cs \in [Calls -> CallRecord], running \in Calls
  PROVE  /\ Cancelled(cs) \in [Calls -> CallRecord]
         /\ \A c \in Calls :
              LET d == Cancelled(cs)[c]
              IN  /\ d.phase = cs[c].phase /\ d.awaits = cs[c].awaits
                  /\ d.session = cs[c].session /\ d.slot = cs[c].slot
                  /\ cs[c].cut => d.cut
  <1> DEFINE r == cs[running]
             d == [r EXCEPT !.cancelled = TRUE, !.cut = TRUE]
  <1>1. d \in CallRecord /\ d.phase = r.phase /\ d.awaits = r.awaits /\ d.session = r.session
        /\ d.slot = r.slot /\ d.cut
    BY DEF CallRecord
  <1>2. Cancelled(cs) = [cs EXCEPT ![running] = d]
    BY DEF Cancelled
  <1> HIDE DEF d
  <1> QED
    BY <1>1, <1>2

\* An entry that is marked doomed stays an entry.
DoomedEntry(r) == [r EXCEPT !.doomed = TRUE]

LEMMA EntryDoomed ==
  ASSUME NEW r \in EntryRecord
  PROVE  DoomedEntry(r) \in EntryRecord /\ DoomedEntry(r).state = r.state /\ DoomedEntry(r).run = r.run
         /\ DoomedEntry(r).result = r.result
  <1>0. PICK yes : yes = TRUE
    OBVIOUS
  <1>e. PICK x : x = [r EXCEPT !.doomed = yes]
    OBVIOUS
  <1>1. x = [state |-> r.state, run |-> r.run, ttl |-> r.ttl, late |-> r.late,
             doomed |-> yes, result |-> r.result, bg |-> r.bg, replayed |-> r.replayed,
             cause |-> r.cause, inherits |-> r.inherits]
    BY <1>e DEF EntryRecord
  <1>2. /\ r.state \in EntryStates /\ r.run \in Calls \cup {NoCall} /\ r.result \in Verdicts
        /\ r.cause \in {"none", "session-gone", "ttl", "cap", "required", "disposed"}
        /\ {r.ttl, r.late, r.doomed, r.bg, r.replayed, r.inherits, yes} \subseteq BOOLEAN
    BY <1>0 DEF EntryRecord
  <1>4. x \in EntryRecord /\ x.state = r.state /\ x.run = r.run /\ x.result = r.result
    BY <1>1, <1>2 DEF EntryRecord
  <1>5. DoomedEntry(r) = x
    BY <1>0, <1>e DEF DoomedEntry
  <1> QED
    BY <1>4, <1>5

\* An entry that a run claims is being verified by it.
ClaimedBy(r, c) == [r EXCEPT !.state = "verifying", !.run = c, !.late = FALSE]

LEMMA EntryClaimed ==
  ASSUME NEW r \in EntryRecord, NEW c \in Calls
  PROVE  ClaimedBy(r, c) \in EntryRecord /\ ClaimedBy(r, c).state = "verifying"
         /\ ClaimedBy(r, c).run = c
  <1>0. PICK no : no = FALSE
    OBVIOUS
  <1>e. PICK x : x = [r EXCEPT !.state = "verifying", !.run = c, !.late = no]
    OBVIOUS
  <1>1. x = [state |-> "verifying", run |-> c, ttl |-> r.ttl, late |-> no,
             doomed |-> r.doomed, result |-> r.result, bg |-> r.bg, replayed |-> r.replayed,
             cause |-> r.cause, inherits |-> r.inherits]
    BY <1>e DEF EntryRecord
  <1>2. /\ r.state \in EntryStates /\ r.run \in Calls \cup {NoCall} /\ r.result \in Verdicts
        /\ r.cause \in {"none", "session-gone", "ttl", "cap", "required", "disposed"}
        /\ {r.ttl, r.late, r.doomed, r.bg, r.replayed, r.inherits, no} \subseteq BOOLEAN
    BY <1>0 DEF EntryRecord
  <1>3. "verifying" \in EntryStates
    BY DEF EntryStates
  <1>4. x \in EntryRecord /\ x.state = "verifying" /\ x.run = c
    BY <1>1, <1>2, <1>3 DEF EntryRecord
  <1>5. ClaimedBy(r, c) = x
    BY <1>0, <1>e DEF ClaimedBy
  <1> QED
    BY <1>4, <1>5

LEMMA ForgetSessionKeeps ==
  ASSUME PendingInv, NEW s \in Sessions, ForgetSession(s)
  PROVE  PendingInv' /\ Stable
  <1>1. /\ UNCHANGED running
        /\ call' = call \/ (running # NoCall /\ call' = Cancelled(call))
        /\ entry' = [h \in Handles |->
             CASE Owner[h] = s /\ entry[h].state = "verifying"
                    -> [entry[h] EXCEPT !.doomed = TRUE]
               [] Owner[h] = s /\ entry[h].state \in {"unverified", "verified"}
                    -> evict(entry[h], "session-gone")
               [] OTHER -> entry[h]]
    <2>1. UNCHANGED running
      BY DEF ForgetSession
    <2>2. call' = call \/ (running # NoCall /\ call' = Cancelled(call))
      BY DEF ForgetSession, Cancelled
    <2>3. forget(s)
      BY DEF ForgetSession
    <2> QED
      BY <2>1, <2>2, <2>3 DEF forget
  <1>2. call \in [Calls -> CallRecord] /\ entry \in [Handles -> EntryRecord]
    BY DEF PendingInv, PendingTypeOK
  <1>3. call' \in [Calls -> CallRecord] /\ CallsCalm
    <2>1. CASE call' = call
      BY <1>2, <2>1 DEF CallsCalm
    <2>2. CASE running # NoCall /\ call' = Cancelled(call)
      <3>1. running \in Calls
        BY <2>2, CallsDisjoint DEF PendingInv, PendingTypeOK
      <3> DEFINE P == Cancelled(call)
      <3>2. /\ P \in [Calls -> CallRecord]
            /\ \A c \in Calls :
                 /\ P[c].phase = call[c].phase /\ P[c].awaits = call[c].awaits
                 /\ P[c].slot = call[c].slot
                 /\ call[c].cut => P[c].cut
        BY <1>2, <3>1, CancelledFields
      <3>3. call' = P
        BY <2>2
      <3> HIDE DEF P
      <3> QED
        BY <3>2, <3>3 DEF CallsCalm
    <2> QED
      BY <1>1, <2>1, <2>2
  <1>4. ASSUME NEW h \in Handles
        PROVE  /\ entry'[h] \in EntryRecord
               /\ \/ entry'[h].state = entry[h].state /\ entry'[h].run = entry[h].run
                     /\ entry'[h].result = entry[h].result
                  \/ /\ entry[h].state # "verifying" /\ entry'[h].result = entry[h].result
                     /\ entry'[h].state = "gone" /\ entry'[h].run = NoCall
    <2>1. CASE Owner[h] = s /\ entry[h].state = "verifying"
      <3>1. entry'[h] = [entry[h] EXCEPT !.doomed = TRUE]
        BY <1>1, <2>1
      <3>2. entry[h] \in EntryRecord /\ entry'[h] = DoomedEntry(entry[h])
        BY <1>2, <3>1 DEF DoomedEntry
      <3> QED
        BY <3>2, EntryDoomed
    <2>2. CASE Owner[h] = s /\ entry[h].state \in {"unverified", "verified"}
      <3>1. entry'[h] = evict(entry[h], "session-gone")
        BY <1>1, <2>2
      <3> QED
        BY <1>2, <2>2, <3>1, EvictFields
    <2>3. CASE ~(Owner[h] = s /\ entry[h].state \in {"verifying", "unverified", "verified"})
      <3>1. entry'[h] = entry[h]
        BY <1>1, <2>3
      <3> QED
        BY <1>2, <3>1
    <2> QED
      BY <2>1, <2>2, <2>3
  <1>5. PendingTypeOK'
    <2>1. entry' \in [Handles -> EntryRecord]
      BY <1>1, <1>4
    <2> QED
      BY <1>1, <1>3, <2>1 DEF PendingInv, PendingTypeOK
  <1>6. EntriesCalm /\ Stable
    BY <1>4 DEF EntriesCalm, Stable, Keeps
  <1> QED
    BY <1>1, <1>3, <1>5, <1>6, CalmStep

LEMMA DisposeKeeps ==
  ASSUME PendingInv, Dispose
  PROVE  PendingInv' /\ Stable
  <1> DEFINE S == {h \in Handles : entry[h].state = "verifying"}
             J == Joiners(call, S, AllRetry)
  <1>1. /\ UNCHANGED running
        /\ call' = J \/ (running # NoCall /\ call' = Cancelled(J))
        /\ entry' = [h \in Handles |-> IF entry[h].state \in LiveStates
                                       THEN evict(entry[h], "disposed") ELSE entry[h]]
    <2>1. UNCHANGED running
      BY DEF Dispose
    <2>2. disposeQueue(J)
      BY DEF Dispose
    <2> HIDE DEF J
    <2>3. call' = J \/ (running # NoCall /\ call' = Cancelled(J))
      BY <2>2 DEF disposeQueue, Cancelled
    <2>4. entry' = [h \in Handles |-> IF entry[h].state \in LiveStates
                                     THEN evict(entry[h], "disposed") ELSE entry[h]]
      BY DEF Dispose
    <2> QED
      BY <2>1, <2>3, <2>4
  <1>2. call \in [Calls -> CallRecord] /\ entry \in [Handles -> EntryRecord]
    BY DEF PendingInv, PendingTypeOK
  <1>3. /\ J \in [Calls -> CallRecord]
        /\ \A c \in Calls :
             /\ J[c].phase = call[c].phase /\ J[c].awaits = call[c].awaits
             /\ J[c].cut = call[c].cut
             /\ \A h \in Handles :
                  J[c].slot[h] = IF h \in S /\ call[c].slot[h] = "joined" THEN AllRetry[h]
                                 ELSE call[c].slot[h]
    <2> HIDE DEF S
    <2>1. AllRetry \in [Handles -> Slots]
      BY AllRetryReport
    <2> QED
      BY <1>2, <2>1, JoinersFields
  <1> HIDE DEF J
  <1>4. /\ call' \in [Calls -> CallRecord]
        /\ \A c \in Calls :
             /\ call'[c].phase = J[c].phase /\ call'[c].awaits = J[c].awaits
             /\ call'[c].slot = J[c].slot /\ (J[c].cut => call'[c].cut)
    <2>1. CASE call' = J
      BY <1>3, <2>1
    <2>2. CASE running # NoCall /\ call' = Cancelled(J)
      <3>1. running \in Calls /\ J \in [Calls -> CallRecord]
        BY <1>3, <2>2, CallsDisjoint DEF PendingInv, PendingTypeOK
      <3> DEFINE P == Cancelled(J)
      <3>2. /\ P \in [Calls -> CallRecord]
            /\ \A c \in Calls :
                 /\ P[c].phase = J[c].phase /\ P[c].awaits = J[c].awaits
                 /\ P[c].slot = J[c].slot
                 /\ J[c].cut => P[c].cut
        BY <3>1, CancelledFields
      <3>3. call' = P
        BY <2>2
      <3> HIDE DEF P
      <3> QED
        BY <3>2, <3>3
    <2> QED
      BY <1>1, <2>1, <2>2
  <1>5. ASSUME NEW c \in Calls
        PROVE  /\ call'[c].phase = call[c].phase /\ call'[c].awaits = call[c].awaits
               /\ call[c].cut => call'[c].cut
               /\ \A h \in Handles :
                    /\ \/ call'[c].slot[h] = call[c].slot[h]
                       \/ call[c].slot[h] = "joined" /\ call'[c].slot[h] = "joined retry"
                    /\ entry[h].state = "verifying" => call'[c].slot[h] # "joined"
    <2>1. /\ call'[c].phase = J[c].phase /\ call'[c].awaits = J[c].awaits
          /\ call'[c].slot = J[c].slot /\ (J[c].cut => call'[c].cut)
      BY <1>4
    <2>2. /\ J[c].phase = call[c].phase /\ J[c].awaits = call[c].awaits
          /\ J[c].cut = call[c].cut
          /\ \A h \in Handles :
               J[c].slot[h] = IF h \in S /\ call[c].slot[h] = "joined" THEN AllRetry[h]
                              ELSE call[c].slot[h]
      BY <1>3
    <2> QED
      BY <2>1, <2>2, AllRetryReport
  <1>6. CallsCalm
    BY <1>5 DEF CallsCalm
  <1>7. ASSUME NEW h \in Handles
        PROVE  /\ entry'[h] \in EntryRecord /\ entry'[h].result = entry[h].result
               /\ \/ entry'[h] = entry[h] /\ entry[h].state \notin LiveStates
                  \/ entry'[h].state = "gone" /\ entry'[h].run = NoCall
    BY <1>1, <1>2, EvictFields
  <1>8. PendingTypeOK'
    <2>1. entry' \in [Handles -> EntryRecord]
      BY <1>1, <1>7
    <2> QED
      BY <1>1, <1>4, <2>1 DEF PendingInv, PendingTypeOK
  <1>9. EntriesCalm /\ Stable
    BY <1>5, <1>7 DEF EntriesCalm, Stable, Keeps, LiveStates
  <1> QED
    BY <1>1, <1>6, <1>8, <1>9, CalmStep

-----------------------------------------------------------------------------
(* Steps that bring one call forward. *)

Going == {"preparing", "testing"}

\* The other calls keep their phase, and their reports but those of joined runs resolved.
OthersCalm(c) ==
  \A d \in Calls \ {c} :
    /\ call'[d].phase = call[d].phase /\ call'[d].awaits = call[d].awaits
    /\ call[d].cut => call'[d].cut
    /\ \A h \in Handles :
         \/ call'[d].slot[h] = call[d].slot[h]
         \/ call[d].slot[h] = "joined" /\ call'[d].slot[h] \notin {"joined", "claimed"}

NobodyJoined(h) == \A d \in Calls : call'[d].slot[h] # "joined"

\* What a step of the call c may do to an entry: leave it, end its run, or claim it.
Stays(c, h) ==
  /\ entry'[h].state = entry[h].state /\ entry'[h].run = entry[h].run
  /\ entry[h].run = c => call'[c].slot[h] = "claimed" /\ call'[c].phase \in Going
Stops(h) ==
  /\ entry'[h].state # "verifying" /\ entry'[h].run = NoCall
  /\ entry[h].state = "verifying" => NobodyJoined(h)
Claimed(c, h) ==
  /\ entry'[h].state = "verifying" /\ entry'[h].run = c
  /\ call'[c].slot[h] = "claimed" /\ call'[c].phase \in Going
  /\ entry[h].state = "verifying" => NobodyJoined(h)

LEMMA MoveStep ==
  ASSUME PendingInv, NEW c \in Calls, OthersCalm(c),
         \A h \in Handles : Stays(c, h) \/ Stops(h) \/ Claimed(c, h),
         \A h \in Handles : call'[c].slot[h] = "joined" =>
           /\ entry'[h].state = "verifying"
           /\ c \in FgCalls /\ ~call'[c].cut => entry'[h].run \notin BgRuns
  PROVE  RunsClaimed' /\ JoinsGoing' /\ NoJoinOfBackground'
  <1>1. ASSUME NEW h \in Handles
        PROVE  IF entry'[h].state = "verifying"
               THEN /\ entry'[h].run \in Calls
                    /\ call'[entry'[h].run].slot[h] = "claimed"
                    /\ call'[entry'[h].run].phase \in Going
               ELSE entry'[h].run = NoCall
    <2>1. CASE Stays(c, h)
      <3>1. CASE entry[h].state = "verifying"
        <4>1. /\ entry[h].run \in Calls
              /\ call[entry[h].run].slot[h] = "claimed"
              /\ call[entry[h].run].phase \in Going
          BY <3>1 DEF PendingInv, RunsClaimed, Going
        <4>2. CASE entry[h].run = c
          BY <2>1, <3>1, <4>1, <4>2 DEF Stays
        <4>3. CASE entry[h].run # c
          BY <2>1, <3>1, <4>1, <4>3 DEF Stays, OthersCalm
        <4> QED
          BY <4>2, <4>3
      <3>2. CASE entry[h].state # "verifying"
        BY <2>1, <3>2 DEF Stays, PendingInv, RunsClaimed
      <3> QED
        BY <3>1, <3>2
    <2>2. CASE Stops(h)
      BY <2>2 DEF Stops
    <2>3. CASE Claimed(c, h)
      BY <2>3 DEF Claimed
    <2> QED
      BY <2>1, <2>2, <2>3
  <1>2. ASSUME NEW d \in Calls, d # c, NEW h \in Handles, call'[d].slot[h] = "joined"
        PROVE  /\ call[d].slot[h] = "joined" /\ entry'[h].state = "verifying"
               /\ entry'[h].run = entry[h].run
    <2>1. call[d].slot[h] = "joined"
      BY <1>2 DEF OthersCalm
    <2>2. entry[h].state = "verifying"
      BY <2>1 DEF PendingInv, JoinsGoing
    <2>3. ~NobodyJoined(h)
      BY <1>2 DEF NobodyJoined
    <2> QED
      BY <2>1, <2>2, <2>3 DEF Stays, Stops, Claimed
  <1>3. RunsClaimed'
    BY <1>1 DEF RunsClaimed, Going
  <1>4. JoinsGoing'
    BY <1>2 DEF JoinsGoing
  <1>5. NoJoinOfBackground'
    <2> SUFFICES ASSUME NEW d \in FgCalls, NEW h \in Handles,
                        call'[d].slot[h] = "joined", ~call'[d].cut
                 PROVE  entry'[h].run \notin BgRuns
      BY DEF NoJoinOfBackground
    <2>1. CASE d = c
      BY <2>1
    <2>2. CASE d # c
      <3>1. d \in Calls /\ ~call[d].cut
        BY <2>2, CallsDisjoint DEF OthersCalm
      <3> QED
        BY <1>2, <2>2, <3>1 DEF PendingInv, NoJoinOfBackground
    <2> QED
      BY <2>1, <2>2
  <1> QED
    BY <1>3, <1>4, <1>5

\* A call that is not at its claims or its gates verifies nothing.
LEMMA NotVerifying ==
  ASSUME PendingInv, NEW c \in Calls, call[c].phase \notin Going
  PROVE  \A h \in Handles : entry[h].run # c
  BY CallsDisjoint DEF PendingInv, RunsClaimed, Going

\* A step of a router_verify call leaves the background queue's run alone.
LEMMA ForegroundStep ==
  ASSUME PendingInv, NEW c \in FgCalls, OthersCalm(c), UNCHANGED running,
         call'[c].phase = "waiting" => call'[c].awaits = running
  PROVE  OneBackground' /\ WaitersAwait'
  <1>1. \A r \in BgRuns : r \in Calls /\ r # c /\ call'[r].phase = call[r].phase
    BY CallsDisjoint DEF OthersCalm
  <1>2. running \in BgRuns \cup {NoCall}
    BY DEF PendingInv, PendingTypeOK
  <1>3. OneBackground'
    BY <1>1, <1>2, CallsDisjoint DEF PendingInv, OneBackground
  <1>4. ASSUME NEW d \in FgCalls, call'[d].phase = "waiting"
        PROVE  /\ running' \in {NoCall, call'[d].awaits}
               /\ call'[d].awaits # NoCall => call'[call'[d].awaits].phase # "idle"
    <2>1. CASE d = c
      <3>1. call'[d].awaits = running
        BY <1>4, <2>1
      <3>2. running # NoCall => call[running].phase \in {"testing", "judged"} /\ running \in BgRuns
        BY <1>2 DEF PendingInv, OneBackground
      <3> QED
        BY <1>1, <3>1, <3>2
    <2>2. CASE d # c
      <3>1. /\ d \in Calls /\ call'[d].awaits = call[d].awaits
            /\ call[d].phase = "waiting"
        BY <1>4, <2>2, CallsDisjoint DEF OthersCalm
      <3>2. /\ running \in {NoCall, call[d].awaits}
            /\ call[d].awaits # NoCall => call[call[d].awaits].phase # "idle"
        BY <3>1 DEF PendingInv, WaitersAwait
      <3>3. call[d].awaits \in BgRuns \cup {NoCall}
        BY <3>1 DEF PendingInv, PendingTypeOK, CallRecord
      <3> QED
        BY <1>1, <3>1, <3>2, <3>3
    <2> QED
      BY <2>1, <2>2
  <1>5. WaitersAwait'
    BY <1>4 DEF WaitersAwait
  <1> QED
    BY <1>3, <1>5

LEMMA FgBeginKeeps ==
  ASSUME PendingInv, NEW c \in FgCalls, NEW s \in Sessions, NEW T, FgBegin(c, s, T)
  PROVE  PendingInv' /\ Stable
  <1> DEFINE new == [NewCall EXCEPT !.phase = "waiting", !.session = s, !.awaits = running,
                       !.slot = [h \in Handles |-> IF h \in T THEN "target" ELSE "no"]]
             P == Preempted(call)
  <1>1. /\ call[c].phase = "idle" /\ call' = [P EXCEPT ![c] = new]
        /\ UNCHANGED <<entry, running>>
    BY DEF FgBegin, regVars, queueVars
  <1>2. PendingTypeOK /\ c \in Calls
    BY CallsDisjoint DEF PendingInv
  <1>3. /\ new \in CallRecord /\ new.phase = "waiting" /\ new.awaits = running
        /\ \A h \in Handles : new.slot[h] \in {"target", "no"}
    BY <1>2 DEF NewCall, CallRecord, PendingTypeOK, Phases, Slots
  <1>4. /\ P \in [Calls -> CallRecord]
        /\ \A d \in Calls :
             /\ P[d].phase = call[d].phase /\ P[d].awaits = call[d].awaits
             /\ P[d].slot = call[d].slot /\ (call[d].cut => P[d].cut)
    <2>1. call \in [Calls -> CallRecord]
      BY <1>2 DEF PendingTypeOK
    <2> QED
      BY <1>2, <2>1, PreemptedFields
  <1> HIDE DEF new, P
  <1>5. call' \in [Calls -> CallRecord] /\ call'[c] = new /\ OthersCalm(c)
    BY <1>1, <1>2, <1>3, <1>4 DEF OthersCalm
  <1>6. PendingTypeOK' /\ Stable
    BY <1>1, <1>2, <1>5 DEF PendingTypeOK, Stable, Keeps
  <1>7. \A h \in Handles : Stays(c, h) /\ call'[c].slot[h] # "joined"
    BY <1>1, <1>2, <1>3, <1>5, NotVerifying DEF Stays, Going
  <1>8. RunsClaimed' /\ JoinsGoing' /\ NoJoinOfBackground'
    BY <1>2, <1>5, <1>7, MoveStep
  <1>9. OneBackground' /\ WaitersAwait'
    BY <1>1, <1>3, <1>5, ForegroundStep
  <1> QED
    BY <1>6, <1>8, <1>9 DEF PendingInv

LEMMA FinishedFields ==
  /\ Finished \in CallRecord /\ Finished.phase = "done"
  /\ \A h \in Handles : Finished.slot[h] = "no"
  BY DEF Finished, NewCall, CallRecord, Phases, Slots

LEMMA FgReportKeeps ==
  ASSUME PendingInv, NEW c \in FgCalls, FgReport(c)
  PROVE  PendingInv' /\ Stable
  <1>1. /\ call[c].phase = "judged" /\ call' = [call EXCEPT ![c] = Finished]
        /\ markReplayed(Terminal(c)) /\ UNCHANGED running
    BY DEF FgReport, Answered
  <1>2. PendingTypeOK /\ c \in Calls
    BY CallsDisjoint DEF PendingInv
  <1>3. ASSUME NEW h \in Handles
        PROVE  /\ entry'[h] \in EntryRecord /\ entry'[h].state = entry[h].state
               /\ entry'[h].run = entry[h].run /\ entry'[h].result = entry[h].result
    <2>1. entry[h] \in EntryRecord
      BY <1>2 DEF PendingTypeOK
    <2>2. entry'[h] = entry[h] \/ entry'[h] = [entry[h] EXCEPT !.replayed = TRUE]
      BY <1>1 DEF markReplayed
    <2> QED
      BY <2>1, <2>2 DEF EntryRecord
  <1>4. entry' \in [Handles -> EntryRecord]
    BY <1>1, <1>3 DEF markReplayed
  <1>5. call' \in [Calls -> CallRecord] /\ call'[c] = Finished /\ OthersCalm(c)
    BY <1>1, <1>2, FinishedFields DEF PendingTypeOK, OthersCalm
  <1>6. PendingTypeOK' /\ Stable
    BY <1>1, <1>2, <1>3, <1>4, <1>5 DEF PendingTypeOK, Stable, Keeps
  <1>7. \A h \in Handles : Stays(c, h) /\ call'[c].slot[h] # "joined"
    BY <1>1, <1>2, <1>3, <1>5, FinishedFields, NotVerifying DEF Stays, Going
  <1>8. RunsClaimed' /\ JoinsGoing' /\ NoJoinOfBackground'
    BY <1>2, <1>5, <1>7, MoveStep
  <1>9. OneBackground' /\ WaitersAwait'
    BY <1>1, <1>5, FinishedFields, ForegroundStep
  <1> QED
    BY <1>6, <1>8, <1>9 DEF PendingInv

LEMMA StartGatesKeeps ==
  ASSUME PendingInv, NEW c \in FgCalls, StartGates(c)
  PROVE  PendingInv' /\ Stable
  <1> DEFINE X == IF Claims(c) # {} THEN Preempted(call) ELSE call
             phase == IF Claims(c) = {} THEN "judged" ELSE "testing"
  <1>1. /\ call[c].phase = "preparing" /\ call' = [X EXCEPT ![c].phase = phase]
        /\ UNCHANGED <<entry, running>>
    BY DEF StartGates, regVars, queueVars
  <1>2. PendingTypeOK /\ c \in Calls
    BY CallsDisjoint DEF PendingInv
  <1>3. /\ X \in [Calls -> CallRecord]
        /\ \A d \in Calls :
             /\ X[d].phase = call[d].phase /\ X[d].awaits = call[d].awaits
             /\ X[d].slot = call[d].slot /\ (call[d].cut => X[d].cut)
    <2>1. call \in [Calls -> CallRecord]
      BY <1>2 DEF PendingTypeOK
    <2>2. CASE Claims(c) # {}
      BY <1>2, <2>1, <2>2, PreemptedFields
    <2>3. CASE Claims(c) = {}
      BY <2>1, <2>3
    <2> QED
      BY <2>2, <2>3
  <1> HIDE DEF X
  <1>4. /\ call' \in [Calls -> CallRecord] /\ OthersCalm(c)
        /\ call'[c].phase = phase /\ call'[c].slot = call[c].slot
        /\ call[c].cut => call'[c].cut
    <2>1. phase \in Phases
      BY DEF Phases
    <2> HIDE DEF phase
    <2> QED
      BY <1>1, <1>2, <1>3, <2>1 DEF OthersCalm, CallRecord
  <1>5. PendingTypeOK' /\ Stable
    BY <1>1, <1>2, <1>4 DEF PendingTypeOK, Stable, Keeps
  <1>6. \A h \in Handles : Stays(c, h)
    <2> SUFFICES ASSUME NEW h \in Handles, entry[h].run = c
                 PROVE  call'[c].slot[h] = "claimed" /\ call'[c].phase \in Going
      BY <1>1 DEF Stays
    <2>1. call[c].slot[h] = "claimed"
      BY <1>2, CallsDisjoint DEF PendingInv, RunsClaimed
    <2>2. Claims(c) # {}
      BY <2>1 DEF Claims
    <2> QED
      BY <1>4, <2>1, <2>2 DEF Going
  <1>7. \A h \in Handles : call'[c].slot[h] = "joined" =>
          /\ entry'[h].state = "verifying"
          /\ c \in FgCalls /\ ~call'[c].cut => entry'[h].run \notin BgRuns
    BY <1>1, <1>2, <1>4 DEF PendingInv, JoinsGoing, NoJoinOfBackground
  <1>8. RunsClaimed' /\ JoinsGoing' /\ NoJoinOfBackground'
    BY <1>2, <1>4, <1>6, <1>7, MoveStep
  <1>9. OneBackground' /\ WaitersAwait'
    BY <1>1, <1>4, ForegroundStep
  <1> QED
    BY <1>5, <1>8, <1>9 DEF PendingInv

LEMMA BgFinishKeeps ==
  ASSUME PendingInv, NEW c \in BgRuns, BgFinish(c)
  PROVE  PendingInv' /\ Stable
  <1>1. /\ call[c].phase = "judged" /\ call' = [call EXCEPT ![c] = Finished]
        /\ c = running /\ running' = NoCall /\ UNCHANGED entry
    BY DEF BgFinish, Answered, regVars
  <1>2. PendingTypeOK /\ c \in Calls /\ c \notin FgCalls
    BY CallsDisjoint DEF PendingInv
  <1>3. call' \in [Calls -> CallRecord] /\ call'[c] = Finished /\ OthersCalm(c)
    BY <1>1, <1>2, FinishedFields DEF PendingTypeOK, OthersCalm
  <1>4. PendingTypeOK' /\ Stable
    BY <1>1, <1>2, <1>3 DEF PendingTypeOK, Stable, Keeps
  <1>5. \A h \in Handles : Stays(c, h) /\ call'[c].slot[h] # "joined"
    BY <1>1, <1>2, <1>3, FinishedFields, NotVerifying DEF Stays, Going
  <1>6. RunsClaimed' /\ JoinsGoing' /\ NoJoinOfBackground'
    BY <1>2, <1>3, <1>5, MoveStep
  <1>7. OneBackground'
    BY <1>1, <1>3, CallsDisjoint, FinishedFields DEF PendingInv, OneBackground, OthersCalm
  <1>8. WaitersAwait'
    <2> SUFFICES ASSUME NEW d \in FgCalls, call'[d].phase = "waiting", call'[d].awaits # NoCall
                 PROVE  call'[call'[d].awaits].phase # "idle"
      BY <1>1 DEF WaitersAwait
    <2>1. /\ d \in Calls /\ call[d].phase = "waiting" /\ call'[d].awaits = call[d].awaits
      BY <1>2, <1>3, CallsDisjoint DEF OthersCalm
    <2>2. call[call[d].awaits].phase # "idle" /\ call[d].awaits \in BgRuns
      BY <1>2, <2>1 DEF PendingInv, WaitersAwait, PendingTypeOK, CallRecord
    <2> QED
      BY <1>3, <2>1, <2>2, CallsDisjoint, FinishedFields DEF OthersCalm
  <1> QED
    BY <1>4, <1>6, <1>7, <1>8 DEF PendingInv

-----------------------------------------------------------------------------
(* Claiming. *)

\* A claim takes exactly the unverified targets of its session, and joins exactly the
\* targets that are being verified.
LEMMA ClaimFields ==
  ASSUME NEW e \in [Handles -> EntryRecord], NEW c \in Calls, NEW s, NEW T
  PROVE  /\ ClaimedEntry(e, c, s, T) \in [Handles -> EntryRecord]
         /\ ClaimSlots(e, s, T) \in [Handles -> Slots]
         /\ \A h \in Handles :
              \/ /\ e[h].state = "unverified"
                 /\ ClaimedEntry(e, c, s, T)[h].state = "verifying"
                 /\ ClaimedEntry(e, c, s, T)[h].run = c
                 /\ ClaimSlots(e, s, T)[h] = "claimed"
              \/ /\ ClaimedEntry(e, c, s, T)[h] = e[h]
                 /\ ClaimSlots(e, s, T)[h] # "claimed"
                 /\ ClaimSlots(e, s, T)[h] = "joined" => e[h].state = "verifying"
         /\ \A h \in Handles : ClaimSlots(e, s, T)[h] = "claimed" =>
              h \in T /\ markVerifying(e, s, h) = "claimed"
  <1>1. \A h \in Handles :
          \/ markVerifying(e, s, h) = "gone"
          \/ markVerifying(e, s, h) = "cached" /\ e[h].state = "verified"
          \/ markVerifying(e, s, h) = "joined" /\ e[h].state = "verifying"
          \/ markVerifying(e, s, h) = "claimed" /\ e[h].state = "unverified"
    BY DEF markVerifying, lookup, LiveStates
  <1>2. \A h \in Handles : ClaimSlots(e, s, T)[h] = IF h \in T THEN markVerifying(e, s, h) ELSE "no"
    BY DEF ClaimSlots
  <1>3. \A h \in Handles :
          \/ /\ h \in T /\ markVerifying(e, s, h) = "claimed"
             /\ ClaimedEntry(e, c, s, T)[h] =
                  [e[h] EXCEPT !.state = "verifying", !.run = c, !.late = FALSE]
          \/ /\ ~(h \in T /\ markVerifying(e, s, h) = "claimed")
             /\ ClaimedEntry(e, c, s, T)[h] = e[h]
    BY DEF ClaimedEntry
  <1>4. \A h \in Handles :
          LET q == [e[h] EXCEPT !.state = "verifying", !.run = c, !.late = FALSE]
          IN  q \in EntryRecord /\ q.state = "verifying" /\ q.run = c
    <2> TAKE h \in Handles
    <2>1. ClaimedBy(e[h], c) = [e[h] EXCEPT !.state = "verifying", !.run = c, !.late = FALSE]
      BY DEF ClaimedBy
    <2>2. e[h] \in EntryRecord
      OBVIOUS
    <2>3. /\ ClaimedBy(e[h], c) \in EntryRecord
          /\ ClaimedBy(e[h], c).state = "verifying" /\ ClaimedBy(e[h], c).run = c
      BY <2>2, EntryClaimed
    <2> QED
      BY <2>1, <2>3
  <1>5. \A h \in Handles : ClaimedEntry(e, c, s, T)[h] \in EntryRecord
    BY <1>3, <1>4
  <1>6. ClaimedEntry(e, c, s, T) \in [Handles -> EntryRecord]
    BY <1>5 DEF ClaimedEntry
  <1>7. \A h \in Handles : ClaimSlots(e, s, T)[h] \in Slots
    BY <1>1, <1>2 DEF Slots
  <1>8. ClaimSlots(e, s, T) \in [Handles -> Slots]
    BY <1>7 DEF ClaimSlots
  <1>9. ASSUME NEW h \in Handles
        PROVE  /\ \/ /\ e[h].state = "unverified"
                     /\ ClaimedEntry(e, c, s, T)[h].state = "verifying"
                     /\ ClaimedEntry(e, c, s, T)[h].run = c
                     /\ ClaimSlots(e, s, T)[h] = "claimed"
                  \/ /\ ClaimedEntry(e, c, s, T)[h] = e[h]
                     /\ ClaimSlots(e, s, T)[h] # "claimed"
                     /\ ClaimSlots(e, s, T)[h] = "joined" => e[h].state = "verifying"
               /\ ClaimSlots(e, s, T)[h] = "claimed" =>
                    h \in T /\ markVerifying(e, s, h) = "claimed"
    <2>1. CASE h \in T /\ markVerifying(e, s, h) = "claimed"
      <3>1. ClaimedEntry(e, c, s, T)[h] =
              [e[h] EXCEPT !.state = "verifying", !.run = c, !.late = FALSE]
        BY <1>3, <2>1
      <3>2. ClaimedEntry(e, c, s, T)[h].state = "verifying" /\ ClaimedEntry(e, c, s, T)[h].run = c
        BY <1>4, <3>1
      <3> QED
        BY <1>1, <1>2, <2>1, <3>2
    <2>2. CASE ~(h \in T /\ markVerifying(e, s, h) = "claimed")
      BY <1>1, <1>2, <1>3, <2>2
    <2> QED
      BY <2>1, <2>2
  <1> QED
    BY <1>6, <1>8, <1>9

LEMMA ClaimMoves ==
  ASSUME PendingInv, NEW c \in Calls, call[c].phase \notin Going, NEW s, NEW T,
         entry' = ClaimedEntry(maintain(entry), c, s, T),
         call'[c].slot = ClaimSlots(maintain(entry), s, T),
         (\E h \in Handles : call'[c].slot[h] = "claimed") => call'[c].phase \in Going,
         \A h \in Reaped(entry), d \in Calls \ {c} : call'[d].slot[h] # "joined",
         NEW h \in Handles
  PROVE  /\ Stays(c, h) \/ Stops(h) \/ Claimed(c, h)
         /\ call'[c].slot[h] = "joined" =>
              entry'[h].state = "verifying" /\ entry'[h].run = entry[h].run
         /\ Keeps(h)
         /\ entry' \in [Handles -> EntryRecord]
         /\ call'[c].slot \in [Handles -> Slots]
  <1> DEFINE e == maintain(entry)
             slot == ClaimSlots(e, s, T)
  <1>1. /\ e[h] \in EntryRecord
        /\ \/ e[h].state = entry[h].state /\ e[h].run = entry[h].run
           \/ /\ e[h].state \in {"unverified", "gone"} /\ e[h].run = NoCall
              /\ entry[h].state = "verifying" => h \in Reaped(entry)
        /\ entry[h].state = "verified" =>
             e[h].result = entry[h].result /\ e[h].state \in {"verified", "gone"}
    BY MaintainOne
  <1>2. e \in [Handles -> EntryRecord]
    BY Maintained DEF PendingInv
  <1>3. entry' = ClaimedEntry(e, c, s, T) /\ call'[c].slot = slot
    OBVIOUS
  <1> HIDE DEF e
  <1>4. /\ entry' \in [Handles -> EntryRecord] /\ slot \in [Handles -> Slots]
        /\ \/ /\ e[h].state = "unverified"
              /\ entry'[h].state = "verifying" /\ entry'[h].run = c
              /\ slot[h] = "claimed"
           \/ /\ entry'[h] = e[h] /\ slot[h] # "claimed"
              /\ slot[h] = "joined" => e[h].state = "verifying"
    BY <1>2, <1>3, ClaimFields
  <1> HIDE DEF slot
  <1>5. entry[h].run # c
    BY NotVerifying
  <1>6. h \in Reaped(entry) => \A d \in Calls : d # c => call'[d].slot[h] # "joined"
    OBVIOUS
  <1>7. CASE e[h].state = "unverified" /\ slot[h] = "claimed"
    <2>1. entry'[h].state = "verifying" /\ entry'[h].run = c
      BY <1>4, <1>7
    <2>2. entry[h].state = "verifying" => NobodyJoined(h)
      BY <1>1, <1>3, <1>6, <1>7 DEF NobodyJoined
    <2>3. Claimed(c, h)
      BY <1>3, <1>7, <2>1, <2>2 DEF Claimed
    <2>4. Keeps(h)
      BY <1>1, <1>7 DEF Keeps
    <2> QED
      BY <1>3, <1>4, <1>7, <2>3, <2>4
  <1>8. CASE slot[h] # "claimed"
    <2>1. entry'[h] = e[h] /\ (slot[h] = "joined" => e[h].state = "verifying")
      BY <1>4, <1>8
    <2>2. CASE e[h].state = entry[h].state /\ e[h].run = entry[h].run
      <3>1. Stays(c, h)
        BY <1>5, <2>1, <2>2 DEF Stays
      <3>2. Keeps(h)
        BY <1>1, <2>1 DEF Keeps
      <3> QED
        BY <1>3, <1>4, <2>1, <2>2, <3>1, <3>2
    <2>3. CASE /\ e[h].state \in {"unverified", "gone"} /\ e[h].run = NoCall
               /\ entry[h].state = "verifying" => h \in Reaped(entry)
      <3>1. call'[c].slot[h] # "joined"
        BY <1>3, <2>1, <2>3
      <3>2. Stops(h)
        BY <1>6, <2>1, <2>3, <3>1 DEF Stops, NobodyJoined
      <3>3. Keeps(h)
        BY <1>1, <2>1 DEF Keeps
      <3> QED
        BY <1>3, <1>4, <3>1, <3>2, <3>3
    <2> QED
      BY <1>1, <2>2, <2>3
  <1> QED
    BY <1>4, <1>7, <1>8

\* The claims of a router_verify call, after the run it preempted.
LEMMA FgClaimKeeps ==
  ASSUME PendingInv, NEW c \in FgCalls, FgClaim(c)
  PROVE  PendingInv' /\ Stable
  <1> DEFINE e == maintain(entry)
             s == call[c].session
             T == {h \in Handles : call[c].slot[h] = "target"}
             J == Joiners(call, Reaped(entry), AllRetry)
             slot == ClaimSlots(e, s, T)
             new == [J[c] EXCEPT !.phase = "preparing", !.awaits = NoCall, !.slot = slot]
  <1>1. /\ call[c].phase = "waiting" /\ Waited(c)
        /\ entry' = ClaimedEntry(e, c, s, T)
        /\ call' = [J EXCEPT ![c].phase = "preparing", ![c].awaits = NoCall, ![c].slot = slot]
        /\ UNCHANGED running
    BY DEF FgClaim, queueVars
  <1>2. PendingTypeOK /\ c \in Calls
    BY CallsDisjoint DEF PendingInv
  <1>3. /\ J \in [Calls -> CallRecord]
        /\ \A d \in Calls :
             /\ J[d].phase = call[d].phase /\ J[d].awaits = call[d].awaits
             /\ J[d].cut = call[d].cut
             /\ \A h \in Handles :
                  /\ \/ J[d].slot[h] = call[d].slot[h]
                     \/ call[d].slot[h] = "joined" /\ J[d].slot[h] = "joined retry"
                  /\ h \in Reaped(entry) => J[d].slot[h] # "joined"
    BY <1>2, ReapedJoiners
  <1>4. slot \in [Handles -> Slots]
    BY <1>2, Maintained, ClaimFields
  <1> HIDE DEF J, slot
  <1>5. /\ new \in CallRecord /\ new.phase = "preparing" /\ new.slot = slot
        /\ new.cut = J[c].cut
    <2>1. J[c] \in CallRecord
      BY <1>2, <1>3
    <2> QED
      BY <1>4, <2>1 DEF CallRecord, Phases
  <1>6. call' = [J EXCEPT ![c] = new]
    BY <1>1, <1>2, <1>3 DEF CallRecord
  <1> HIDE DEF new
  <1>7. call' \in [Calls -> CallRecord] /\ call'[c] = new /\ \A d \in Calls : d # c => call'[d] = J[d]
    BY <1>2, <1>3, <1>5, <1>6
  <1>8. OthersCalm(c)
    <2> SUFFICES ASSUME NEW d \in Calls \ {c}
                 PROVE  /\ call'[d].phase = call[d].phase /\ call'[d].awaits = call[d].awaits
                        /\ call[d].cut => call'[d].cut
                        /\ \A h \in Handles :
                             \/ call'[d].slot[h] = call[d].slot[h]
                             \/ call[d].slot[h] = "joined" /\ call'[d].slot[h] \notin {"joined", "claimed"}
      BY DEF OthersCalm
    <2>1. call'[d] = J[d]
      BY <1>7
    <2>2. /\ J[d].phase = call[d].phase /\ J[d].awaits = call[d].awaits
          /\ J[d].cut = call[d].cut
      BY <1>3
    <2>3. \A h \in Handles :
            \/ J[d].slot[h] = call[d].slot[h]
            \/ call[d].slot[h] = "joined" /\ J[d].slot[h] = "joined retry"
      BY <1>3
    <2> QED
      BY <2>1, <2>2, <2>3
  <1>9. \A h \in Reaped(entry), d \in Calls \ {c} : call'[d].slot[h] # "joined"
    <2> SUFFICES ASSUME NEW h \in Reaped(entry), NEW d \in Calls \ {c}
                 PROVE  call'[d].slot[h] # "joined"
      OBVIOUS
    <2>1. call'[d] = J[d] /\ h \in Handles
      BY <1>7 DEF Reaped
    <2>2. J[d].slot[h] # "joined"
      BY <1>3, <2>1
    <2> QED
      BY <2>1, <2>2
  <1>10. /\ call[c].phase \notin Going
         /\ call'[c].slot = ClaimSlots(maintain(entry), s, T)
         /\ call'[c].phase \in Going
         /\ entry' = ClaimedEntry(maintain(entry), c, s, T)
    BY <1>1, <1>5, <1>7 DEF Going, slot
  <1> HIDE DEF s, T
  <1>11. ASSUME NEW h \in Handles
         PROVE  /\ Stays(c, h) \/ Stops(h) \/ Claimed(c, h)
                /\ call'[c].slot[h] = "joined" =>
                     entry'[h].state = "verifying" /\ entry'[h].run = entry[h].run
                /\ Keeps(h)
    BY <1>2, <1>9, <1>10, ClaimMoves
  <1>12. entry' \in [Handles -> EntryRecord]
    BY <1>2, <1>10, Maintained, ClaimFields
  <1>13. PendingTypeOK' /\ Stable
    BY <1>1, <1>2, <1>7, <1>11, <1>12 DEF PendingTypeOK, Stable
  \* Without a cut the background run it awaited is done, so that nobody in the background is
  \* verifying anything.
  <1>14. ~call'[c].cut => \A h \in Handles : entry[h].run \notin BgRuns
    <2> SUFFICES ASSUME ~call'[c].cut, NEW h \in Handles, entry[h].run \in BgRuns PROVE FALSE
      OBVIOUS
    <2>1. ~call[c].cut
      BY <1>2, <1>3, <1>5, <1>7
    <2>2. /\ entry[h].run \in Calls /\ call[entry[h].run].phase \in Going
      BY CallsDisjoint DEF PendingInv, RunsClaimed, Going
    <2>3. entry[h].run = running /\ running # NoCall
      BY <2>2, CallsDisjoint DEF PendingInv, OneBackground, Going
    <2>4. running = call[c].awaits
      BY <1>1, <2>3 DEF PendingInv, WaitersAwait
    <2>5. call[running].phase = "done"
      BY <1>1, <2>1, <2>3, <2>4 DEF Waited
    <2> QED
      BY <2>2, <2>3, <2>5 DEF Going
  <1>15. RunsClaimed' /\ JoinsGoing' /\ NoJoinOfBackground'
    <2>1. \A h \in Handles : call'[c].slot[h] = "joined" =>
            /\ entry'[h].state = "verifying"
            /\ c \in FgCalls /\ ~call'[c].cut => entry'[h].run \notin BgRuns
      BY <1>11, <1>14
    <2> QED
      BY <1>2, <1>8, <1>11, <2>1, MoveStep
  <1>16. OneBackground' /\ WaitersAwait'
    BY <1>1, <1>5, <1>7, <1>8, ForegroundStep
  <1> QED
    BY <1>13, <1>15, <1>16 DEF PendingInv

\* The claims of a background run, which starts when none is in flight and every call that
\* waited for one has gone on.
LEMMA BgStartKeeps ==
  ASSUME PendingInv, NEW c \in BgRuns, NEW lead \in Handles, NEW D, BgStart(c, lead, D)
  PROVE  PendingInv' /\ Stable
  <1> DEFINE e == maintain(entry)
             s == Owner[lead]
             T == {h \in Queued : Owner[h] = s /\ (isFresh(h) \/ h \in D)}
             J == Joiners(call, Reaped(entry), AllRetry)
             slot == ClaimSlots(e, s, T)
             phase == IF \E h \in T : markVerifying(e, s, h) = "claimed" THEN "testing" ELSE "judged"
             new == [NewCall EXCEPT !.session = s, !.phase = phase, !.slot = slot]
  <1>1. /\ running = NoCall /\ Drained /\ call[c].phase = "idle" /\ running' = c
        /\ entry' = ClaimedEntry(e, c, s, T)
        /\ call' = [J EXCEPT ![c] = new]
    BY DEF BgStart
  <1>2. PendingTypeOK /\ c \in Calls /\ c \notin FgCalls /\ s \in Sessions
    BY CallsDisjoint, PendingAssumption DEF PendingInv
  <1>3. /\ J \in [Calls -> CallRecord]
        /\ \A d \in Calls :
             /\ J[d].phase = call[d].phase /\ J[d].awaits = call[d].awaits
             /\ J[d].cut = call[d].cut
             /\ \A h \in Handles :
                  /\ \/ J[d].slot[h] = call[d].slot[h]
                     \/ call[d].slot[h] = "joined" /\ J[d].slot[h] = "joined retry"
                  /\ h \in Reaped(entry) => J[d].slot[h] # "joined"
    BY <1>2, ReapedJoiners
  <1>4. /\ slot \in [Handles -> Slots]
        /\ \A h \in Handles : slot[h] = "claimed" => phase = "testing"
        /\ phase \in {"testing", "judged"}
    BY <1>2, Maintained, ClaimFields
  <1> HIDE DEF J, slot, phase, s
  <1>5. new \in CallRecord /\ new.phase = phase /\ new.slot = slot
    BY <1>2, <1>4 DEF NewCall, CallRecord, Phases
  <1> HIDE DEF new
  <1>6. call' \in [Calls -> CallRecord] /\ call'[c] = new /\ \A d \in Calls : d # c => call'[d] = J[d]
    <2>1. J \in [Calls -> CallRecord] /\ c \in Calls /\ new \in CallRecord /\ call' = [J EXCEPT ![c] = new]
      BY <1>1, <1>2, <1>3, <1>5
    <2> HIDE DEF CallRecord
    <2> QED
      BY ONLY <2>1
  <1>7. OthersCalm(c)
    <2> SUFFICES ASSUME NEW d \in Calls \ {c}
                 PROVE  /\ call'[d].phase = call[d].phase /\ call'[d].awaits = call[d].awaits
                        /\ call[d].cut => call'[d].cut
                        /\ \A h \in Handles :
                             \/ call'[d].slot[h] = call[d].slot[h]
                             \/ call[d].slot[h] = "joined" /\ call'[d].slot[h] \notin {"joined", "claimed"}
      BY DEF OthersCalm
    <2>1. call'[d] = J[d]
      BY <1>6
    <2>2. /\ J[d].phase = call[d].phase /\ J[d].awaits = call[d].awaits
          /\ J[d].cut = call[d].cut
      BY <1>3
    <2>3. \A h \in Handles :
            \/ J[d].slot[h] = call[d].slot[h]
            \/ call[d].slot[h] = "joined" /\ J[d].slot[h] = "joined retry"
      BY <1>3
    <2> QED
      BY <2>1, <2>2, <2>3
  <1>8. \A h \in Reaped(entry), d \in Calls \ {c} : call'[d].slot[h] # "joined"
    <2> SUFFICES ASSUME NEW h \in Reaped(entry), NEW d \in Calls \ {c}
                 PROVE  call'[d].slot[h] # "joined"
      OBVIOUS
    <2>1. call'[d] = J[d] /\ h \in Handles
      BY <1>6 DEF Reaped
    <2>2. J[d].slot[h] # "joined"
      BY <1>3, <2>1
    <2> QED
      BY <2>1, <2>2
  <1>9. /\ call[c].phase \notin Going
        /\ call'[c].slot = ClaimSlots(maintain(entry), s, T)
        /\ (\E h \in Handles : call'[c].slot[h] = "claimed") => call'[c].phase \in Going
        /\ entry' = ClaimedEntry(maintain(entry), c, s, T)
    BY <1>1, <1>4, <1>5, <1>6 DEF Going, slot
  <1> HIDE DEF T
  <1>10. ASSUME NEW h \in Handles
         PROVE  /\ Stays(c, h) \/ Stops(h) \/ Claimed(c, h)
                /\ call'[c].slot[h] = "joined" => entry'[h].state = "verifying"
                /\ Keeps(h)
    BY <1>2, <1>8, <1>9, ClaimMoves
  <1>11. entry' \in [Handles -> EntryRecord]
    BY <1>2, <1>9, Maintained, ClaimFields
  <1>12. PendingTypeOK' /\ Stable
    BY <1>1, <1>2, <1>6, <1>10, <1>11 DEF PendingTypeOK, Stable
  <1>13. RunsClaimed' /\ JoinsGoing' /\ NoJoinOfBackground'
    BY <1>2, <1>7, <1>10, MoveStep
  <1>14. OneBackground'
    <2>1. \A r \in BgRuns : r # c => call'[r].phase \in {"idle", "done"}
      BY <1>1, <1>7, CallsDisjoint DEF PendingInv, OneBackground, OthersCalm
    <2> QED
      BY <1>1, <1>4, <1>5, <1>6, <2>1 DEF OneBackground
  <1>15. WaitersAwait'
    <2> SUFFICES ASSUME NEW d \in FgCalls, call'[d].phase = "waiting" PROVE FALSE
      BY DEF WaitersAwait
    <2>1. d \in Calls /\ call[d].phase = "waiting"
      BY <1>2, <1>7, CallsDisjoint DEF OthersCalm
    <2>2. ASSUME NEW r \in BgRuns, call[d].awaits = r PROVE call[r].phase = "done"
      BY <1>1, <2>1, <2>2, CallsDisjoint DEF PendingInv, OneBackground, WaitersAwait
    <2>3. Waited(d)
      BY <2>2 DEF Waited
    <2> QED
      BY <1>1, <2>1, <2>3 DEF Drained
  <1> QED
    BY <1>12, <1>13, <1>14, <1>15 DEF PendingInv

-----------------------------------------------------------------------------
(* Judging. *)

\* What leaves an accepted settle is verified by nobody.
LEMMA AfterSettle ==
  ASSUME NEW r \in EntryRecord, NEW q \in EntryRecord, q.run = NoCall,
         q.state \in {"unverified", "verified"}
  PROVE  /\ afterSettle(r, q) \in EntryRecord
         /\ afterSettle(r, q).run = NoCall
         /\ afterSettle(r, q).state # "verifying"
  <1>1. /\ evict(q, "session-gone") \in EntryRecord /\ evict(q, "ttl") \in EntryRecord
        /\ evict(q, "session-gone").run = NoCall /\ evict(q, "ttl").run = NoCall
        /\ evict(q, "session-gone").state = "gone" /\ evict(q, "ttl").state = "gone"
    BY EvictFields
  <1>2. \/ afterSettle(r, q) = evict(q, "session-gone")
        \/ afterSettle(r, q) = evict(q, "ttl")
        \/ afterSettle(r, q) = q
    BY DEF afterSettle, EntryRecord
  <1> QED
    BY <1>1, <1>2

LEMMA JudgeKeeps ==
  ASSUME PendingInv, NEW c \in Calls, NEW g,
         \A h \in Claims(c) : g[h] \in GateResults(c, h), Judge(c, g)
  PROVE  PendingInv' /\ Stable
  <1> DEFINE e == IF \E h \in Claims(c) : g[h].out = "pass" /\ g[h].pre # {}
                  THEN maintain(entry) ELSE entry
             ok == Settles(c, e)
             known == Rejected(call[c].session, {h \in ok : g[h].out = "fail"})
             worse(h) == g[h].pre \cap known # {}
             settled(h) == [finishRun(e[h], judgeVerdict(c, g, h), g[h].retry, c \in BgRuns)
                            EXCEPT !.inherits = worse(h)]
             final(h) == h \in ok /\ ~g[h].retry
             heard == [h \in Handles |-> IF final(h) THEN "joined final" ELSE "joined retry"]
             S == (Reaped(entry) \ Reaped(e)) \cup ok
             J == Joiners(call, S, heard)
             slot == [h \in Handles |-> IF h \notin Claims(c) THEN J[c].slot[h]
                                        ELSE IF final(h) THEN "final" ELSE "retry"]
             new == [J[c] EXCEPT !.phase = "judged", !.slot = slot]
  <1>1. /\ call[c].phase = "testing"
        /\ entry' = [h \in Handles |->
             IF h \in ok THEN afterSettle(e[h], settled(h)) ELSE e[h]]
        /\ call' = [J EXCEPT ![c].phase = "judged",
                             ![c].slot = [h \in Handles |-> IF h \notin Claims(c) THEN @[h]
                                          ELSE IF final(h) THEN "final" ELSE "retry"]]
        /\ UNCHANGED running
    BY DEF Judge, queueVars
  <1>2. PendingTypeOK
    BY DEF PendingInv
  <1>3. /\ e \in [Handles -> EntryRecord]
        /\ \A h \in Handles :
             /\ \/ e[h].state = entry[h].state /\ e[h].run = entry[h].run
                \/ /\ e[h].state \in {"unverified", "gone"} /\ e[h].run = NoCall
                   /\ entry[h].state = "verifying" => h \in Reaped(entry) \ Reaped(e)
             /\ entry[h].state = "verified" =>
                  e[h].result = entry[h].result /\ e[h].state \in {"verified", "gone"}
    <2>1. CASE e = entry
      BY <1>2, <2>1 DEF PendingTypeOK
    <2>2. CASE e = maintain(entry)
      <3> HIDE DEF e
      <3>1. e \in [Handles -> EntryRecord]
        BY <1>2, <2>2, Maintained
      <3>2. \A h \in Handles : e[h].state # "verifying" => h \notin Reaped(e)
        BY DEF Reaped
      <3> QED
        BY <2>2, <3>1, <3>2, MaintainOne
    <2> QED
      BY <2>1, <2>2
  <1>4. heard \in [Handles -> Slots] /\ \A h \in Handles : heard[h] \in {"joined final", "joined retry"}
    BY DEF Slots
  <1>5. ok = {h \in Claims(c) : e[h].run = c} /\ Claims(c) = {h \in Handles : call[c].slot[h] = "claimed"}
    BY DEF Settles, Claims
  <1> HIDE DEF e, ok, heard
  <1>6. /\ J \in [Calls -> CallRecord]
        /\ \A d \in Calls :
             /\ J[d].phase = call[d].phase /\ J[d].awaits = call[d].awaits
             /\ J[d].cut = call[d].cut
             /\ \A h \in Handles :
                  J[d].slot[h] = IF h \in S /\ call[d].slot[h] = "joined" THEN heard[h]
                                 ELSE call[d].slot[h]
    <2>1. call \in [Calls -> CallRecord]
      BY <1>2 DEF PendingTypeOK
    <2>2. heard \in [Handles -> Slots]
      BY <1>4
    <2> HIDE DEF S
    <2>3. /\ Joiners(call, S, heard) \in [Calls -> CallRecord]
          /\ \A d \in Calls :
               LET q == Joiners(call, S, heard)[d]
               IN  /\ q.phase = call[d].phase /\ q.awaits = call[d].awaits
                   /\ q.session = call[d].session /\ q.cut = call[d].cut
                   /\ q.preempted = call[d].preempted /\ q.cancelled = call[d].cancelled
                   /\ \A h \in Handles :
                        q.slot[h] = IF h \in S /\ call[d].slot[h] = "joined" THEN heard[h]
                                    ELSE call[d].slot[h]
      BY <2>1, <2>2, JoinersFields
    <2> QED
      BY <2>3
  <1> HIDE DEF J, S
  <1>7. ASSUME NEW d \in Calls, NEW h \in Handles
        PROVE  /\ \/ J[d].slot[h] = call[d].slot[h]
                  \/ call[d].slot[h] = "joined" /\ J[d].slot[h] \notin {"joined", "claimed"}
               /\ h \in S => J[d].slot[h] # "joined"
    BY <1>4, <1>6
  <1>8. /\ slot \in [Handles -> Slots]
        /\ \A h \in Claims(c) : slot[h] \in {"final", "retry"}
        /\ \A h \in Handles : h \notin Claims(c) => slot[h] = J[c].slot[h]
    <2>1. \A h \in Handles : J[c].slot[h] \in Slots
      BY <1>6 DEF CallRecord
    <2> HIDE DEF final
    <2>2. \A h \in Handles : slot[h] \in Slots
      BY <2>1 DEF Slots
    <2> QED
      BY <1>5, <2>2
  <1>9. call' = [J EXCEPT ![c].phase = "judged", ![c].slot = slot]
    BY <1>1, <1>6
  <1> HIDE DEF slot
  <1>10. new \in CallRecord /\ new.phase = "judged" /\ new.slot = slot /\ new.cut = J[c].cut
    <2>1. J[c] \in CallRecord
      BY <1>6
    <2> QED
      BY <1>8, <2>1 DEF CallRecord, Phases
  <1>11. call' = [J EXCEPT ![c] = new]
    BY <1>6, <1>9 DEF CallRecord
  <1> HIDE DEF new
  <1>12. call' \in [Calls -> CallRecord] /\ call'[c] = new /\ \A d \in Calls : d # c => call'[d] = J[d]
    BY <1>6, <1>10, <1>11
  <1>13. OthersCalm(c)
    <2> SUFFICES ASSUME NEW d \in Calls \ {c}
                 PROVE  /\ call'[d].phase = call[d].phase /\ call'[d].awaits = call[d].awaits
                        /\ call[d].cut => call'[d].cut
                        /\ \A h \in Handles :
                             \/ call'[d].slot[h] = call[d].slot[h]
                             \/ call[d].slot[h] = "joined" /\ call'[d].slot[h] \notin {"joined", "claimed"}
      BY DEF OthersCalm
    <2>1. call'[d] = J[d]
      BY <1>12
    <2>2. /\ J[d].phase = call[d].phase /\ J[d].awaits = call[d].awaits
          /\ J[d].cut = call[d].cut
      BY <1>6
    <2> QED
      BY <1>7, <2>1, <2>2
  <1>14. ASSUME NEW h \in Handles, h \in S \/ h \in Claims(c)
         PROVE  \A d \in Calls : call'[d].slot[h] = "joined" => h \notin S /\ d # c
    <2> SUFFICES ASSUME NEW d \in Calls, call'[d].slot[h] = "joined"
                 PROVE  h \notin S /\ d # c
      OBVIOUS
    <2>1. CASE d = c
      BY <1>7, <1>8, <1>10, <1>12, <1>14, <2>1
    <2>2. CASE d # c
      BY <1>7, <1>12, <2>2
    <2> QED
      BY <2>1, <2>2
  <1>15. ASSUME NEW h \in Handles
         PROVE  /\ entry'[h] \in EntryRecord
                /\ Stays(c, h) \/ Stops(h)
                /\ Keeps(h)
    <2>1. CASE h \in ok
      <3>1. e[h].run = c /\ h \in Claims(c) /\ e[h] \in EntryRecord
        BY <1>3, <1>5, <2>1
      <3>2. entry[h].run = c /\ entry[h].state = "verifying"
        BY <1>3, <3>1, CallsDisjoint DEF PendingInv, RunsClaimed
      <3>3. g[h].out \in {"pass", "fail", "unverifiable"} /\ g[h].retry \in BOOLEAN
        BY <3>1 DEF GateResults
      <3>4. judgeVerdict(c, g, h) \in Verdicts
        BY <3>3 DEF judgeVerdict, Verdicts
      <3> DEFINE bg == c \in BgRuns
                 verdict == judgeVerdict(c, g, h)
                 again == g[h].retry
                 f == finishRun(e[h], verdict, again, bg)
      <3>5. verdict \in Verdicts /\ again \in BOOLEAN /\ bg \in BOOLEAN
        BY <3>3, <3>4
      <3> HIDE DEF bg, verdict, again
      <3>6. /\ f \in EntryRecord /\ f.run = NoCall
            /\ f.state \in {"unverified", "verified"}
        BY <3>1, <3>5, FinishFields
      <3>7. worse(h) \in BOOLEAN
        OBVIOUS
      <3> HIDE DEF f, worse
      <3> DEFINE q == [f EXCEPT !.inherits = worse(h)]
      <3>8. q \in EntryRecord /\ q.run = NoCall /\ q.state \in {"unverified", "verified"}
        BY <3>6, <3>7 DEF EntryRecord
      <3>9. entry'[h] = afterSettle(e[h], q)
        BY <1>1, <2>1 DEF f, bg, verdict, again
      <3> HIDE DEF q
      <3>10. entry'[h] \in EntryRecord /\ entry'[h].run = NoCall /\ entry'[h].state # "verifying"
        BY <3>1, <3>8, <3>9, AfterSettle
      <3>11. NobodyJoined(h)
        BY <1>14, <2>1 DEF NobodyJoined, S
      <3> QED
        BY <3>2, <3>10, <3>11 DEF Stops, Keeps
    <2>2. CASE h \notin ok
      <3>1. entry'[h] = e[h] /\ e[h] \in EntryRecord
        BY <1>1, <1>3, <2>2
      <3>2. CASE e[h].state = entry[h].state /\ e[h].run = entry[h].run
        <4>1. entry[h].run # c
          <5> SUFFICES ASSUME entry[h].run = c PROVE FALSE
            OBVIOUS
          <5>1. call[c].slot[h] = "claimed"
            BY CallsDisjoint DEF PendingInv, RunsClaimed
          <5> QED
            BY <1>5, <2>2, <3>2, <5>1
        <4> QED
          BY <1>3, <3>1, <3>2, <4>1 DEF Stays, Keeps
      <3>3. CASE /\ e[h].state \in {"unverified", "gone"} /\ e[h].run = NoCall
                 /\ entry[h].state = "verifying" => h \in Reaped(entry) \ Reaped(e)
        <4>1. entry[h].state = "verifying" => NobodyJoined(h)
          BY <1>14, <3>3 DEF NobodyJoined, S
        <4> QED
          BY <1>3, <3>1, <3>3, <4>1 DEF Stops, Keeps
      <3> QED
        BY <1>3, <3>2, <3>3
    <2> QED
      BY <2>1, <2>2
  <1>16. entry' \in [Handles -> EntryRecord]
    BY <1>1, <1>15
  <1>17. PendingTypeOK' /\ Stable
    BY <1>1, <1>2, <1>12, <1>15, <1>16 DEF PendingTypeOK, Stable
  <1>18. ASSUME NEW h \in Handles, call'[c].slot[h] = "joined"
         PROVE  /\ entry'[h].state = "verifying"
                /\ c \in FgCalls /\ ~call'[c].cut => entry'[h].run \notin BgRuns
    <2>1. h \notin Claims(c) /\ J[c].slot[h] = "joined"
      BY <1>8, <1>10, <1>12, <1>18
    <2>2. call[c].slot[h] = "joined"
      BY <1>7, <2>1
    <2>3. entry[h].state = "verifying"
      BY <2>2 DEF PendingInv, JoinsGoing
    <2>4. ~NobodyJoined(h)
      BY <1>18 DEF NobodyJoined
    <2>5. entry'[h].state = "verifying" /\ entry'[h].run = entry[h].run
      BY <1>15, <2>3, <2>4 DEF Stays, Stops
    <2>6. call'[c].cut = call[c].cut
      BY <1>6, <1>10, <1>12
    <2> QED
      BY <2>2, <2>5, <2>6 DEF PendingInv, NoJoinOfBackground
  <1>19. RunsClaimed' /\ JoinsGoing' /\ NoJoinOfBackground'
    BY <1>13, <1>15, <1>18, MoveStep
  <1>20. \A d \in Calls : \/ call'[d].phase = call[d].phase /\ call'[d].awaits = call[d].awaits
                          \/ d = c /\ call[d].phase = "testing" /\ call'[d].phase = "judged"
    BY <1>1, <1>10, <1>12, <1>13 DEF OthersCalm
  <1>21. OneBackground'
    <2>1. running \in BgRuns \cup {NoCall}
      BY <1>2 DEF PendingTypeOK
    <2> QED
      BY <1>1, <1>20, <2>1, CallsDisjoint DEF PendingInv, OneBackground
  <1>22. WaitersAwait'
    <2> SUFFICES ASSUME NEW d \in FgCalls, call'[d].phase = "waiting"
                 PROVE  /\ running \in {NoCall, call'[d].awaits}
                        /\ call'[d].awaits # NoCall => call'[call'[d].awaits].phase # "idle"
      BY <1>1 DEF WaitersAwait
    <2>1. d \in Calls /\ call[d].phase = "waiting" /\ call'[d].awaits = call[d].awaits
      BY <1>20, CallsDisjoint
    <2>2. /\ running \in {NoCall, call[d].awaits}
          /\ call[d].awaits # NoCall => call[call[d].awaits].phase # "idle"
      BY <2>1 DEF PendingInv, WaitersAwait
    <2>3. call[d].awaits \in BgRuns \cup {NoCall}
      BY <1>2, <2>1 DEF PendingTypeOK, CallRecord
    <2> QED
      BY <1>20, <2>1, <2>2, <2>3, CallsDisjoint
  <1> QED
    BY <1>17, <1>19, <1>21, <1>22 DEF PendingInv

-----------------------------------------------------------------------------
(* The invariant, and what follows from it. *)

LEMMA InitPending == Init => PendingInv
  <1> SUFFICES ASSUME Init PROVE PendingInv
    OBVIOUS
  <1>1. /\ entry = [h \in Handles |-> NewEntry] /\ call = [c \in Calls |-> NewCall]
        /\ running = NoCall
    BY DEF Init
  <1>2. /\ NewEntry \in EntryRecord /\ NewEntry.state = "new" /\ NewEntry.run = NoCall
        /\ NewCall \in CallRecord /\ NewCall.phase = "idle"
        /\ \A h \in Handles : NewCall.slot[h] = "no"
    BY DEF NewEntry, EntryRecord, EntryStates, Verdicts, NewCall, CallRecord, Phases, Slots
  <1>3. PendingTypeOK
    BY <1>1, <1>2 DEF PendingTypeOK
  <1>4. RunsClaimed /\ JoinsGoing /\ NoJoinOfBackground
    BY <1>1, <1>2, CallsDisjoint DEF RunsClaimed, JoinsGoing, NoJoinOfBackground
  <1>5. OneBackground /\ WaitersAwait
    BY <1>1, <1>2, CallsDisjoint DEF OneBackground, WaitersAwait
  <1> QED
    BY <1>3, <1>4, <1>5 DEF PendingInv

LEMMA StepPending ==
  ASSUME PendingInv, [Next]_vars
  PROVE  PendingInv' /\ Stable
  <1>1. CASE UNCHANGED vars
    BY <1>1, StillKeeps DEF vars, regVars, queueVars
  <1>2. ASSUME NEW h \in Handles,
               \/ Dispatch(h) \/ Register(h) \/ RequireGate(h)
               \/ \E out \in {"pass", "fail", "unverifiable"} :
                    \E pre \in SUBSET (IF out = "pass" THEN basis[h] ELSE {}) :
                      RequiredVerdict(h, out, pre)
               \/ Overdue(h) \/ Expire(h)
        PROVE  PendingInv' /\ Stable
    BY <1>2, DispatchKeeps, RegisterKeeps, RequireGateKeeps, RequiredVerdictKeeps, OverdueKeeps
  <1>3. ASSUME NEW c \in FgCalls,
               \/ \E s \in Sessions : \E T \in SUBSET {h \in Range(landed) : Owner[h] = s} :
                    FgBegin(c, s, T)
               \/ FgClaim(c) \/ StartGates(c) \/ FgReport(c)
        PROVE  PendingInv' /\ Stable
    BY <1>3, FgBeginKeeps, FgClaimKeeps, StartGatesKeeps, FgReportKeeps
  <1>4. ASSUME NEW c \in Calls, Judged(c) \/ Deadline(c)
        PROVE  PendingInv' /\ Stable
    <2>1. CASE Deadline(c)
      BY <2>1, DeadlineKeeps
    <2>2. CASE Judged(c)
      <3>1. PICK g \in [Claims(c) -> UNION {GateResults(c, h) : h \in Claims(c)}] :
                   (\A h \in Claims(c) : g[h] \in GateResults(c, h)) /\ Judge(c, g)
        BY <2>2 DEF Judged
      <3> QED
        BY <3>1, JudgeKeeps
    <2> QED
      BY <1>4, <2>1, <2>2
  <1>5. ASSUME NEW c \in BgRuns,
               BgFinish(c) \/ \E lead \in Handles, D \in SUBSET Queued : BgStart(c, lead, D)
        PROVE  PendingInv' /\ Stable
    BY <1>5, BgFinishKeeps, BgStartKeeps
  <1>6. CASE (\E D \in SUBSET Queued : TimerPostpones(D)) \/ Sweep \/ NoticeExpires \/ Dispose
    BY <1>6, NoticeStepsKeep, SweepKeeps, DisposeKeeps
  <1>7. ASSUME NEW s \in Sessions, TakeNotices(s) \/ ForgetSession(s) \/ LedgerExpires(s)
        PROVE  PendingInv' /\ Stable
    BY <1>7, NoticeStepsKeep, ForgetSessionKeeps
  <1> QED
    BY <1>1, <1>2, <1>3, <1>4, <1>5, <1>6, <1>7 DEF Next

THEOREM PendingInvariant == Spec => []PendingInv
  <1>1. PendingInv /\ [Next]_vars => PendingInv'
    BY StepPending
  <1> QED
    BY InitPending, <1>1, PTL DEF Spec

\* A router_verify call whose deadline has not passed never waits on a background run, which is
\* the run it has just told to stop: it claims only once that run has ended, and no background
\* run begins while a call could go on to its claims (wiring.ts verifyHandles, pending.ts
\* preempt and runNext).
THEOREM NeverJoinsBackground == Spec => []NoJoinOfBackground
  <1>1. PendingInv => NoJoinOfBackground
    BY DEF PendingInv
  <1> QED
    BY PendingInvariant, <1>1, PTL

\* Whoever joined a run waits on a claim that another call still holds and has yet to settle:
\* reaping, forgetting, disposing and settling all resolve the runs they end (pending.ts
\* markVerifying, settle, maintain, dispose).
THEOREM JoinersWaitOnSomeone == Spec => []JoinedRunIsLive
  <1>1. PendingInv => JoinedRunIsLive
    <2> SUFFICES ASSUME PendingInv, NEW c \in Calls, NEW h \in Handles, call[c].slot[h] = "joined"
                 PROVE  \E d \in Calls \ {c} : entry[h].run = d /\ h \in Claims(d)
                                               /\ call[d].phase \in {"preparing", "testing"}
      BY DEF JoinedRunIsLive
    <2>1. entry[h].state = "verifying"
      BY DEF PendingInv, JoinsGoing
    <2>2. /\ entry[h].run \in Calls /\ call[entry[h].run].slot[h] = "claimed"
          /\ call[entry[h].run].phase \in {"preparing", "testing"}
      BY <2>1 DEF PendingInv, RunsClaimed
    <2> QED
      BY <2>2 DEF Claims
  <1> QED
    BY PendingInvariant, <1>1, PTL

\* The verdict of a verified entry is never replaced, whichever call settles late, joins, is
\* reaped or reports in between (pending.ts settle, finishRun and evict).
THEOREM VerdictNeverReplaced == Spec => VerdictStable
  <1>1. PendingInv /\ [Next]_vars =>
          [\A h \in Handles : entry[h].state = "verified" =>
             entry'[h].result = entry[h].result /\ entry'[h].state # "verifying"]_vars
    BY StepPending DEF Stable, Keeps
  <1> QED
    BY PendingInvariant, <1>1, PTL DEF Spec, VerdictStable
=============================================================================
