----------------------------- MODULE SlotFiles -----------------------------
(***************************************************************************)
(* The file slots of src/verify/slot.ts: a counting semaphore shared by    *)
(* every process of a machine.  A held slot is a lock file; every delete   *)
(* of a file with identity K runs under the claim file reap-hash(K), the   *)
(* owner's release and the exit hook included.                             *)
(*                                                                         *)
(* One action is one file-system call together with the synchronous code   *)
(* after it, so the steps of the processes interleave at every await.      *)
(*                                                                         *)
(* Data.  A file is its identity: a number that is fresh when the file is  *)
(* created (the mtime and size of a still empty file) and fresh again when *)
(* its JSON is written (the random token).  Numbers that nothing refers to *)
(* any more are used again; tokens never are, and no step can tell.        *)
(*                                                                         *)
(* Time.  The thresholds the code compares clocks with become the ages     *)
(* below; which observations let a process conclude an age (`observe`) is  *)
(* left out.  A process is assumed not to sleep through a whole margin     *)
(* (the header's "residual risk") unless Troubles says it may.             *)
(***************************************************************************)
EXTENDS Naturals, Sequences, FiniteSets

CONSTANTS
  Procs,        \* processes, each with one acquireSlot call at a time
  Nobody,       \* not a process
  Hosts,        \* [Procs -> host]: a PID is judged on its own host only
  MaxSlots,     \* SlotOptions.max
  MaxOwn,       \* bound: identities of one process in use at once
  MaxMishaps,   \* bound: how many things go wrong
  ClaimDepth,   \* MAX_CLAIM_DEPTH
  Troubles,     \* what may go wrong, see below
  Again,        \* bound: processes that call again after their first handle
  GivesUp,      \* processes whose calls may reach their deadline
  CanCrash,     \* processes that may crash
  CanExit       \* processes that may exit (the exit hook runs)

ASSUME SlotAssumption ==
  /\ MaxSlots \in Nat \ {0} /\ MaxOwn \in Nat \ {0}
  /\ MaxMishaps \in Nat /\ ClaimDepth \in Nat
  /\ Nobody \notin Procs
  /\ DOMAIN Hosts = Procs
  /\ Troubles \subseteq {"scanner", "io", "claimer", "holder", "create", "wake", "unlink", "exit"}
  /\ Again \subseteq Procs /\ GivesUp \subseteq Procs /\ CanCrash \subseteq Procs /\ CanExit \subseteq Procs

VARIABLES
  lock,     \* slot index -> identity of slot-<i>.lock, None when missing
  claim,    \* victim identity -> identity of its claim file, None when missing
  meta,     \* identity -> who wrote it, whether its JSON is there, its age
  alive,    \* process -> "up", "exiting" (the exit hook runs) or "dead"
  pc,       \* process -> where its call, watch pass or release is
  job,      \* process -> what the running delete is for
  cur,      \* process -> slot index of the pass
  mine,     \* process -> identity of the lock it is creating
  hold,     \* process -> its handle: slot and token
  phase,    \* process -> phase of its handle
  tick,     \* process -> heartbeat in flight
  stack,    \* process -> nested removeUnderClaim calls, innermost last
  stray,    \* process -> the lock it created but never held
  unconf,   \* process -> unconfirmedClaims
  aged,     \* process -> slots its pass found old, or being reaped
  watched,  \* process -> slots its background watch looks at
  mishaps   \* how many things went wrong

fileVars == <<lock, claim, meta>>
callVars == <<job, cur, mine, stack>>
handleVars == <<hold, phase, tick>>
procVars == <<alive, mishaps>>
memoVars == <<stray, unconf, aged, watched>>
vars == <<fileVars, procVars, pc, callVars, handleVars, memoVars>>

-----------------------------------------------------------------------------
Slots == 0..(MaxSlots - 1)
\* An identity carries the PID and host of its process; 1..MaxOwn stands for
\* its random part.
Ids == Procs \X (1..MaxOwn)
None == <<Nobody, 0>>
Owner(id) == id[1]

\* A lock is old after staleMs and stale once it was also witnessed unchanged
\* for two heartbeats.  A claim is "held" within claimHoldMaxMs, then "late"
\* (its owner may still drop it for half that time), and at last inert.
LockAges == {"fresh", "old", "stale"}
ClaimAges == {"held", "late", "inert"}
NextAge == [fresh |-> "old", old |-> "stale", held |-> "late", late |-> "inert"]

NoHandle == [slot |-> 0, id |-> None]
LockAt(i) == [kind |-> "lock", at |-> i]
ClaimAt(v) == [kind |-> "claim", at |-> v]
Targets == [kind : {"lock"}, at : Slots] \cup [kind : {"claim"}, at : Ids]

File(t) == IF t.kind = "lock" THEN lock[t.at] ELSE claim[t.at]

\* A removeUnderClaim call: the file, its identity, the mtime that must not
\* have changed (AnyKey when only the token counts), the claim it created and
\* the round of its loop.
AnyKey == MaxMishaps + 1
Frame(t, v, key) == [target |-> t, victim |-> v, key |-> key, claim |-> None, round |-> 1, res |-> "none"]
Top(p) == stack[p][Len(stack[p])]
Keep(s) == SubSeq(s, 1, Len(s) - 1)

Mentioned(p) ==
  {mine[p], hold[p].id, stray[p].id}
    \cup {u.id : u \in unconf[p]} \cup {u.path : u \in unconf[p]}
    \cup UNION {{f.victim, f.claim} : f \in {stack[p][n] : n \in 1..Len(stack[p])}}
Present == {lock[i] : i \in Slots} \cup {claim[v] : v \in Ids}
Used == Present \cup {v \in Ids : claim[v] # None} \cup UNION {Mentioned(p) : p \in Procs}
FreeIds(p) == ({p} \X (1..MaxOwn)) \ Used
Fresh(p) == CHOOSE n \in FreeIds(p) : \A m \in FreeIds(p) : n[2] <= m[2]
HasFresh(p) == FreeIds(p) # {}

NoMeta == [ok |-> FALSE, age |-> "fresh", beats |-> 0]
\* Record a new identity; what nobody refers to is forgotten.
Note(id, ok, age) ==
  meta' = [n \in Ids |-> IF n = id THEN [ok |-> ok, age |-> age, beats |-> 0]
                         ELSE IF n \in Used THEN meta[n] ELSE NoMeta]

SetFile(t, id) ==
  IF t.kind = "lock" THEN lock' = [lock EXCEPT ![t.at] = id] /\ UNCHANGED claim
                     ELSE claim' = [claim EXCEPT ![t.at] = id] /\ UNCHANGED lock

\* Troubles: "scanner", an antivirus or indexer holds a file (EBUSY, EPERM,
\* EACCES); "io", another error is thrown (EIO, ENOSPC, EMFILE ...); "claimer",
\* "holder" and "create", a live process stops for longer than the margin while
\* it has a claim, holds a slot, or is between create and write.  The last
\* three are narrower: "wake", a stopped process resumes between another one's
\* last check and its unlink; "unlink", it stopped in that place itself;
\* "exit", it exits with an active claim that is inert by then.
Calm == UNCHANGED mishaps
Trouble(t) == t \in Troubles /\ mishaps < MaxMishaps /\ mishaps' = mishaps + 1

Goto(p, l) == pc' = [pc EXCEPT ![p] = l]
At(p, l) == alive[p] = "up" /\ pc[p] = l

Init ==
  /\ lock = [i \in Slots |-> None]
  /\ claim = [v \in Ids |-> None]
  /\ meta = [n \in Ids |-> NoMeta]
  /\ alive = [p \in Procs |-> "up"]
  /\ pc = [p \in Procs |-> "idle"]
  /\ job = [p \in Procs |-> "none"]
  /\ cur = [p \in Procs |-> 0]
  /\ mine = [p \in Procs |-> None]
  /\ hold = [p \in Procs |-> NoHandle]
  /\ phase = [p \in Procs |-> "none"]
  /\ tick = [p \in Procs |-> FALSE]
  /\ stack = [p \in Procs |-> <<>>]
  /\ stray = [p \in Procs |-> NoHandle]
  /\ unconf = [p \in Procs |-> {}]
  /\ aged = [p \in Procs |-> {}]
  /\ watched = [p \in Procs |-> {}]
  /\ mishaps = 0

-----------------------------------------------------------------------------
(* Staleness                                                               *)

\* ownerDead: same host, readable owner, dead PID.
OwnerDead(p, id) ==
  /\ meta[id].ok
  /\ Hosts[Owner(id)] = Hosts[p]
  /\ alive[Owner(id)] = "dead"

\* lockVerdict = "stale".
LockStale(p, i) ==
  \/ OwnerDead(p, lock[i])
  \/ stray[p].id = lock[i]
  \/ meta[lock[i]].age = "stale"

\* claimInert.
ClaimInert(p, id) == OwnerDead(p, id) \/ meta[id].age = "inert"

-----------------------------------------------------------------------------
(* One pass over the slots: tryAcquireOnce, and the background watchPass.  *)

\* acquireFile begins a pass (its waiting between passes is SlotTickets').
StartPass(p) ==
  /\ At(p, "idle")
  /\ phase[p] = "none" \/ (phase[p] \in {"lost", "done"} /\ p \in Again)
  /\ Goto(p, "open")
  /\ job' = [job EXCEPT ![p] = "acquire"]
  /\ UNCHANGED <<fileVars, procVars, cur, mine, stack, handleVars, memoVars>>

EndCall(p) ==
  /\ Goto(p, "idle")
  /\ job' = [job EXCEPT ![p] = "none"]
  /\ cur' = [cur EXCEPT ![p] = 0]

\* The next slot of the pass, or the end of the pass: when the deadline has
\* passed the slots in `old` are watched, else the call waits for another pass.
MoveOn(p, old) ==
  IF cur[p] + 1 \in Slots
  THEN /\ Goto(p, "open")
       /\ cur' = [cur EXCEPT ![p] = @ + 1]
       /\ aged' = [aged EXCEPT ![p] = old]
       /\ UNCHANGED <<job, watched>>
  ELSE /\ EndCall(p)
       /\ aged' = [aged EXCEPT ![p] = {}]
       /\ \/ UNCHANGED watched
          \/ p \in GivesUp /\ watched' = [watched EXCEPT ![p] = @ \cup old]

\* The attempts at one slot: create it again, or (after the third) move on.
TryAgain(p) ==
  \/ Goto(p, "open") /\ UNCHANGED <<job, cur, aged, watched>>
  \/ MoveOn(p, aged[p])

EndWatch(p, again) ==
  /\ EndCall(p)
  /\ \/ again /\ UNCHANGED watched
     \/ watched' = [watched EXCEPT ![p] = @ \ {cur[p]}]    \* also: its time is up
  /\ UNCHANGED aged

\* createOwned on the slot lock: open(path, "wx").
OpenLock(p) ==
  /\ At(p, "open")
  /\ \/ /\ lock[cur[p]] = None
        /\ HasFresh(p)
        /\ lock' = [lock EXCEPT ![cur[p]] = Fresh(p)]
        /\ Note(Fresh(p), FALSE, "fresh")
        /\ mine' = [mine EXCEPT ![p] = Fresh(p)]
        /\ Goto(p, "write")
        /\ Calm
     \/ /\ (lock[cur[p]] # None /\ Calm) \/ Trouble("scanner")
        /\ Goto(p, "look")
        /\ UNCHANGED <<lock, meta, mine>>
  /\ UNCHANGED <<claim, alive, job, cur, stack, handleVars, memoVars>>

\* A process that slept wakes up between the last check of another process and
\* its unlink only if Troubles says so.
WakesOutside(n) ==
  "wake" \in Troubles \/ \A q \in Procs : ~(At(q, "vunlink") /\ Top(q).victim = n)

\* fh.writeFile: the bytes reach the path only while it is still that file.
WriteLock(p) ==
  /\ At(p, "write") /\ WakesOutside(mine[p])
  /\ HasFresh(p)
  /\ lock' = IF lock[cur[p]] = mine[p] THEN [lock EXCEPT ![cur[p]] = Fresh(p)] ELSE lock
  /\ Note(Fresh(p), TRUE, "fresh")
  /\ mine' = [mine EXCEPT ![p] = Fresh(p)]
  /\ Goto(p, "confirm")
  /\ UNCHANGED <<claim, procVars, job, cur, stack, handleVars, memoVars>>

\* An error ends the whole call: acquireSlot answers busy.
EndWithError(p) ==
  /\ EndCall(p)
  /\ aged' = [aged EXCEPT ![p] = {}]

\* The write throws: dropStray finds no file with its token ("changed") and
\* forgets it; an empty lock stays behind.
WriteLockFails(p) ==
  /\ Trouble("io")
  /\ At(p, "write")
  /\ mine' = [mine EXCEPT ![p] = None]
  /\ EndWithError(p)
  /\ UNCHANGED <<fileVars, alive, stack, handleVars, stray, unconf, watched>>

\* makeFileHandle.
Grant(p) ==
  /\ hold' = [hold EXCEPT ![p] = [slot |-> cur[p], id |-> mine[p]]]
  /\ phase' = [phase EXCEPT ![p] = "held"]
  /\ mine' = [mine EXCEPT ![p] = None]
  /\ aged' = [aged EXCEPT ![p] = {}]
  /\ EndCall(p)
  /\ UNCHANGED tick

\* The re-read of createOwned.  A lock that stays unreadable is trusted; the
\* heartbeat checks its token again.
ConfirmLock(p) ==
  /\ At(p, "confirm")
  /\ \/ /\ (lock[cur[p]] = mine[p] /\ Calm) \/ Trouble("scanner")
        /\ Grant(p)
     \/ /\ lock[cur[p]] # mine[p] /\ Calm
        /\ mine' = [mine EXCEPT ![p] = None]
        /\ Goto(p, "look")
        /\ UNCHANGED <<job, cur, handleVars, aged>>
  /\ UNCHANGED <<fileVars, alive, stack, stray, unconf, watched>>

\* The re-read throws: dropStray deletes the lock under its claim first.
ConfirmLockFails(p) ==
  /\ Trouble("io")
  /\ At(p, "confirm")
  /\ stray' = [stray EXCEPT ![p] = [slot |-> cur[p], id |-> mine[p]]]
  /\ stack' = [stack EXCEPT ![p] = <<Frame(LockAt(cur[p]), mine[p], AnyKey)>>]
  /\ mine' = [mine EXCEPT ![p] = None]
  /\ job' = [job EXCEPT ![p] = "stray"]
  /\ Goto(p, "copen")
  /\ UNCHANGED <<fileVars, alive, cur, handleVars, unconf, aged, watched>>

\* A background look at a slot that a call gave up on while it was old.
StartWatch(p) ==
  /\ At(p, "idle")
  /\ \E i \in watched[p] : cur' = [cur EXCEPT ![p] = i]
  /\ job' = [job EXCEPT ![p] = "watch"]
  /\ Goto(p, "look")
  /\ UNCHANGED <<fileVars, procVars, mine, stack, handleVars, memoVars>>

\* isStray: another token at the path of our stray means that ours is gone.
StraySeen(p, i) ==
  IF /\ stray[p].slot = i /\ lock[i] # stray[p].id
     /\ meta[lock[i]].ok /\ ~OwnerDead(p, lock[i])
  THEN [stray EXCEPT ![p] = NoHandle] ELSE stray

\* readLock and lockVerdict on a slot that could not be created.
LookMissing(p) ==
  /\ At(p, "look") /\ lock[cur[p]] = None
  /\ IF job[p] = "watch"
     THEN EndWatch(p, FALSE) /\ UNCHANGED stray
     ELSE /\ TryAgain(p)
          /\ stray' = IF stray[p].slot = cur[p] THEN [stray EXCEPT ![p] = NoHandle] ELSE stray
  /\ UNCHANGED <<fileVars, procVars, mine, stack, handleVars, unconf>>

LookUnreadable(p) ==
  /\ Trouble("scanner")
  /\ At(p, "look") /\ lock[cur[p]] # None
  /\ IF job[p] = "watch" THEN EndWatch(p, TRUE) ELSE MoveOn(p, aged[p])
  /\ UNCHANGED <<fileVars, alive, mine, stack, handleVars, stray, unconf>>

LookFails(p) ==
  /\ Trouble("io")
  /\ At(p, "look")
  /\ IF job[p] = "watch" THEN EndWatch(p, FALSE) ELSE EndWithError(p) /\ UNCHANGED watched
  /\ UNCHANGED <<fileVars, alive, mine, stack, handleVars, stray, unconf>>

LookLive(p) ==
  LET i == cur[p]
      old == meta[lock[i]].age = "old"
  IN /\ At(p, "look") /\ lock[i] # None
     /\ ~LockStale(p, i)
     /\ IF job[p] = "watch" THEN EndWatch(p, old)
        ELSE MoveOn(p, IF old THEN aged[p] \cup {i} ELSE aged[p])
     /\ stray' = StraySeen(p, i)
     /\ UNCHANGED <<fileVars, procVars, mine, stack, handleVars, unconf>>

\* Stale: reap it, as long as its key (identity and mtime) does not change.
LookStale(p) ==
  LET i == cur[p] IN
  /\ At(p, "look") /\ lock[i] # None
  /\ LockStale(p, i)
  /\ stack' = [stack EXCEPT ![p] = <<Frame(LockAt(i), lock[i], meta[lock[i]].beats)>>]
  /\ stray' = StraySeen(p, i)
  /\ Goto(p, "copen")
  /\ UNCHANGED <<fileVars, procVars, job, cur, mine, handleVars, unconf, aged, watched>>

-----------------------------------------------------------------------------
(* The end of a delete, for each of its callers                            *)

Freed == {"removed", "gone"}

\* finish(): the handle is done.
HandleDone(p) ==
  /\ phase' = [phase EXCEPT ![p] = "done"]
  /\ hold' = [hold EXCEPT ![p] = NoHandle]

\* deleteOwn and runAttempt: a contended delete is tried again; a delete that
\* is not confirmed is deferred, or given up after maxDeferrals of them.
ReleaseEnds(p, r) ==
  \/ r \in Freed \cup {"changed"} /\ HandleDone(p) /\ EndCall(p)
  \/ r = "contended" /\ Goto(p, "await") /\ UNCHANGED <<job, cur, hold, phase>>
  \/ /\ r \in {"contended", "failed", "error"}
     /\ \/ phase' = [phase EXCEPT ![p] = "deferred"] /\ UNCHANGED hold
        \/ HandleDone(p)
     /\ EndCall(p)

AcquireReaped(p, r) ==
  \/ r \in Freed /\ TryAgain(p)
  \/ r \in {"changed", "failed"} /\ MoveOn(p, aged[p])
  \/ r = "contended" /\ MoveOn(p, aged[p] \cup {cur[p]})
  \/ r = "error" /\ EndWithError(p) /\ UNCHANGED watched

\* dropStray forgets the stray unless its delete failed; the error it ran for
\* then ends the call.
StrayEnds(p, r) ==
  /\ EndWithError(p)
  /\ stray' = IF r \in {"failed", "error"} THEN stray ELSE [stray EXCEPT ![p] = NoHandle]

DeleteEnds(p, r) ==
  /\ stack' = [stack EXCEPT ![p] = <<>>]
  /\ \/ job[p] = "acquire" /\ AcquireReaped(p, r) /\ UNCHANGED <<hold, phase, stray>>
     \/ job[p] = "watch" /\ EndWatch(p, r = "contended") /\ UNCHANGED <<hold, phase, stray>>
     \/ job[p] = "release" /\ ReleaseEnds(p, r) /\ UNCHANGED <<stray, aged, watched>>
     \/ job[p] = "stray" /\ StrayEnds(p, r) /\ UNCHANGED <<hold, phase, watched>>
     \/ job[p] = "collect" /\ EndCall(p) /\ UNCHANGED <<hold, phase, stray, aged, watched>>

-----------------------------------------------------------------------------
(* removeUnderClaim and reclaimClaim                                       *)

restVars == <<alive, mine, tick>>

\* The next step of the innermost call.
Step(p, frame, l) ==
  /\ stack' = [stack EXCEPT ![p] = Append(Keep(@), frame)]
  /\ Goto(p, l)
  /\ UNCHANGED <<job, cur, hold, phase, stray, aged, watched>>

\* The claim path is free (reclaimClaim returned true): a second round, once.
SecondRound(p, s) ==
  LET f == s[Len(s)] IN
  IF f.round = 1
  THEN /\ stack' = [stack EXCEPT ![p] = Append(Keep(s), [f EXCEPT !.round = 2, !.claim = None])]
       /\ Goto(p, "copen")
       /\ UNCHANGED <<job, cur, hold, phase, stray, aged, watched>>
  ELSE DeleteEnds(p, "contended")

\* The innermost call returns r.  An error ends all of them, and so does a
\* claim that stays: every caller answers contended.
Return(p, r) ==
  IF Len(stack[p]) = 1 \/ r = "error" THEN DeleteEnds(p, r)
  ELSE IF r \in Freed THEN SecondRound(p, Keep(stack[p]))
  ELSE DeleteEnds(p, "contended")

\* Mutated form: the depth is counted one too high.
NotMineTooEarly(p) ==
  IF Len(stack[p]) >= ClaimDepth THEN DeleteEnds(p, "contended")
  ELSE Step(p, Top(p), "reclaim")

\* createOwned answered false.
NotMine(p) ==
  IF Len(stack[p]) - 1 >= ClaimDepth THEN DeleteEnds(p, "contended")
  ELSE Step(p, Top(p), "reclaim")

OpenClaim(p) ==
  LET f == Top(p) IN
  /\ At(p, "copen")
  /\ \/ /\ claim[f.victim] = None /\ HasFresh(p)
        /\ claim' = [claim EXCEPT ![f.victim] = Fresh(p)]
        /\ Note(Fresh(p), FALSE, "held")
        /\ Step(p, [f EXCEPT !.claim = Fresh(p)], "cwrite")
        /\ Calm
     \/ /\ (claim[f.victim] # None /\ Calm) \/ Trouble("scanner")
        /\ NotMine(p)
        /\ UNCHANGED <<claim, meta>>
     \/ /\ Trouble("io")
        /\ Return(p, "error")
        /\ UNCHANGED <<claim, meta>>
  /\ UNCHANGED <<lock, restVars, unconf>>

\* The token gives the claim a new identity, whose watch starts over; the
\* fence of its owner goes on.
WriteClaim(p) ==
  LET f == Top(p)
      age == meta[f.claim].age
  IN /\ At(p, "cwrite")
     /\ \/ /\ WakesOutside(f.claim) /\ HasFresh(p)
           /\ claim' = IF claim[f.victim] = f.claim THEN [claim EXCEPT ![f.victim] = Fresh(p)] ELSE claim
           /\ Note(Fresh(p), TRUE, IF age = "inert" THEN "late" ELSE age)
           /\ Step(p, [f EXCEPT !.claim = Fresh(p)], "cconfirm")
           /\ Calm
        \/ /\ Trouble("io")
           /\ Return(p, "error")
           /\ UNCHANGED <<claim, meta>>
     /\ UNCHANGED <<lock, restVars, unconf>>

\* noteUnconfirmed.
NoteUnconfirmed(p, v, c) ==
  unconf' = [unconf EXCEPT ![p] = {u \in @ : u.path # v} \cup {[path |-> v, id |-> c]}]
Forget(p, v) == unconf' = [unconf EXCEPT ![p] = {u \in @ : u.path # v}]

\* A claim is held only after a readable re-read shows its own token.
ConfirmClaim(p) ==
  LET f == Top(p) IN
  /\ At(p, "cconfirm")
  /\ \/ claim[f.victim] = f.claim /\ Step(p, f, "vread") /\ UNCHANGED unconf /\ Calm
     \/ claim[f.victim] # f.claim /\ NotMine(p) /\ UNCHANGED unconf /\ Calm
     \/ Trouble("scanner") /\ NotMine(p) /\ NoteUnconfirmed(p, f.victim, f.claim)
     \/ Trouble("io") /\ Return(p, "error") /\ NoteUnconfirmed(p, f.victim, f.claim)
  /\ UNCHANGED <<fileVars, restVars>>

\* Mutated form: whatever is at the path is deleted.
StillVictimAny(f) == File(f.target) # None

\* stillVictim.
StillVictim(f) ==
  /\ File(f.target) = f.victim
  /\ f.key \in {AnyKey, meta[f.victim].beats}

\* The fences of removeUnderClaim: claimHoldMaxMs for the target, half as much
\* again for the claim itself.
MayDelete(c) == meta[c].age = "held"
MayDrop(c) == meta[c].age \in {"held", "late"}
MayNotDrop(c) == meta[c].age \in {"late", "inert"}

\* unlinkWhile on the target: the re-read before an unlink.
ReadVictim(p) ==
  LET f == Top(p)
      ends(r) == Step(p, [f EXCEPT !.res = r], "dread")
  IN /\ At(p, "vread")
     /\ \/ ~MayDelete(f.claim) /\ ends("failed") /\ Calm
        \/ /\ MayDelete(f.claim)
           /\ \/ File(f.target) = None /\ ends("gone") /\ Calm
              \/ File(f.target) # None /\ ~StillVictim(f) /\ ends("changed") /\ Calm
              \/ StillVictim(f) /\ Step(p, f, "vunlink") /\ Calm
              \/ Trouble("scanner") /\ ends("failed")
              \/ Trouble("io") /\ ends("error")
     /\ UNCHANGED <<fileVars, restVars, unconf>>

\* The unlink removes whatever is at the path by then.
UnlinkVictim(p) ==
  LET f == Top(p)
      ends(r) == Step(p, [f EXCEPT !.res = r], "dread")
  IN /\ At(p, "vunlink")
     /\ \/ /\ SetFile(f.target, None)
           /\ ends(IF File(f.target) = None THEN "gone" ELSE "removed")
           /\ Calm
        \/ Trouble("scanner") /\ Step(p, f, "vread") /\ UNCHANGED <<lock, claim>>
        \/ Trouble("io") /\ ends("failed") /\ UNCHANGED <<lock, claim>>
     /\ UNCHANGED <<meta, restVars, unconf>>

\* The same for our own claim.
ReadClaim(p) ==
  LET f == Top(p) IN
  /\ At(p, "dread")
  /\ \/ MayDrop(f.claim) /\ claim[f.victim] = f.claim /\ Step(p, f, "dunlink") /\ Calm
     \/ (MayNotDrop(f.claim) \/ claim[f.victim] # f.claim) /\ Return(p, f.res) /\ Calm
     \/ Trouble("scanner") /\ Return(p, f.res)
     \/ Trouble("io") /\ Return(p, "error")
  /\ UNCHANGED <<fileVars, restVars, unconf>>

UnlinkClaim(p) ==
  LET f == Top(p) IN
  /\ At(p, "dunlink")
  /\ \/ claim' = [claim EXCEPT ![f.victim] = None] /\ Return(p, f.res) /\ Calm
     \/ Trouble("scanner") /\ Step(p, f, "dread") /\ UNCHANGED claim
     \/ Trouble("io") /\ Return(p, f.res) /\ UNCHANGED claim
  /\ UNCHANGED <<lock, meta, restVars, unconf>>

OwnUnconfirmed(p, v) == [path |-> v, id |-> claim[v]] \in unconf[p]

\* reclaimClaim: our own unconfirmed claim is dropped within its fence, a dead
\* or inert one is removed under the claim for its own identity.
Reclaim(p) ==
  LET f == Top(p)
      v == f.victim
      c == claim[v]
  IN /\ At(p, "reclaim")
     /\ \/ c = None /\ SecondRound(p, stack[p]) /\ UNCHANGED unconf /\ Calm
        \/ /\ c # None /\ OwnUnconfirmed(p, v) /\ MayDrop(c)
           /\ Step(p, f, "uread")
           /\ UNCHANGED unconf /\ Calm
        \/ /\ c # None /\ (OwnUnconfirmed(p, v) => MayNotDrop(c))
           /\ Forget(p, v) /\ Calm
           /\ IF ClaimInert(p, c)
              THEN /\ stack' = [stack EXCEPT ![p] = Append(@, Frame(ClaimAt(v), c, 0))]
                   /\ Goto(p, "copen")
                   /\ UNCHANGED <<job, cur, hold, phase, stray, aged, watched>>
              ELSE DeleteEnds(p, "contended")
        \/ Trouble("scanner") /\ DeleteEnds(p, "contended") /\ UNCHANGED unconf
        \/ Trouble("io") /\ Return(p, "error") /\ UNCHANGED unconf
     /\ UNCHANGED <<fileVars, restVars>>

\* dropUnconfirmed: unlinkWhile once more.
ReadUnconfirmed(p) ==
  LET f == Top(p)
      v == f.victim
  IN /\ At(p, "uread")
     /\ \/ /\ claim[v] # None /\ OwnUnconfirmed(p, v) /\ MayDrop(claim[v])
           /\ Step(p, f, "uunlink") /\ UNCHANGED unconf /\ Calm
        \/ claim[v] = None /\ SecondRound(p, stack[p]) /\ Forget(p, v) /\ Calm
        \/ /\ claim[v] # None /\ ~OwnUnconfirmed(p, v)
           /\ DeleteEnds(p, "contended") /\ Forget(p, v) /\ Calm
        \/ /\ (claim[v] # None /\ MayNotDrop(claim[v]) /\ Calm) \/ Trouble("scanner")
           /\ DeleteEnds(p, "contended") /\ UNCHANGED unconf
        \/ Trouble("io") /\ Return(p, "error") /\ UNCHANGED unconf
     /\ UNCHANGED <<fileVars, restVars>>

UnlinkUnconfirmed(p) ==
  LET v == Top(p).victim IN
  /\ At(p, "uunlink")
  /\ \/ /\ claim' = [claim EXCEPT ![v] = None]
        /\ SecondRound(p, stack[p])
        /\ Forget(p, v)
        /\ Calm
     \/ /\ Trouble("scanner") \/ Trouble("io")
        /\ DeleteEnds(p, "contended")
        /\ UNCHANGED <<claim, unconf>>
  /\ UNCHANGED <<lock, meta, restVars>>

\* collectOne: an inert claim whose victim is gone, or that was never held,
\* is removed under the claim for its own identity.
StartCollect(p) ==
  /\ At(p, "idle")
  /\ \E v \in Ids :
       /\ claim[v] # None
       /\ ClaimInert(p, claim[v])
       /\ meta[claim[v]].ok => v \notin Present
       /\ stack' = [stack EXCEPT ![p] = <<Frame(ClaimAt(v), claim[v], 0)>>]
  /\ job' = [job EXCEPT ![p] = "collect"]
  /\ Goto(p, "copen")
  /\ UNCHANGED <<fileVars, procVars, cur, mine, handleVars, memoVars>>

-----------------------------------------------------------------------------
(* The handle: makeFileHandle                                              *)

Beating(p) == phase[p] \in {"held", "deferred"}

\* notOurs: while held that is a loss, while a release is pending it is done.
NotOurs(p) ==
  /\ phase' = [phase EXCEPT ![p] = IF @ = "held" THEN "lost" ELSE "done"]
  /\ hold' = [hold EXCEPT ![p] = NoHandle]

\* beat reads the token.
BeatRead(p) ==
  /\ alive[p] = "up" /\ Beating(p) /\ ~tick[p]
  /\ IF lock[hold[p].slot] = hold[p].id
     THEN tick' = [tick EXCEPT ![p] = TRUE] /\ UNCHANGED <<hold, phase>>
     ELSE NotOurs(p) /\ UNCHANGED tick
  /\ UNCHANGED <<fileVars, procVars, pc, callVars, memoVars>>

\* utimes touches whatever is at the path.  Only a touch of an aged file can
\* spoil a verdict that somebody holds, so only that one counts a beat.
BeatTouch(p) ==
  LET n == lock[hold[p].slot] IN
  /\ alive[p] = "up" /\ tick[p] /\ (n # None => WakesOutside(n))
  /\ tick' = [tick EXCEPT ![p] = FALSE]
  /\ \/ /\ n # None
        /\ meta' = [meta EXCEPT ![n].age = "fresh", ![n].beats = IF meta[n].age = "fresh" THEN @ ELSE @ + 1]
        /\ UNCHANGED <<hold, phase>> /\ Calm
     \/ /\ n = None
        /\ IF Beating(p) THEN NotOurs(p) ELSE UNCHANGED <<hold, phase>>
        /\ UNCHANGED meta /\ Calm
     \/ /\ Trouble("scanner") \/ Trouble("io")
        /\ UNCHANGED <<meta, hold, phase>>
  /\ UNCHANGED <<lock, claim, alive, pc, callVars, memoVars>>

Beat(p) == BeatRead(p) \/ BeatTouch(p)

\* release, by the caller or (deferred) by the retry timer.
BeginRelease(p) ==
  /\ At(p, "idle") /\ Beating(p)
  /\ phase' = [phase EXCEPT ![p] = "releasing"]
  /\ job' = [job EXCEPT ![p] = "release"]
  /\ Goto(p, "await")
  /\ UNCHANGED <<fileVars, procVars, cur, mine, stack, hold, tick, memoVars>>

\* The heartbeat in flight ends first, then the own lock goes under its claim.
DeleteOwn(p) ==
  /\ At(p, "await") /\ ~tick[p]
  /\ stack' = [stack EXCEPT ![p] = <<Frame(LockAt(hold[p].slot), hold[p].id, AnyKey)>>]
  /\ Goto(p, "copen")
  /\ UNCHANGED <<fileVars, procVars, job, cur, mine, handleVars, memoVars>>

-----------------------------------------------------------------------------
(* Exit and crash.  The exit hook is synchronous in its process; other     *)
(* processes run between its calls.                                        *)

\* activeClaims: a claim from its confirmation to the end of its unlinkWhile.
Active(p) == pc[p] \in {"vread", "vunlink"}

ExitBegin(p) ==
  /\ alive[p] = "up" /\ p \in CanExit
  /\ Active(p) /\ meta[Top(p).claim].age = "inert" => "exit" \in Troubles
  /\ alive' = [alive EXCEPT ![p] = "exiting"]
  /\ pc' = [pc EXCEPT ![p] = "xheld"]
  /\ stack' = [stack EXCEPT ![p] = IF Active(p) THEN <<Top(p)>> ELSE <<>>]
  /\ mine' = [mine EXCEPT ![p] = None]
  /\ tick' = [tick EXCEPT ![p] = FALSE]
  /\ job' = [job EXCEPT ![p] = "none"]
  /\ cur' = [cur EXCEPT ![p] = 0]
  /\ aged' = [aged EXCEPT ![p] = {}]
  /\ watched' = [watched EXCEPT ![p] = {}]
  /\ phase' = [phase EXCEPT ![p] = "none"]
  /\ UNCHANGED <<fileVars, mishaps, hold, stray, unconf>>

Exiting(p, l) == alive[p] = "exiting" /\ pc[p] = l
exitRest == <<procVars, job, cur, phase, tick, aged, watched>>

\* The lock that releaseAllSync is at: the held one, then the stray.
ExitLock(p) == IF hold[p].id # None THEN hold[p] ELSE stray[p]
NextExitLock(p) ==
  /\ mine' = [mine EXCEPT ![p] = None]
  /\ IF hold[p].id # None
     THEN hold' = [hold EXCEPT ![p] = NoHandle] /\ UNCHANGED stray
     ELSE stray' = [stray EXCEPT ![p] = NoHandle] /\ UNCHANGED hold
  /\ Goto(p, "xheld")

ActiveFor(p, v) == stack[p] # <<>> /\ Top(p).victim = v

\* releaseOneSync: an active claim of our own serves, a claim of somebody else
\* means that he deletes the lock.  openSync and writeSync are one step here.
ExitRelease(p) ==
  LET h == ExitLock(p) IN
  /\ Exiting(p, "xheld") /\ h.id # None
  /\ \/ /\ ActiveFor(p, h.id)
        /\ Goto(p, "xread")
        /\ UNCHANGED <<claim, meta, mine, hold, stray>>
     \/ /\ ~ActiveFor(p, h.id)
        /\ \/ /\ claim[h.id] = None /\ HasFresh(p)
              /\ claim' = [claim EXCEPT ![h.id] = Fresh(p)]
              /\ Note(Fresh(p), TRUE, "held")
              /\ mine' = [mine EXCEPT ![p] = Fresh(p)]
              /\ Goto(p, "xread")
              /\ UNCHANGED <<hold, stray>>
           \/ /\ claim[h.id] # None
              /\ NextExitLock(p)
              /\ UNCHANGED <<claim, meta>>
  /\ UNCHANGED <<lock, exitRest, stack, unconf>>

\* unlinkIfTokenSync on the lock ...
ExitRead(p) ==
  LET h == ExitLock(p) IN
  /\ Exiting(p, "xread")
  /\ Goto(p, IF lock[h.slot] = h.id THEN "xunlink" ELSE "xcread")
  /\ UNCHANGED <<fileVars, exitRest, mine, hold, stray, stack, unconf>>

ExitUnlink(p) ==
  /\ Exiting(p, "xunlink")
  /\ lock' = [lock EXCEPT ![ExitLock(p).slot] = None]
  /\ Goto(p, "xcread")
  /\ UNCHANGED <<claim, meta, exitRest, mine, hold, stray, stack, unconf>>

\* ... then on the claim that the hook made for it.
ExitReadClaim(p) ==
  /\ Exiting(p, "xcread")
  /\ IF mine[p] # None /\ claim[ExitLock(p).id] = mine[p]
     THEN Goto(p, "xcunlink") /\ UNCHANGED <<mine, hold, stray>>
     ELSE NextExitLock(p)
  /\ UNCHANGED <<fileVars, exitRest, stack, unconf>>

ExitUnlinkClaim(p) ==
  /\ Exiting(p, "xcunlink")
  /\ claim' = [claim EXCEPT ![ExitLock(p).id] = None]
  /\ NextExitLock(p)
  /\ UNCHANGED <<lock, meta, exitRest, stack, unconf>>

\* At last the active claims, and the unconfirmed ones within their fence.
ExitClaims(p) ==
  /\ Exiting(p, "xheld") /\ ExitLock(p).id = None
  /\ \E kept \in SUBSET {u \in unconf[p] : MayDrop(u.id)} :
       /\ {u \in unconf[p] : ~MayNotDrop(u.id)} \subseteq kept
       /\ unconf' = [unconf EXCEPT ![p] = kept \cup
            {[path |-> f.victim, id |-> f.claim] : f \in {stack[p][n] : n \in 1..Len(stack[p])}}]
  /\ stack' = [stack EXCEPT ![p] = <<>>]
  /\ Goto(p, "xclaims")
  /\ UNCHANGED <<fileVars, exitRest, mine, hold, stray>>

\* stack[p] remembers which claim was read.
ExitDropRead(p) ==
  /\ Exiting(p, "xclaims") /\ stack[p] = <<>>
  /\ \E u \in unconf[p] :
       IF claim[u.path] = u.id
       THEN stack' = [stack EXCEPT ![p] = <<[Frame(LockAt(0), u.path, AnyKey) EXCEPT !.claim = u.id]>>]
            /\ UNCHANGED unconf
       ELSE unconf' = [unconf EXCEPT ![p] = @ \ {u}] /\ UNCHANGED stack
  /\ UNCHANGED <<fileVars, exitRest, pc, mine, hold, stray>>

ExitDropUnlink(p) ==
  LET v == Top(p).victim IN
  /\ Exiting(p, "xclaims") /\ stack[p] # <<>>
  /\ claim' = [claim EXCEPT ![v] = None]
  /\ stack' = [stack EXCEPT ![p] = <<>>]
  /\ Forget(p, v)
  /\ UNCHANGED <<lock, meta, exitRest, pc, mine, hold, stray>>

Exited(p) == Exiting(p, "xclaims") /\ stack[p] = <<>> /\ unconf[p] = {}

\* The end of a process: after its exit hook, or at any point of a crash.
Die(p) ==
  /\ Exited(p) \/ (alive[p] # "dead" /\ p \in CanCrash)
  /\ alive' = [alive EXCEPT ![p] = "dead"]
  /\ pc' = [pc EXCEPT ![p] = "idle"]
  /\ job' = [job EXCEPT ![p] = "none"]
  /\ cur' = [cur EXCEPT ![p] = 0]
  /\ mine' = [mine EXCEPT ![p] = None]
  /\ hold' = [hold EXCEPT ![p] = NoHandle]
  /\ phase' = [phase EXCEPT ![p] = "none"]
  /\ tick' = [tick EXCEPT ![p] = FALSE]
  /\ stack' = [stack EXCEPT ![p] = <<>>]
  /\ stray' = [stray EXCEPT ![p] = NoHandle]
  /\ unconf' = [unconf EXCEPT ![p] = {}]
  /\ aged' = [aged EXCEPT ![p] = {}]
  /\ watched' = [watched EXCEPT ![p] = {}]
  /\ UNCHANGED <<fileVars, mishaps>>

-----------------------------------------------------------------------------
(* Time                                                                    *)

\* The process that made this lock still tends it: it creates it, beats for it
\* or releases it.
Tended(n) ==
  LET o == Owner(n) IN
  alive[o] # "dead" /\ n \in {mine[o], hold[o].id}

\* The age of a file tells something while somebody cannot tell by its PID.
AgeMatters(n) == \E q \in Procs : alive[q] = "up" /\ ~OwnerDead(q, n)

\* A file ages; when its process is still there, that is a trouble.
Age(n, first, window) ==
  /\ AgeMatters(n)
  /\ IF meta[n].age = first /\ window # "none" THEN Trouble(window) ELSE Calm
  /\ meta' = [meta EXCEPT ![n].age = NextAge[@]]

LockAge(n) ==
  /\ meta[n].age \in {"fresh", "old"}
  /\ Age(n, "fresh", IF ~Tended(n) THEN "none" ELSE IF meta[n].ok THEN "holder" ELSE "create")

\* A process that has checked its fence unlinks before anybody may call the
\* claim inert: 25 s lie between the two.
Acting(n) ==
  LET o == Owner(n) IN
  /\ alive[o] # "dead"
  /\ \/ pc[o] \in {"vunlink", "dunlink"} /\ Top(o).claim = n
     \/ pc[o] = "uunlink" /\ claim[Top(o).victim] = n
     \/ alive[o] = "exiting"
\* The write follows the create within corruptGraceMs.
Writing(n) ==
  LET o == Owner(n) IN
  alive[o] = "up" /\ pc[o] = "cwrite" /\ Top(o).claim = n

ClaimAge(n) ==
  /\ meta[n].age \in {"held", "late"}
  /\ meta[n].age = "late" =>
       /\ Acting(n) => "unlink" \in Troubles
       /\ Writing(n) => "create" \in Troubles
  /\ Age(n, "held", IF alive[Owner(n)] = "dead" THEN "none" ELSE "claimer")

TimePasses ==
  /\ \/ \E i \in Slots : lock[i] # None /\ LockAge(lock[i])
     \/ \E v \in Ids : claim[v] # None /\ ClaimAge(claim[v])
  /\ UNCHANGED <<lock, claim, alive, pc, callVars, handleVars, memoVars>>

-----------------------------------------------------------------------------
CallStep(p) ==
  \/ OpenLock(p) \/ WriteLock(p) \/ WriteLockFails(p) \/ ConfirmLock(p) \/ ConfirmLockFails(p)
  \/ LookMissing(p) \/ LookUnreadable(p) \/ LookFails(p) \/ LookLive(p) \/ LookStale(p)
  \/ OpenClaim(p) \/ WriteClaim(p) \/ ConfirmClaim(p)
  \/ ReadVictim(p) \/ UnlinkVictim(p) \/ ReadClaim(p) \/ UnlinkClaim(p)
  \/ Reclaim(p) \/ ReadUnconfirmed(p) \/ UnlinkUnconfirmed(p)
  \/ DeleteOwn(p)

ExitStep(p) ==
  \/ ExitRelease(p) \/ ExitRead(p) \/ ExitUnlink(p) \/ ExitReadClaim(p) \/ ExitUnlinkClaim(p)
  \/ ExitClaims(p) \/ ExitDropRead(p) \/ ExitDropUnlink(p)

Next ==
  \/ \E p \in Procs :
       \/ StartPass(p) \/ StartWatch(p) \/ StartCollect(p) \/ CallStep(p)
       \/ Beat(p) \/ BeginRelease(p)
       \/ ExitBegin(p) \/ ExitStep(p) \/ Die(p)
  \/ TimePasses

Spec == Init /\ [][Next]_vars

-----------------------------------------------------------------------------
(* Properties                                                              *)

FrameType ==
  [target : Targets, victim : Ids, key : 0..(MaxMishaps + 1), claim : {None} \cup Ids,
   round : {1, 2}, res : {"none", "removed", "gone", "changed", "failed", "error"}]

\* The state has its types.
TypeOK ==
  /\ lock \in [Slots -> {None} \cup Ids]
  /\ claim \in [Ids -> {None} \cup Ids]
  /\ meta \in [Ids -> [ok : BOOLEAN, age : LockAges \cup ClaimAges, beats : 0..MaxMishaps]]
  /\ alive \in [Procs -> {"up", "exiting", "dead"}]
  /\ job \in [Procs -> {"none", "acquire", "watch", "release", "stray", "collect"}]
  /\ cur \in [Procs -> Slots]
  /\ mine \in [Procs -> {None} \cup Ids]
  /\ hold \in [Procs -> [slot : Slots, id : {None} \cup Ids]]
  /\ phase \in [Procs -> {"none", "held", "releasing", "deferred", "lost", "done"}]
  /\ tick \in [Procs -> BOOLEAN]
  /\ \A p \in Procs : \A n \in 1..Len(stack[p]) : stack[p][n] \in FrameType
  /\ stray \in [Procs -> [slot : Slots, id : {None} \cup Ids]]
  /\ \A p \in Procs : unconf[p] \subseteq [path : Ids, id : Ids]
  /\ aged \in [Procs -> SUBSET Slots]
  /\ watched \in [Procs -> SUBSET Slots]
  /\ mishaps \in 0..MaxMishaps

\* No ABA: whoever is about to unlink a path finds there the file that it
\* checked, or nothing; never a file that came after it.  This is what the
\* claim protocol is for (unlinkWhile and unlinkIfTokenSync unlink by path).
NoABA ==
  \A p \in Procs :
    /\ At(p, "vunlink") => File(Top(p).target) \in {None, Top(p).victim}
    /\ At(p, "dunlink") => claim[Top(p).victim] \in {None, Top(p).claim}
    /\ At(p, "uunlink") => claim[Top(p).victim] = None \/ OwnUnconfirmed(p, Top(p).victim)
    /\ Exiting(p, "xunlink") => lock[ExitLock(p).slot] \in {None, ExitLock(p).id}
    /\ Exiting(p, "xcunlink") => claim[ExitLock(p).id] \in {None, mine[p]}
    /\ Exiting(p, "xclaims") /\ stack[p] # <<>> => claim[Top(p).victim] \in {None, Top(p).claim}

\* Of the processes that have confirmed a claim for one file and are within
\* its fence, there is one.
OneDeleter ==
  \A p, q \in Procs :
    /\ At(p, "vread") \/ At(p, "vunlink")
    /\ At(q, "vread") \/ At(q, "vunlink")
    /\ MayDelete(Top(p).claim) /\ MayDelete(Top(q).claim)
    /\ Top(p).victim = Top(q).victim
    => p = q

\* A holder that beats in time keeps its lock file until it releases it.
Holding == {p \in Procs : alive[p] = "up" /\ phase[p] = "held"}
HeldIsOurs == \A p \in Holding : lock[hold[p].slot] = hold[p].id

\* A holder whose lock was reclaimed (it stopped beating for too long) learns
\* of it: its heartbeat finds the file gone or with another token.
LossNoticed ==
  \A p \in Procs :
    p \in Holding /\ lock[hold[p].slot] # hold[p].id ~> p \notin Holding

\* The lock of a dead process goes, whatever it and the processes that tried
\* to delete it left behind when they crashed.
LockOfDead(i) == lock[i] # None /\ alive[Owner(lock[i])] = "dead"
DeadOwnerReclaimed == \A i \in Slots : LockOfDead(i) ~> ~LockOfDead(i)

=============================================================================
