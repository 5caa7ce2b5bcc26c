--------------------------- MODULE ResourceProofs ---------------------------
(***************************************************************************)
(* Proofs about what a check of the code holds while it runs.              *)
(*                                                                         *)
(* Its slot (src/verify/slot.ts).  The in-process fallback: for every      *)
(* finite set of callers and every bound, its counter is the number of     *)
(* live handles, nobody waits for a free slot, and it implements the       *)
(* abstract semaphore.  The tickets of the waiters: for any number of      *)
(* processes, slots and mishaps, no ended call has one.                    *)
(*                                                                         *)
(* Its reference tree (src/verify/reference.ts and wiring.ts).  A          *)
(* reference that passes as exact has the content the tree had when its    *)
(* dispatch began, whoever shares the captures; and a collection removes   *)
(* only what a dead owner or the clock has abandoned, and in that order.   *)
(***************************************************************************)
EXTENDS LocalSemaphore, SlotTickets, Reference, FiniteSetTheorems, SequenceTheorems, TLAPS


-----------------------------------------------------------------------------
(* The in-process fallback (LocalSemaphore). *)

\* The inductive invariant: the three safety invariants support each other
\* (a grant needs the queue to name waiting callers, the counter needs the
\* granted caller not to hold already).
IInv ==
  /\ count \in Nat
  /\ waiters \in Seq(Callers)
  /\ status \in [Callers -> Status]
  /\ QueueIsWaiting
  /\ CountIsHolders
  /\ NoIdleSlotWithWaiter
  /\ count <= MaxSlots

\* The holders of slots are finitely many, so they can be counted.
LEMMA HoldersFinite == IsFiniteSet(holders)
  BY LocalAssumption, FS_Subset DEF holders

\* Taking a callback out of a queue without repetitions keeps the others.
LEMMA SpliceQueue ==
  ASSUME NEW S, NEW q \in Seq(S), NEW i \in 1..Len(q),
         \A j, k \in 1..Len(q) : q[j] = q[k] => j = k
  PROVE  LET r == RemoveAt(q, i) IN
           /\ r \in Seq(S)
           /\ \A j, k \in 1..Len(r) : r[j] = r[k] => j = k
           /\ {r[j] : j \in 1..Len(r)} = {q[j] : j \in 1..Len(q)} \ {q[i]}
<1> DEFINE r == RemoveAt(q, i)
<1>1. /\ r \in Seq(S)
      /\ Len(r) = Len(q) - 1
      /\ \A j \in 1..Len(r) : r[j] = IF j < i THEN q[j] ELSE q[j + 1]
  <2> DEFINE a == SubSeq(q, 1, i - 1)
             b == SubSeq(q, i + 1, Len(q))
  <2>1. /\ a \in Seq(S) /\ Len(a) = i - 1
        /\ \A j \in 1..(i - 1) : a[j] = q[j]
    <3>1. \A j \in 1..(i - 1) : q[j] \in S
      OBVIOUS
    <3> QED BY <3>1, SubSeqProperties
  <2>2. /\ b \in Seq(S) /\ Len(b) = Len(q) - i
        /\ \A j \in 1..(Len(q) - i) : b[j] = q[i + j]
    <3>1. \A j \in (i + 1)..Len(q) : q[j] \in S
      OBVIOUS
    <3> QED BY <3>1, SubSeqProperties
  <2>3. r = a \o b
    BY DEF RemoveAt
  <2> HIDE DEF a, b, r
  <2>4. /\ a \o b \in Seq(S) /\ Len(a \o b) = Len(a) + Len(b)
        /\ \A j \in 1..(Len(a) + Len(b)) :
             (a \o b)[j] = IF j <= Len(a) THEN a[j] ELSE b[j - Len(a)]
    <3>1. \A x, y \in Seq(S) :
            /\ x \o y \in Seq(S) /\ Len(x \o y) = Len(x) + Len(y)
            /\ \A j \in 1..(Len(x) + Len(y)) :
                 (x \o y)[j] = IF j <= Len(x) THEN x[j] ELSE y[j - Len(x)]
      BY ConcatProperties
    <3> QED BY <3>1, <2>1, <2>2, Zenon
  <2>5. r \in Seq(S) /\ Len(r) = Len(q) - 1
    BY <2>1, <2>2, <2>3, <2>4
  <2>6. ASSUME NEW j \in 1..Len(r)
        PROVE  r[j] = IF j < i THEN q[j] ELSE q[j + 1]
    <3>1. r[j] = IF j <= i - 1 THEN a[j] ELSE b[j - (i - 1)]
      BY <2>1, <2>2, <2>3, <2>4, <2>5
    <3>2. CASE j < i
      BY <2>1, <3>1, <3>2
    <3>3. CASE j >= i
      BY <2>2, <2>5, <3>1, <3>3
    <3> QED BY <3>2, <3>3
  <2> QED BY <2>5, <2>6
<1> HIDE DEF r
<1>2. ASSUME NEW j \in 1..Len(r), NEW k \in 1..Len(r), r[j] = r[k] PROVE j = k
  <2> DEFINE old(x) == IF x < i THEN x ELSE x + 1
  <2>1. old(j) \in 1..Len(q) /\ old(k) \in 1..Len(q) /\ (old(j) = old(k) => j = k)
    BY <1>1
  <2>2. r[j] = q[old(j)] /\ r[k] = q[old(k)]
    BY <1>1
  <2> HIDE DEF old
  <2>3. old(j) = old(k)
    BY <1>2, <2>1, <2>2
  <2> QED BY <2>1, <2>3
<1>3. ASSUME NEW x \in {r[j] : j \in 1..Len(r)}
      PROVE  x \in {q[j] : j \in 1..Len(q)} \ {q[i]}
  BY <1>1, <1>3
<1>4. ASSUME NEW x \in {q[j] : j \in 1..Len(q)} \ {q[i]}
      PROVE  x \in {r[j] : j \in 1..Len(r)}
  <2>1. PICK j \in 1..Len(q) : x = q[j] /\ j # i
    BY <1>4
  <2>2. CASE j < i
    BY <1>1, <2>1, <2>2
  <2>3. CASE j > i
    <3>1. j - 1 \in 1..Len(r) /\ r[j - 1] = q[j]
      BY <1>1, <2>1, <2>3
    <3> QED BY <3>1, <2>1
  <2> QED BY <2>1, <2>2, <2>3
<1> QED BY <1>1, <1>2, <1>3, <1>4 DEF r

-----------------------------------------------------------------------------
\* A fresh LocalSem satisfies the invariant.
LEMMA InitIInv == Init => IInv
<1> SUFFICES ASSUME Init PROVE IInv
  OBVIOUS
<1>1. holders = {}
  BY DEF Init, holders
<1>2. CountIsHolders
  BY <1>1, FS_EmptySet DEF Init, CountIsHolders
<1> QED BY <1>2, LocalAssumption DEF Init, IInv, Status, QueueIsWaiting, NoIdleSlotWithWaiter

\* Every step keeps the invariant and is a step (or a stutter) of Semaphore.
LEMMA StepIInv ==
  ASSUME IInv, [Next]_vars
  PROVE  IInv' /\ [Abstract!Next]_holders
<1> USE LocalAssumption, HoldersFinite DEF Status
<1>t. /\ count \in Nat /\ count <= MaxSlots /\ waiters \in Seq(Callers)
      /\ status \in [Callers -> Status]
  BY DEF IInv
<1>h. count = Cardinality(holders)
  BY DEF IInv, CountIsHolders
<1>1. ASSUME NEW c \in Callers, AcquireNow(c)
      PROVE  IInv' /\ Abstract!Enter(c)
  <2>1. /\ holders' = holders \cup {c} /\ c \notin holders
    BY <1>1, <1>t DEF AcquireNow, CanCall, holders
  <2>2. Cardinality(holders') = Cardinality(holders) + 1
    BY <2>1, FS_AddElement
  <2>3. waiters = <<>>
    BY <1>1, <1>t DEF AcquireNow, IInv, NoIdleSlotWithWaiter
  <2>4. QueueIsWaiting'
    <3>1. \A d \in Callers : status'[d] = "waiting" <=> status[d] = "waiting"
      BY <1>1, <1>t DEF AcquireNow, CanCall
    <3> QED BY <1>1, <3>1 DEF AcquireNow, IInv, QueueIsWaiting
  <2>5. IInv'
    BY <1>1, <1>t, <1>h, <2>2, <2>3, <2>4 DEF AcquireNow, IInv, CountIsHolders, NoIdleSlotWithWaiter
  <2>6. Abstract!Cardinality(holders) = Cardinality(holders)
    BY DEF Abstract!Cardinality, Cardinality
  <2> QED BY <1>1, <1>h, <2>1, <2>5, <2>6 DEF AcquireNow, Abstract!Enter
<1>2. ASSUME NEW c \in Callers, AcquireBusy(c)
      PROVE  IInv' /\ holders' = holders
  <2>1. holders' = holders
    BY <1>2, <1>t DEF AcquireBusy, CanCall, holders
  <2>2. QueueIsWaiting'
    BY <1>2, <1>t DEF AcquireBusy, CanCall, IInv, QueueIsWaiting
  <2> QED BY <1>2, <1>t, <1>h, <2>1, <2>2 DEF AcquireBusy, IInv, CountIsHolders, NoIdleSlotWithWaiter
<1>3. ASSUME NEW c \in Callers, AcquireWait(c)
      PROVE  IInv' /\ holders' = holders
  <2>1. holders' = holders
    BY <1>3, <1>t DEF AcquireWait, CanCall, holders
  <2>2. /\ waiters' \in Seq(Callers) /\ Len(waiters') = Len(waiters) + 1
        /\ \A i \in 1..Len(waiters) : waiters'[i] = waiters[i]
        /\ waiters'[Len(waiters) + 1] = c
    BY <1>3, <1>t, AppendProperties DEF AcquireWait
  <2>3. c \notin {waiters[i] : i \in 1..Len(waiters)}
    BY <1>3 DEF AcquireWait, CanCall, IInv, QueueIsWaiting
  <2>4. QueueIsWaiting'
    <3>1. {waiters'[i] : i \in 1..Len(waiters')} = {waiters[i] : i \in 1..Len(waiters)} \cup {c}
      BY <2>2, <1>t
    <3>2. \A i, j \in 1..Len(waiters') : waiters'[i] = waiters'[j] => i = j
      BY <2>2, <2>3, <1>t DEF IInv, QueueIsWaiting
    <3>3. \A d \in Callers : status'[d] = "waiting" <=> d = c \/ status[d] = "waiting"
      BY <1>3, <1>t DEF AcquireWait
    <3> QED BY <3>1, <3>2, <3>3 DEF IInv, QueueIsWaiting
  <2> QED BY <1>3, <1>t, <1>h, <2>1, <2>2, <2>4 DEF AcquireWait, IInv, CountIsHolders, NoIdleSlotWithWaiter
<1>4. ASSUME NEW c \in Callers, GiveUp(c)
      PROVE  IInv' /\ holders' = holders
  <2>1. holders' = holders
    BY <1>4, <1>t DEF GiveUp, holders
  <2>2. PICK i \in 1..Len(waiters) : waiters[i] = c /\ waiters' = RemoveAt(waiters, i)
    BY <1>4 DEF GiveUp
  <2>3. /\ waiters' \in Seq(Callers)
        /\ \A j, k \in 1..Len(waiters') : waiters'[j] = waiters'[k] => j = k
        /\ {waiters'[j] : j \in 1..Len(waiters')} = {waiters[j] : j \in 1..Len(waiters)} \ {c}
    <3>1. \A j, k \in 1..Len(waiters) : waiters[j] = waiters[k] => j = k
      BY DEF IInv, QueueIsWaiting
    <3> DEFINE r == RemoveAt(waiters, i)
    <3>2. /\ r \in Seq(Callers)
          /\ \A j, k \in 1..Len(r) : r[j] = r[k] => j = k
          /\ {r[j] : j \in 1..Len(r)} = {waiters[j] : j \in 1..Len(waiters)} \ {waiters[i]}
      BY <3>1, <1>t, SpliceQueue, Zenon
    <3> HIDE DEF r
    <3>3. waiters' = r
      BY <2>2 DEF r
    <3>4. {r[j] : j \in 1..Len(r)} = {waiters[j] : j \in 1..Len(waiters)} \ {c}
      BY <2>2, <3>2
    <3> QED BY ONLY <3>2, <3>3, <3>4
  <2>4. \A d \in Callers : status'[d] = "waiting" <=> d # c /\ status[d] = "waiting"
    BY <1>4, <1>t DEF GiveUp
  <2>5. QueueIsWaiting'
    BY <2>3, <2>4 DEF IInv, QueueIsWaiting
  <2>6. NoIdleSlotWithWaiter'
    BY <1>4, <1>t, <2>2 DEF GiveUp, IInv, NoIdleSlotWithWaiter
  <2> QED BY <1>4, <1>t, <1>h, <2>1, <2>3, <2>5, <2>6 DEF GiveUp, IInv, CountIsHolders
<1>5. ASSUME NEW c \in Callers, Release(c)
      PROVE  IInv' /\ (Abstract!Leave(c) \/ \E d \in Callers : Abstract!Pass(c, d))
  <2>0. status[c] = "holding" /\ c \in holders
    BY <1>5 DEF Release, holders
  <2>1. CASE waiters # <<>>
    <3> DEFINE w == Head(waiters)
    <3>1. /\ w \in Callers /\ waiters' \in Seq(Callers) /\ Len(waiters') = Len(waiters) - 1
          /\ \A i \in 1..Len(waiters') : waiters'[i] = waiters[i + 1]
          /\ w = waiters[1] /\ Len(waiters) > 0
      BY <1>5, <1>t, <2>1, HeadTailProperties DEF Release, ReleaseHandle
    <3>2. status[w] = "waiting"
      BY <3>1, <1>t DEF IInv, QueueIsWaiting
    <3>3. status' = [status EXCEPT ![c] = "released", ![w] = "holding"] /\ count' = count
      BY <1>5, <2>1 DEF Release, ReleaseHandle
    <3>4. holders' = (holders \ {c}) \cup {w} /\ w \notin holders /\ w # c
      BY <2>0, <3>1, <3>2, <3>3, <1>t DEF holders
    <3>5. Cardinality(holders') = Cardinality(holders)
      <4>1. IsFiniteSet(holders \ {c}) /\ Cardinality(holders \ {c}) = Cardinality(holders) - 1
        BY <2>0, FS_RemoveElement
      <4>2. w \notin holders \ {c}
        BY <3>4
      <4>3. Cardinality((holders \ {c}) \cup {w}) = Cardinality(holders \ {c}) + 1
        BY <4>1, <4>2, FS_AddElement
      <4> QED BY <4>1, <4>3, <3>4, <1>h, <1>t
    <3>6. QueueIsWaiting'
      <4>1. {waiters'[i] : i \in 1..Len(waiters')} = {waiters[i] : i \in 1..Len(waiters)} \ {w}
        <5>1. ASSUME NEW x \in {waiters[i] : i \in 1..Len(waiters)} \ {w}
              PROVE  x \in {waiters'[i] : i \in 1..Len(waiters')}
          <6>1. PICK i \in 1..Len(waiters) : x = waiters[i] /\ i # 1
            BY <5>1, <3>1
          <6>2. i - 1 \in 1..Len(waiters') /\ waiters'[i - 1] = waiters[i]
            BY <6>1, <3>1, <1>t
          <6> QED BY <6>1, <6>2
        <5>2. ASSUME NEW x \in {waiters'[i] : i \in 1..Len(waiters')}
              PROVE  x \in {waiters[i] : i \in 1..Len(waiters)} \ {w}
          <6>1. PICK i \in 1..Len(waiters') : x = waiters'[i]
            BY <5>2
          <6>2. i + 1 \in 1..Len(waiters) /\ x = waiters[i + 1] /\ 1 \in 1..Len(waiters)
            BY <6>1, <3>1, <1>t
          <6> QED BY <6>2, <3>1 DEF IInv, QueueIsWaiting
        <5> QED BY <5>1, <5>2
      <4>2. \A i, j \in 1..Len(waiters') : waiters'[i] = waiters'[j] => i = j
        BY <3>1, <1>t DEF IInv, QueueIsWaiting
      <4>3. \A d \in Callers : status'[d] = "waiting" <=> d # w /\ status[d] = "waiting"
        BY <2>0, <3>3, <3>4, <1>t
      <4> QED BY <4>1, <4>2, <4>3 DEF IInv, QueueIsWaiting
    <3>7. status' \in [Callers -> Status]
      BY <3>3, <1>t
    <3>8. IInv'
      BY <1>t, <1>h, <2>1, <3>1, <3>3, <3>5, <3>6, <3>7 DEF IInv, CountIsHolders, NoIdleSlotWithWaiter
    <3>9. Abstract!Pass(c, w)
      BY <2>0, <3>4 DEF Abstract!Pass
    <3> QED BY <3>1, <3>8, <3>9
  <2>2. CASE waiters = <<>>
    <3>1. status' = [status EXCEPT ![c] = "released"] /\ count' = count - 1 /\ waiters' = waiters
      BY <1>5, <2>2 DEF Release, ReleaseHandle
    <3>2. holders' = holders \ {c}
      BY <3>1, <1>t DEF holders
    <3>3. Cardinality(holders') = Cardinality(holders) - 1 /\ Cardinality(holders') \in Nat
      BY <2>0, <3>2, FS_RemoveElement, FS_CardinalityType
    <3>4. QueueIsWaiting'
      BY <2>0, <3>1, <1>t DEF IInv, QueueIsWaiting
    <3>5. IInv'
      BY <1>t, <1>h, <2>2, <3>1, <3>3, <3>4 DEF IInv, CountIsHolders, NoIdleSlotWithWaiter
    <3> QED BY <2>0, <3>2, <3>5 DEF Abstract!Leave
  <2> QED BY <2>1, <2>2
<1>6. ASSUME UNCHANGED vars
      PROVE  IInv' /\ holders' = holders
  BY <1>6 DEF vars, IInv, QueueIsWaiting, CountIsHolders, NoIdleSlotWithWaiter, holders
<1>7. ASSUME NEW c \in Callers, ReleaseAgain(c)
      PROVE  IInv' /\ holders' = holders
  BY <1>6, <1>7 DEF ReleaseAgain
<1> QED BY <1>1, <1>2, <1>3, <1>4, <1>5, <1>6, <1>7
        DEF Next, Caller, Abstract!Next

\* The counter of acquireLocal always equals the number of live handles, for
\* any callers and any bound: no exit path of withSlot leaks or doubles a slot.
THEOREM CountCorrect == Spec => []CountIsHolders
<1>1. IInv => CountIsHolders
  BY DEF IInv
<1> QED BY <1>1, InitIInv, StepIInv, PTL DEF Spec

\* Nobody waits while a slot is free (no lost wake-up).
THEOREM NoLostWakeUp == Spec => []NoIdleSlotWithWaiter
<1>1. IInv => NoIdleSlotWithWaiter
  BY DEF IInv
<1> QED BY <1>1, InitIInv, StepIInv, PTL DEF Spec

\* Type correctness of the fallback.
THEOREM LocalTypeCorrect == Spec => []TypeOK
<1>1. IInv => TypeOK
  BY LocalAssumption DEF IInv, TypeOK
<1> QED BY <1>1, InitIInv, StepIInv, PTL DEF Spec

\* The fallback implements the abstract semaphore, so at most MaxSlots
\* callers ever hold a slot of a degraded dir.
THEOREM FallbackImplementsSemaphore == Spec => ImplementsSemaphore
<1>1. Init => Abstract!Init
  BY DEF Init, holders, Abstract!Init
<1> QED BY <1>1, InitIInv, StepIInv, PTL DEF Spec, ImplementsSemaphore, Abstract!Spec

-----------------------------------------------------------------------------
(* The tickets of the waiters (SlotTickets). *)

Places == {"idle", "write", "list", "read", "unlink", "sleep", "refresh", "drop", "held", "dead"}

\* A refresh is in flight only while its call waits or drops its ticket, and only a call that
\* waits has a ticket: this is why no refresh can bring back the ticket of an ended call, even
\* one that began to write it again before the call ended.
TicketInv ==
  /\ at \in [Procs -> Places]
  /\ file \in [Procs -> {"none", "fresh", "old"}]
  /\ beat \in [Procs -> {"none", "touch", "rewrite"}]
  /\ \A p \in Procs :
       /\ beat[p] # "none" => at[p] \in Loop \cup {"drop"}
       /\ beat[p] # "none" \/ file[p] # "none" \/ at[p] \in {"write", "drop", "refresh"} => p \in Waiters
  /\ NoGhostTicket

LEMMA InitTickets == TicketInit => TicketInv
  BY DEF TicketInit, TicketInv, Places, NoGhostTicket

LEMMA StepTickets == TicketInv /\ [TicketNext]_tvars => TicketInv'
  <1> SUFFICES ASSUME TicketInv, [TicketNext]_tvars PROVE TicketInv'
    OBVIOUS
  <1> USE DEF TicketInv, NoGhostTicket, Goes, Places, Loop
  <1>1. CASE UNCHANGED tvars
    BY <1>1 DEF tvars
  <1>2. ASSUME NEW p \in Procs, Call(p) \/ WriteTicket(p)
        PROVE  TicketInv'
    BY <1>2 DEF Call, WriteTicket
  <1>3. ASSUME NEW p \in Procs, Eligible(p) \/ ReadTicket(p) \/ GiveBack(p)
        PROVE  TicketInv'
    BY <1>3 DEF Eligible, ReadTicket, GiveBack
  <1>4. ASSUME NEW p \in Procs, UnlinkDead(p)
        PROVE  TicketInv'
    BY <1>4 DEF UnlinkDead
  <1>5. ASSUME NEW p \in Procs, TrySlots(p)
        PROVE  TicketInv'
    BY <1>5 DEF TrySlots
  <1>6. ASSUME NEW p \in Procs, Wake(p) \/ TimesOut(p)
        PROVE  TicketInv'
    BY <1>6 DEF Wake, TimesOut
  <1>7. ASSUME NEW p \in Procs, DropTicket(p)
        PROVE  TicketInv'
    BY <1>7 DEF DropTicket, mayUnlink
  <1>8. ASSUME NEW p \in Procs, Beat(p) \/ Beats(p)
        PROVE  TicketInv'
    BY <1>8 DEF Beat, Beats, TouchTicket, TouchMissing, dropped, RewriteTicket, Refreshed
  <1>9. ASSUME NEW p \in Procs, Age(p) \/ Cleaned(p) \/ Reclaim(p)
        PROVE  TicketInv'
    BY <1>9 DEF Age, Cleaned, Unkept, Reclaim
  <1>10. ASSUME NEW p \in Procs, Crash(p) \/ Exit(p)
         PROVE  TicketInv'
    BY <1>10 DEF Crash, Exit, dropped
  <1> QED
    BY <1>1, <1>2, <1>3, <1>4, <1>5, <1>6, <1>7, <1>8, <1>9, <1>10 DEF TicketNext, Steps

\* A ticket file belongs to a call that waits, to a dead process, or to a call that failed to
\* delete it, whoever else deletes tickets and when: dropTicket waits for the refresh in flight,
\* a rewrite included, and no refresh begins to write for a dropped ticket (slot.ts dropTicket
\* and refreshTicket).
THEOREM NoTicketComesBack == TicketSpec => []NoGhostTicket
  <1>1. TicketInv => NoGhostTicket
    BY DEF TicketInv
  <1> QED
    BY InitTickets, StepTickets, <1>1, PTL DEF TicketSpec


-----------------------------------------------------------------------------
(* Reference worktrees: what a collection rests on. *)

DirShape(x) ==
  x \in [exists : BOOLEAN, reg : BOOLEAN, lock : {"none", "init", "own", "user"},
         links : BOOLEAN, fresh : BOOLEAN, foreign : BOOLEAN]
GcShape(x) ==
  /\ x \in [phase : {"off", "entries", "orphans", "done"}, by : {x.by}, list : {x.list}, todo : SUBSET Dirs,
            at : Dirs \cup {-1}, step : {"none", "sweep", "rm", "admin"}, git : BOOLEAN, ok : BOOLEAN,
            due : SUBSET Dirs]
  /\ DOMAIN x.list \subseteq Dirs
  /\ \A k \in DOMAIN x.list : x.list[k] \in {"none", "init", "own", "user"}

WorktreesAre ==
  /\ dirs = [k \in Dirs |-> dirs[k]] /\ \A k \in Dirs : DirShape(dirs[k])
  /\ GcShape(gc) /\ alive \in BOOLEAN

\* Git locks what it lists; a dispatch's directory begins with its materialization and is its own.
DirsAreOwn ==
  /\ \A d \in Dispatches :
       /\ ~dirs[d].foreign /\ dirs[d].lock # "user"
       /\ mats[d].st \in {"none", "wanted"} => ~dirs[d].exists /\ ~mats[d].released
       /\ mats[d].st \in {"none", "wanted", "made"} => ~dirs[d].reg
       /\ alive /\ mats[d].st = "adding" => dirs[d].reg /\ dirs[d].lock = "init"
       /\ mats[d].released => mats[d].st = "gone"
  /\ \A k \in Dirs : dirs[k].lock # "none" => dirs[k].reg
  /\ \A k \in Dirs : dirs[k].reg => ~dirs[k].foreign

\* What a collection listed has begun, and is not being made unless git says so.
Begun == {"none", "wanted", "made", "adding"}
ListIsOld ==
  /\ \A k \in Dispatches : k \in DOMAIN gc.list \/ k \in gc.todo => mats[k].st \notin {"none", "wanted"}
  /\ \A k \in Dispatches \cap DOMAIN gc.list : alive /\ gc.list[k] # "init" => mats[k].st \notin Begun
  /\ \A k \in DOMAIN gc.list : ~dirs[k].foreign
  /\ dirs[0].lock = "user" /\ gc.phase \in {"entries", "orphans"} => 0 \in DOMAIN gc.list /\ gc.list[0] = "user"
  /\ gc.phase = "off" => gc.due = {} /\ gc.at = -1 /\ DOMAIN gc.list = {} /\ gc.todo = {}
  /\ gc.phase = "entries" => gc.todo \subseteq DOMAIN gc.list

\* It is at a directory it may take: nobody uses it, or its heartbeat has stopped.
TakesStale ==
  gc.at # -1 =>
    /\ gc.at \in gc.todo /\ gc.phase \in {"entries", "orphans"} /\ gc.step # "none"
    /\ gc.git <=> gc.phase = "entries"
    /\ ~gc.git => gc.step # "admin"
    /\ gc.at # 0 /\ alive /\ mats[gc.at].st \in InUse => ~dirs[gc.at].fresh
    /\ gc.at # 0 /\ alive /\ gc.git => mats[gc.at].st \notin Begun
    /\ gc.at = 0 => ~dirs[0].foreign /\ dirs[0].lock # "user"

\* What was left over when it began is removed, or will be before it ends.
Swept(k) == ~dirs[k].exists /\ ~dirs[k].reg
DueIsSwept ==
  \A k \in gc.due :
    /\ (k = 0 \/ ~alive) /\ ~dirs[k].foreign
    /\ k \in DOMAIN gc.list => gc.list[k] # "user"
    /\ gc.ok =>
         /\ k \notin DOMAIN gc.list => ~dirs[k].reg
         /\ gc.phase = "entries" /\ k \in DOMAIN gc.list => k \in gc.todo \/ Swept(k)
         /\ gc.phase = "orphans" /\ k \in DOMAIN gc.list => Swept(k)
         /\ gc.phase = "orphans" /\ k \notin DOMAIN gc.list => k \in gc.todo \/ ~dirs[k].exists
         /\ gc.phase = "done" => Swept(k)
         /\ gc.at = k /\ gc.step = "admin" => ~dirs[k].exists

CleanupInv == WorktreesAre /\ DirsAreOwn /\ ListIsOld /\ TakesStale /\ DueIsSwept /\ OnlyStaleRemoved

-----------------------------------------------------------------------------
(* Dispatches over one tree (Reference): the shared flights. *)

\* Whatever it holds.
FlightShape(x) ==
  x \in [on : BOOLEAN, phase : {0, 1, 2}, snap : {x.snap}, ref : {x.ref}, torn : {x.torn},
         sharers : SUBSET Dispatches]
DispatchShape(x) ==
  x \in [st : {"none", "working", "gate", "judged", "prepared", "over"}, tests : BOOLEAN,
         snapPending : BOOLEAN, snapBad : BOOLEAN, capPending : BOOLEAN, capBad : BOOLEAN,
         snap : {x.snap}, ref : {x.ref}, observed : {x.observed}, start : {x.start},
         touched : {x.touched}, due : {x.due}, asked : {x.asked}, gateKey : {x.gateKey},
         now : {x.now}, torn : {x.torn}, result : {x.result}]
MatShape(m) ==
  /\ m \in [st : {m.st}, ref : {m.ref}, content : {m.content}, lost : {m.lost}, exact : {m.exact},
            released : {m.released}]
  /\ m.st \in {"none", "wanted", "gone"} \cup InUse \cup DOMAIN StepAfter
CallShape(x) == x \in [kind : {"idle", "edit", "bash"}, file : {x.file}, left : {x.left}]

\* The dispatches that wait for what a lane reads.
Waits(k) ==
  {d \in Dispatches : CASE k = Snap -> ds[d].snapPending
                        [] k = Cap -> ds[d].capPending
                        [] OTHER -> ds[d].st = "gate" /\ ds[d].gateKey = k}

\* Its sharers are among W, each in one of its flights; the next flight has read nothing.
LaneIs(lane, W) ==
  /\ lane = [running |-> lane.running, next |-> lane.next]
  /\ FlightShape(lane.running) /\ FlightShape(lane.next)
  /\ lane.running.sharers \cup lane.next.sharers \subseteq W
  /\ lane.running.sharers \cap lane.next.sharers = {}
  /\ lane.next.phase = 0

DispatchesAre ==
  /\ ds = [d \in Dispatches |-> ds[d]]
  /\ mats = [d \in Dispatches |-> mats[d]] /\ lanes = [k \in LaneKeys |-> lanes[k]]
  /\ \A d \in Dispatches :
       /\ DispatchShape(ds[d]) /\ MatShape(mats[d])
       /\ ds[d].st = "none" => ~ds[d].snapPending /\ ~ds[d].capPending /\ ~ds[d].ref.ok
       /\ mats[d].st # "none" => ds[d].st = "prepared"
\* No producer is in a tool call before its dispatch begins or while its capture is pending, and
\* the calls open meanwhile were open when the dispatch began.
CallsAre ==
  /\ calls = [s \in Sessions |-> calls[s]] /\ \A s \in Sessions : CallShape(calls[s])
  /\ \A d \in Dispatches : ds[d].capPending \/ ds[d].st = "none" => calls[d].kind = "idle"
  /\ \A d \in Dispatches, s \in Sessions : ds[d].capPending /\ calls[s].kind # "idle" => <<s, d>> \in during
FlightsAre == \A k \in LaneKeys : LaneIs(lanes[k], Waits(k))

-----------------------------------------------------------------------------
(* References: what an exact one rests on. *)

RepoShape(x) == x = [head |-> [f \in Files |-> x.head[f]], tree |-> [f \in Files |-> x.tree[f]]]
RefShape(r) == r \in [ok : BOOLEAN, commit : {r.commit}, tracked : {r.tracked}, untracked : {r.untracked}]
At(r, f) == IF f \in DOMAIN r.untracked THEN r.untracked[f] ELSE r.commit[f]
Untouched(d) == Files \ ds[d].touched

\* Until its capture is over nobody changes a file unseen; what a flight has read is still so.
CaptureIsTrue ==
  /\ RepoShape(g)
  /\ \A d \in Dispatches : ds[d].capPending => \A f \in Untouched(d) : g.tree[f] = ds[d].start[f]
  /\ LET running == lanes[Cap].running
     IN running.phase # 0 =>
          /\ RefShape(running.ref)
          /\ \A d \in running.sharers : \A f \in Untouched(d) :
               running.ref.commit[f] = IF g.head[f] = "none" THEN "none" ELSE g.tree[f]

RefIsTrue(d, r) == r.ok => \A f \in Untouched(d) : At(r, f) = ds[d].start[f]
\* The reference of a dispatch is the tree it began with, and so is its copy if nothing is lost.
ReferencesAreTrue ==
  \A d \in Dispatches :
    /\ RefIsTrue(d, ds[d].ref) /\ RefIsTrue(d, mats[d].ref)
    /\ mats[d].st = "none" => ~mats[d].ref.ok
    /\ mats[d].st \in {"wanted"} \cup InUse => mats[d].ref.ok
    /\ mats[d].st \in {"copied", "linked", "ready"} /\ mats[d].lost = {} =>
         \A f \in Files : mats[d].content[f] = At(mats[d].ref, f)
    /\ mats[d].st = "ready" /\ mats[d].exact => mats[d].lost = {}

ReferenceInv == DispatchesAre /\ CallsAre /\ FlightsAre /\ CaptureIsTrue /\ ReferencesAreTrue

-----------------------------------------------------------------------------
(* References: what the operations on a lane do. *)

LEMMA NewFlightIs ==
  ASSUME NEW d \in Dispatches
  PROVE  /\ NewFlight(d) = [on |-> TRUE, phase |-> 0, snap |-> NoSnapshot, ref |-> NoReference,
                            torn |-> FALSE, sharers |-> {d}]
         /\ NoFlight = [on |-> FALSE, phase |-> 0, snap |-> NoSnapshot, ref |-> NoReference,
                        torn |-> FALSE, sharers |-> {}]
         /\ FlightShape(NewFlight(d)) /\ FlightShape(NoFlight)
<1>1. PICK sn : sn = NoSnapshot
  OBVIOUS
<1>2. PICK rf : rf = NoReference
  OBVIOUS
<1>3. PICK s : s = {d}
  OBVIOUS
<1>4. NoFlight = [on |-> FALSE, phase |-> 0, snap |-> sn, ref |-> rf, torn |-> FALSE, sharers |-> {}]
  BY <1>1, <1>2 DEF NoFlight
<1>5. NewFlight(d) = [NoFlight EXCEPT !.on = TRUE, !.sharers = s]
  BY <1>3 DEF NewFlight
<1>6. NewFlight(d) = [on |-> TRUE, phase |-> 0, snap |-> sn, ref |-> rf, torn |-> FALSE, sharers |-> s]
  BY <1>4, <1>5
<1>7. FlightShape(NewFlight(d)) /\ FlightShape(NoFlight)
  BY <1>3, <1>4, <1>6 DEF FlightShape
<1> QED BY <1>1, <1>2, <1>3, <1>4, <1>6, <1>7

\* A flight without some of its sharers.
Leaving(x, S) == [x EXCEPT !.sharers = @ \ S]

LEMMA SharersLeave ==
  ASSUME NEW x, FlightShape(x), NEW S
  PROVE  /\ FlightShape(Leaving(x, S)) /\ Leaving(x, S).sharers = x.sharers \ S
         /\ Leaving(x, S).phase = x.phase /\ Leaving(x, S).ref = x.ref
<1>1. PICK y : y = [x EXCEPT !.sharers = x.sharers \ S]
  OBVIOUS
<1>2. y = [on |-> x.on, phase |-> x.phase, snap |-> x.snap, ref |-> x.ref, torn |-> x.torn,
           sharers |-> x.sharers \ S]
  BY <1>1 DEF FlightShape
<1>3. Leaving(x, S) = y
  BY <1>1 DEF Leaving
<1> QED BY <1>2, <1>3 DEF FlightShape

\* Whoever joins shares a flight that has read nothing yet.
LEMMA JoinIs ==
  ASSUME NEW lane, NEW W, NEW d \in Dispatches, LaneIs(lane, W), d \notin W
  PROVE  /\ LaneIs(Join(lane, d), W \cup {d})
         /\ Join(lane, d).running \in {lane.running, NewFlight(d)}
<1>1. PICK new : new = NewFlight(d)
  OBVIOUS
<1>2. FlightShape(new) /\ new.sharers = {d} /\ new.phase = 0
  BY <1>1, NewFlightIs
<1>3. CASE lane.next.on
  <2>1. PICK y : y = [lane.next EXCEPT !.sharers = @ \cup {d}]
    OBVIOUS
  <2>2. y = [on |-> lane.next.on, phase |-> lane.next.phase, snap |-> lane.next.snap,
             ref |-> lane.next.ref, torn |-> lane.next.torn, sharers |-> lane.next.sharers \cup {d}]
    BY <2>1 DEF LaneIs, FlightShape
  <2>3. FlightShape(y) /\ y.phase = 0 /\ y.sharers = lane.next.sharers \cup {d}
    BY <2>2 DEF LaneIs, FlightShape
  <2>4. Join(lane, d) = [running |-> lane.running, next |-> y]
    <3>1. Join(lane, d) = [lane EXCEPT !.next.sharers = @ \cup {d}]
      BY <1>3 DEF Join
    <3> QED BY <2>1, <3>1 DEF LaneIs
  <2> QED BY <2>3, <2>4 DEF LaneIs
<1>4. CASE ~lane.next.on /\ lane.running.on
  <2>1. Join(lane, d) = [running |-> lane.running, next |-> new]
    BY <1>1, <1>4 DEF Join, LaneIs
  <2> QED BY <1>2, <2>1 DEF LaneIs
<1>5. CASE ~lane.next.on /\ ~lane.running.on
  <2>1. Join(lane, d) = [running |-> new, next |-> lane.next]
    BY <1>1, <1>5 DEF Join, LaneIs
  <2>2. d \notin lane.next.sharers
    BY DEF LaneIs
  <2> QED BY <1>1, <1>2, <2>1, <2>2 DEF LaneIs
<1> QED BY <1>3, <1>4, <1>5

\* The next flight, which has read nothing, takes the place of the one that ended.
LEMMA AdvanceIs ==
  ASSUME NEW lane, NEW W, LaneIs(lane, W)
  PROVE  /\ LaneIs(Advance(lane), W \ lane.running.sharers)
         /\ Advance(lane).running.phase = 0
<1>1. Advance(lane) = [running |-> lane.next, next |-> NoFlight]
  BY DEF Advance
<1>2. FlightShape(NoFlight) /\ NoFlight.sharers = {} /\ NoFlight.phase = 0
  BY DEF NoFlight, FlightShape
<1> QED BY <1>1, <1>2 DEF LaneIs

LEMMA LeaveIs ==
  ASSUME NEW lane, NEW W, NEW d \in Dispatches, LaneIs(lane, W)
  PROVE  /\ LaneIs(LeaveFlight(lane, d), W \ {d})
         /\ \/ LeaveFlight(lane, d).running.phase = 0
            \/ /\ LeaveFlight(lane, d).running.phase = lane.running.phase
               /\ LeaveFlight(lane, d).running.ref = lane.running.ref
               /\ LeaveFlight(lane, d).running.sharers \subseteq lane.running.sharers
<1>1. FlightShape(NoFlight) /\ NoFlight.sharers = {} /\ NoFlight.phase = 0
  BY DEF NoFlight, FlightShape
<1>2. CASE lane.running.sharers = {d}
  <2>1. LeaveFlight(lane, d) = Advance(lane)
    <3>1. lane.next.sharers # {d}
      BY <1>2 DEF LaneIs
    <3> QED BY <1>2, <3>1 DEF LeaveFlight
  <2> QED BY <1>2, <2>1, AdvanceIs
<1>3. CASE lane.running.sharers # {d} /\ lane.next.sharers = {d}
  <2>1. LeaveFlight(lane, d) = [running |-> lane.running, next |-> NoFlight]
    BY <1>3 DEF LeaveFlight, LaneIs
  <2> QED BY <1>1, <1>3, <2>1 DEF LaneIs
<1>4. CASE lane.running.sharers # {d} /\ lane.next.sharers # {d}
  <2>0. FlightShape(lane.running) /\ FlightShape(lane.next)
    BY DEF LaneIs
  <2>1. PICK y : y = Leaving(lane.running, {d})
    OBVIOUS
  <2>2. PICK z : z = Leaving(lane.next, {d})
    OBVIOUS
  <2>3. LeaveFlight(lane, d) = [running |-> y, next |-> z]
    BY <1>4, <2>1, <2>2 DEF LeaveFlight, LaneIs, Leaving
  <2>4. /\ FlightShape(y) /\ y.sharers = lane.running.sharers \ {d}
        /\ y.phase = lane.running.phase /\ y.ref = lane.running.ref
    BY <2>0, <2>1, SharersLeave
  <2>5. FlightShape(z) /\ z.sharers = lane.next.sharers \ {d} /\ z.phase = lane.next.phase
    BY <2>0, <2>2, SharersLeave
  <2> QED BY <2>3, <2>4, <2>5 DEF LaneIs
<1> QED BY <1>2, <1>3, <1>4

\* Before and after a tool call nobody waits for a capture any more.
LEMMA LeaveAllIs ==
  ASSUME DispatchesAre, NEW lane, LaneIs(lane, Waits(Cap))
  PROVE  LaneIs(LeaveAll(lane), {}) /\ LeaveAll(lane).running.phase = 0
<1>1. PICK out : out = {d \in Dispatches : ds[d].capPending /\ Contaminated(ds[d]).capBad}
  OBVIOUS
<1>2. Waits(Cap) \subseteq out
  <2>1. ASSUME NEW d \in Waits(Cap) PROVE Contaminated(ds[d]).capBad
    <3>1. DispatchShape(ds[d]) /\ ds[d].capPending
      BY DEF Waits, DispatchesAre, Cap, Snap
    <3> QED BY <3>1 DEF Contaminated, DispatchShape
  <2> QED BY <1>1, <2>1 DEF Waits, Cap, Snap
<1>3. PICK run : run = Leaving(lane.running, out)
  OBVIOUS
<1>4. PICK nxt : nxt = Leaving(lane.next, out)
  OBVIOUS
<1>5. run.sharers = {} /\ nxt.sharers = {}
  <2>1. FlightShape(lane.running) /\ FlightShape(lane.next)
        /\ lane.running.sharers \cup lane.next.sharers \subseteq Waits(Cap)
    BY DEF LaneIs
  <2>2. run.sharers = lane.running.sharers \ out /\ nxt.sharers = lane.next.sharers \ out
    BY <1>3, <1>4, <2>1, SharersLeave
  <2> QED BY <1>2, <2>1, <2>2
<1>6. LeaveAll(lane) = [running |-> NoFlight, next |-> NoFlight]
  BY <1>1, <1>3, <1>4, <1>5 DEF LeaveAll, Leaving
<1>7. FlightShape(NoFlight) /\ NoFlight.sharers = {} /\ NoFlight.phase = 0
  BY DEF NoFlight, FlightShape
<1> QED BY <1>6, <1>7 DEF LaneIs

-----------------------------------------------------------------------------
(* References: what a read that ends and a tool call make of a dispatch's record. *)

LEMMA SnapDoneIs ==
  ASSUME NEW r, DispatchShape(r), NEW s
  PROVE  LET y == SnapDone(r, s)
         IN  /\ DispatchShape(y) /\ ~y.snapPending /\ y.capPending = r.capPending /\ y.st = r.st
             /\ y.ref = r.ref /\ y.start = r.start /\ y.touched = r.touched /\ y.gateKey = r.gateKey
<1>1. PICK snap : snap = IF s.ok /\ ~r.snapBad THEN s ELSE NoSnapshot
  OBVIOUS
<1>2. PICK y : y = [r EXCEPT !.snapPending = FALSE, !.snap = snap]
  OBVIOUS
<1>3. SnapDone(r, s) = y
  BY <1>1, <1>2 DEF SnapDone
<1>4. y = [st |-> r.st, tests |-> r.tests, snapPending |-> FALSE, snapBad |-> r.snapBad,
           capPending |-> r.capPending, capBad |-> r.capBad, snap |-> snap, ref |-> r.ref,
           observed |-> r.observed, start |-> r.start, touched |-> r.touched, due |-> r.due,
           asked |-> r.asked, gateKey |-> r.gateKey, now |-> r.now, torn |-> r.torn, result |-> r.result]
  BY <1>2 DEF DispatchShape
<1> QED BY <1>3, <1>4 DEF DispatchShape

LEMMA CapDoneIs ==
  ASSUME NEW r, DispatchShape(r), NEW c
  PROVE  LET y == CapDone(r, c)
         IN  /\ DispatchShape(y) /\ ~y.capPending /\ y.snapPending = r.snapPending /\ y.st = r.st
             /\ y.ref = c /\ y.start = r.start /\ y.touched = r.touched /\ y.gateKey = r.gateKey
<1>1. PICK y : y = [r EXCEPT !.capPending = FALSE, !.ref = c]
  OBVIOUS
<1>2. CapDone(r, c) = y
  BY <1>1 DEF CapDone
<1>3. y = [st |-> r.st, tests |-> r.tests, snapPending |-> r.snapPending, snapBad |-> r.snapBad,
           capPending |-> FALSE, capBad |-> r.capBad, snap |-> r.snap, ref |-> c,
           observed |-> r.observed, start |-> r.start, touched |-> r.touched, due |-> r.due,
           asked |-> r.asked, gateKey |-> r.gateKey, now |-> r.now, torn |-> r.torn, result |-> r.result]
  BY <1>1 DEF DispatchShape
<1> QED BY <1>2, <1>3 DEF DispatchShape

LEMMA GateDoneIs ==
  ASSUME NEW r, DispatchShape(r), NEW s, NEW torn
  PROVE  LET y == GateDone(r, s, torn)
         IN  /\ DispatchShape(y) /\ y.capPending = r.capPending /\ y.snapPending = r.snapPending
             /\ y.st = "judged" /\ y.ref = r.ref /\ y.start = r.start /\ y.touched = r.touched
<1>1. PICK y : y = [r EXCEPT !.st = "judged", !.now = s, !.torn = torn]
  OBVIOUS
<1>2. GateDone(r, s, torn) = y
  BY <1>1 DEF GateDone
<1>3. y = [st |-> "judged", tests |-> r.tests, snapPending |-> r.snapPending, snapBad |-> r.snapBad,
           capPending |-> r.capPending, capBad |-> r.capBad, snap |-> r.snap, ref |-> r.ref,
           observed |-> r.observed, start |-> r.start, touched |-> r.touched, due |-> r.due,
           asked |-> r.asked, gateKey |-> r.gateKey, now |-> s, torn |-> torn, result |-> r.result]
  BY <1>1 DEF DispatchShape
<1> QED BY <1>2, <1>3 DEF DispatchShape

LEMMA ContaminatedIs ==
  ASSUME NEW r, DispatchShape(r), NEW seen
  PROVE  /\ LET y == Contaminated(r)
            IN  /\ DispatchShape(y) /\ ~y.capPending /\ y.snapPending = r.snapPending /\ y.st = r.st
                /\ y.ref = r.ref /\ y.start = r.start /\ y.touched = r.touched /\ y.gateKey = r.gateKey
         /\ LET y == [Contaminated(r) EXCEPT !.observed = @ \cup seen]
            IN  /\ DispatchShape(y) /\ ~y.capPending /\ y.snapPending = r.snapPending /\ y.st = r.st
                /\ y.ref = r.ref /\ y.start = r.start /\ y.touched = r.touched /\ y.gateKey = r.gateKey
<1>1. PICK sb \in BOOLEAN : sb = (r.snapBad \/ r.snapPending)
  OBVIOUS
<1>2. PICK cb \in BOOLEAN : cb = (r.capBad \/ r.capPending)
  OBVIOUS
<1>3. PICK y : y = [r EXCEPT !.snapBad = sb, !.capBad = cb, !.capPending = FALSE]
  OBVIOUS
<1>4. Contaminated(r) = y
  BY <1>1, <1>2, <1>3 DEF Contaminated, DispatchShape
<1>5. y = [st |-> r.st, tests |-> r.tests, snapPending |-> r.snapPending, snapBad |-> sb,
           capPending |-> FALSE, capBad |-> cb, snap |-> r.snap, ref |-> r.ref,
           observed |-> r.observed, start |-> r.start, touched |-> r.touched, due |-> r.due,
           asked |-> r.asked, gateKey |-> r.gateKey, now |-> r.now, torn |-> r.torn, result |-> r.result]
  BY <1>3 DEF DispatchShape
<1>6. PICK z : z = [y EXCEPT !.observed = @ \cup seen]
  OBVIOUS
<1>7. z = [st |-> r.st, tests |-> r.tests, snapPending |-> r.snapPending, snapBad |-> sb,
           capPending |-> FALSE, capBad |-> cb, snap |-> r.snap, ref |-> r.ref,
           observed |-> r.observed \cup seen, start |-> r.start, touched |-> r.touched, due |-> r.due,
           asked |-> r.asked, gateKey |-> r.gateKey, now |-> r.now, torn |-> r.torn, result |-> r.result]
  BY <1>5, <1>6
<1>8. DispatchShape(y) /\ DispatchShape(z)
  BY <1>1, <1>2, <1>5, <1>7 DEF DispatchShape
<1> QED BY <1>4, <1>5, <1>6, <1>7, <1>8

Touching(r, F) == [r EXCEPT !.touched = @ \cup F]

LEMMA TouchedIs ==
  ASSUME NEW r, DispatchShape(r), NEW F, NEW y, y = Touching(r, F)
  PROVE  /\ DispatchShape(y) /\ y.capPending = r.capPending /\ y.snapPending = r.snapPending
         /\ y.st = r.st /\ y.ref = r.ref /\ y.start = r.start /\ y.touched = r.touched \cup F
         /\ y.gateKey = r.gateKey
<1>0. PICK touched : touched = r.touched \cup F
  OBVIOUS
<1>1. y = [st |-> r.st, tests |-> r.tests, snapPending |-> r.snapPending, snapBad |-> r.snapBad,
           capPending |-> r.capPending, capBad |-> r.capBad, snap |-> r.snap, ref |-> r.ref,
           observed |-> r.observed, start |-> r.start, touched |-> touched, due |-> r.due,
           asked |-> r.asked, gateKey |-> r.gateKey, now |-> r.now, torn |-> r.torn, result |-> r.result]
  BY <1>0 DEF DispatchShape, Touching
<1> QED BY <1>0, <1>1 DEF DispatchShape

-----------------------------------------------------------------------------
(* References: the steps of a dispatch and of its flights. *)

LEMMA KeysAre ==
  /\ Snap \in LaneKeys /\ Cap \in LaneKeys /\ Snap # Cap
  /\ \A x, y : x \in {"gate", "all"} => <<x, y>> # Snap /\ <<x, y>> # Cap
BY DEF Snap, Cap, LaneKeys

\* What a step may make of a dispatch's record once it has begun.
MayBecome(r, q) ==
  /\ DispatchShape(q)
  /\ q.capPending => r.capPending
  /\ q.snapPending => r.snapPending
  /\ q.start = r.start /\ r.touched \subseteq q.touched
  /\ q.st = r.st \/ (r.st \notin {"none", "prepared"} /\ q.st # "none")
  /\ q.ref = r.ref \/ (q.st # "none" /\ (q.ref.ok => \A f \in Files \ q.touched : At(q.ref, f) = q.start[f]))
\* What a step may make of the flight that reads a reference: nothing new.
ReadsNoMore ==
  \/ lanes'[Cap].running.phase = 0
  \/ /\ lanes'[Cap].running.phase = lanes[Cap].running.phase
     /\ lanes'[Cap].running.ref = lanes[Cap].running.ref
     /\ lanes'[Cap].running.sharers \subseteq lanes[Cap].running.sharers

LEMMA QuietKeeps ==
  ASSUME ReferenceInv, UNCHANGED <<g, mats>>, CallsAre', FlightsAre', ReadsNoMore,
         ds' = [d \in Dispatches |-> ds'[d]], \A d \in Dispatches : MayBecome(ds[d], ds'[d]),
         lanes' = [k \in LaneKeys |-> lanes'[k]]
  PROVE  ReferenceInv'
<1> USE DEF ReferenceInv
<1>1. DispatchesAre'
  <2>1. ASSUME NEW d \in Dispatches PROVE MatShape(mats[d])
    BY DEF DispatchesAre
  <2> QED BY <2>1 DEF DispatchesAre, MayBecome, MatShape
<1>2. CaptureIsTrue'
  <2>1. ASSUME NEW d \in Dispatches, ds'[d].capPending, NEW f \in Files \ ds'[d].touched
        PROVE  g.tree[f] = ds'[d].start[f]
    BY <2>1 DEF CaptureIsTrue, MayBecome, Untouched
  <2>2. ASSUME NEW d \in Dispatches PROVE Files \ ds'[d].touched \subseteq Files \ ds[d].touched
    BY DEF MayBecome
  <2>3. lanes[Cap].running.sharers \subseteq Dispatches
    BY KeysAre DEF FlightsAre, LaneIs, Waits
  <2>4. ASSUME lanes'[Cap].running.phase # 0
        PROVE  /\ RefShape(lanes'[Cap].running.ref)
               /\ \A d \in lanes'[Cap].running.sharers : \A f \in Files \ ds'[d].touched :
                    lanes'[Cap].running.ref.commit[f] = IF g.head[f] = "none" THEN "none" ELSE g.tree[f]
    <3>1. /\ lanes'[Cap].running.phase = lanes[Cap].running.phase
          /\ lanes'[Cap].running.ref = lanes[Cap].running.ref
          /\ lanes'[Cap].running.sharers \subseteq lanes[Cap].running.sharers
      BY <2>4 DEF ReadsNoMore
    <3> QED BY <2>2, <2>3, <2>4, <3>1 DEF CaptureIsTrue, Untouched
  <2>5. RepoShape(g)
    BY DEF CaptureIsTrue
  <2> QED BY <2>1, <2>4, <2>5 DEF CaptureIsTrue, Untouched
<1>3. ReferencesAreTrue'
  <2>1. ASSUME NEW d \in Dispatches PROVE RefIsTrue(d, ds[d].ref)' /\ RefIsTrue(d, mats[d].ref)'
    <3>1. Files \ ds'[d].touched \subseteq Files \ ds[d].touched /\ ds'[d].start = ds[d].start
      BY DEF MayBecome
    <3>2. RefIsTrue(d, ds[d].ref) /\ RefIsTrue(d, mats[d].ref)
      BY DEF ReferencesAreTrue
    <3>3. CASE ds'[d].ref = ds[d].ref
      BY <3>1, <3>2, <3>3 DEF RefIsTrue, Untouched
    <3>4. CASE ds'[d].ref.ok => \A f \in Files \ ds'[d].touched : At(ds'[d].ref, f) = ds'[d].start[f]
      BY <3>1, <3>2, <3>4 DEF RefIsTrue, Untouched
    <3> QED BY <3>3, <3>4 DEF MayBecome
  <2> QED BY <2>1 DEF ReferencesAreTrue
<1> QED BY <1>1, <1>2, <1>3

LEMMA BeginKeeps ==
  ASSUME ReferenceInv, NEW d \in Dispatches, Begin(d)
  PROVE  ReferenceInv'
<1> USE DEF ReferenceInv
<1>1. DispatchShape(ds[d]) /\ ds[d].st = "none"
  BY DEF DispatchesAre, Begin
<1>2. PICK tests \in BOOLEAN : tests = ds[d].tests
  BY <1>1 DEF DispatchShape
<1>3. PICK y : y = [ds[d] EXCEPT !.st = "working", !.snapPending = TRUE, !.capPending = tests, !.start = g.tree]
  OBVIOUS
<1>4. y = [st |-> "working", tests |-> tests, snapPending |-> TRUE, snapBad |-> ds[d].snapBad,
           capPending |-> tests, capBad |-> ds[d].capBad, snap |-> ds[d].snap, ref |-> ds[d].ref,
           observed |-> ds[d].observed, start |-> g.tree, touched |-> ds[d].touched, due |-> ds[d].due,
           asked |-> ds[d].asked, gateKey |-> ds[d].gateKey, now |-> ds[d].now, torn |-> ds[d].torn,
           result |-> ds[d].result]
  BY <1>1, <1>2, <1>3 DEF DispatchShape
<1>5. ds' = [e \in Dispatches |-> IF e = d THEN y ELSE ds[e]]
  <2>1. ds = [e \in Dispatches |-> ds[e]]
    BY DEF DispatchesAre
  <2>2. ds' = [ds EXCEPT ![d] = y]
    BY <1>2, <1>3, <2>1 DEF Begin
  <2> QED BY <2>1, <2>2
<1>6. DispatchShape(y) /\ y.st = "working" /\ y.snapPending /\ y.capPending = tests /\ y.start = g.tree
      /\ y.ref = ds[d].ref /\ y.touched = ds[d].touched /\ y.gateKey = ds[d].gateKey
  BY <1>1, <1>2, <1>4 DEF DispatchShape
<1>7. lanes' = [k \in LaneKeys |-> IF k = Snap \/ (k = Cap /\ tests) THEN Join(lanes[k], d) ELSE lanes[k]]
  <2>1. lanes = [k \in LaneKeys |-> lanes[k]]
    BY DEF DispatchesAre
  <2>2. lanes' = [lanes EXCEPT ![Snap] = Join(@, d), ![Cap] = IF tests THEN Join(@, d) ELSE @]
    BY <1>2 DEF Begin
  <2> QED BY <2>1, <2>2, KeysAre
<1>8. UNCHANGED <<g, calls, mats>>
  BY DEF Begin
<1>8a. during \subseteq during' /\ \A s \in Sessions : calls[s].kind # "idle" => <<s, d>> \in during'
  BY DEF Begin
<1>9. DispatchesAre' /\ CallsAre'
  <2>1. lanes' = [k \in LaneKeys |-> lanes'[k]]
    BY <1>7
  <2>2. mats[d].st = "none" /\ calls[d].kind = "idle"
    BY <1>1 DEF DispatchesAre, CallsAre
  <2>3. ds' = [e \in Dispatches |-> ds'[e]]
    BY <1>5
  <2>4. ASSUME NEW e \in Dispatches, e # d PROVE ds'[e] = ds[e]
    BY <1>5, <2>4
  <2>5. ds'[d] = y
    BY <1>5
  <2>6. ASSUME NEW e \in Dispatches
        PROVE  /\ DispatchShape(ds'[e]) /\ MatShape(mats[e])
               /\ ds'[e].st = "none" => ~ds'[e].snapPending /\ ~ds'[e].capPending /\ ~ds'[e].ref.ok
               /\ mats[e].st # "none" => ds'[e].st = "prepared"
               /\ ds'[e].capPending \/ ds'[e].st = "none" => calls[e].kind = "idle"
    <3>1. CASE e = d
      <4>1. MatShape(mats[d])
        BY DEF DispatchesAre
      <4> QED BY <1>6, <2>2, <2>5, <3>1, <4>1
    <3>2. CASE e # d
      <4>1. ds'[e] = ds[e]
        BY <2>4, <3>2
      <4> QED BY <4>1 DEF DispatchesAre, CallsAre
    <3> QED BY <3>1, <3>2
  <2>7. /\ mats' = [e \in Dispatches |-> mats'[e]] /\ calls' = [s \in Sessions |-> calls'[s]]
        /\ \A s \in Sessions : CallShape(calls'[s])
    BY <1>8 DEF DispatchesAre, CallsAre
  <2>8. DispatchesAre'
    BY <1>8, <2>1, <2>3, <2>6, <2>7 DEF DispatchesAre, MatShape
  <2>9. ASSUME NEW e \in Dispatches, NEW s \in Sessions, ds'[e].capPending, calls[s].kind # "idle"
        PROVE  <<s, e>> \in during'
    <3>1. CASE e = d
      BY <1>8a, <2>9, <3>1
    <3>2. CASE e # d
      BY <1>8a, <2>4, <2>9, <3>2 DEF CallsAre
    <3> QED BY <3>1, <3>2
  <2>10. CallsAre'
    BY <1>8, <2>6, <2>7, <2>9 DEF CallsAre
  <2> QED BY <2>8, <2>10
<1>10. ~ds[d].snapPending /\ ~ds[d].capPending /\ ~ds[d].ref.ok
  BY <1>1 DEF DispatchesAre
<1>11. FlightsAre'
  <2> SUFFICES ASSUME NEW k \in LaneKeys PROVE LaneIs(lanes'[k], Waits(k)')
    BY DEF FlightsAre
  <2>1. LaneIs(lanes[k], Waits(k))
    BY DEF FlightsAre
  <2>2. CASE k = Snap \/ (k = Cap /\ tests)
    <3>1. lanes'[k] = Join(lanes[k], d)
      BY <1>7, <2>2
    <3>2. d \notin Waits(k)
      BY <1>10, <2>2, KeysAre DEF Waits
    <3>3. Waits(k)' = Waits(k) \cup {d}
      BY <1>5, <1>6, <2>2, KeysAre DEF Waits
    <3> QED BY <2>1, <3>1, <3>2, <3>3, JoinIs
  <2>3. CASE ~(k = Snap \/ (k = Cap /\ tests))
    <3>1. lanes'[k] = lanes[k]
      BY <1>7, <2>3
    <3>2. Waits(k)' = Waits(k)
      BY <1>1, <1>5, <1>6, <1>10, <2>3, KeysAre DEF Waits
    <3> QED BY <2>1, <3>1, <3>2
  <2> QED BY <2>2, <2>3
<1>12. CaptureIsTrue'
  <2>1. ASSUME NEW e \in Dispatches, ds'[e].capPending, NEW f \in Files \ ds'[e].touched
        PROVE  g.tree[f] = ds'[e].start[f]
    BY <1>5, <1>6, <2>1 DEF CaptureIsTrue, Untouched
  <2>2. LET running == lanes'[Cap].running
        IN running.phase # 0 => running = lanes[Cap].running /\ d \notin running.sharers
    <3>1. LaneIs(lanes[Cap], Waits(Cap)) /\ d \notin Waits(Cap)
      BY <1>10, KeysAre DEF FlightsAre, Waits
    <3>2. NewFlight(d).phase = 0
      BY NewFlightIs
    <3>3. lanes'[Cap].running \in {lanes[Cap].running, NewFlight(d)}
      BY <1>7, <3>1, JoinIs, KeysAre
    <3>4. d \notin lanes[Cap].running.sharers
      BY <3>1 DEF LaneIs
    <3> QED BY <3>2, <3>3, <3>4
  <2>3. ASSUME NEW e \in Dispatches, e # d PROVE ds'[e] = ds[e]
    BY <1>5, <2>3
  <2>4. lanes[Cap].running.sharers \subseteq Dispatches
    BY KeysAre DEF FlightsAre, LaneIs, Waits
  <2> QED BY <1>8, <2>1, <2>2, <2>3, <2>4 DEF CaptureIsTrue, Untouched
<1>13. ReferencesAreTrue'
  <2>1. mats[d].st = "none"
    BY <1>1 DEF DispatchesAre
  <2>2. ASSUME NEW e \in Dispatches, e # d PROVE ds'[e] = ds[e]
    BY <1>5, <2>2
  <2>3. ds'[d] = y
    BY <1>5
  <2>4. ~mats[d].ref.ok
    BY <2>1 DEF ReferencesAreTrue
  <2> QED BY <1>6, <1>8, <1>10, <2>1, <2>2, <2>3, <2>4 DEF ReferencesAreTrue, RefIsTrue, Untouched
<1> QED BY <1>9, <1>11, <1>12, <1>13

\* A flight ends: what was read is right, or nothing was.
LEMMA SettleKeeps ==
  ASSUME ReferenceInv, NEW k \in LaneKeys, NEW s, NEW c, Settle(k, lanes[k].running, s, c),
         UNCHANGED <<g, calls, during, mats>>,
         k = Cap => \A d \in lanes[Cap].running.sharers : c.ok => \A f \in Untouched(d) : At(c, f) = ds[d].start[f]
  PROVE  ReferenceInv'
<1> USE DEF ReferenceInv
<1> DEFINE Out == lanes[k].running.sharers
<1>1. LaneIs(lanes[k], Waits(k)) /\ Out \subseteq Waits(k)
  BY DEF FlightsAre, LaneIs
<1>2. ds' = [d \in Dispatches |->
               IF d \notin Out THEN ds[d]
               ELSE CASE k = Snap -> SnapDone(ds[d], s)
                      [] k = Cap -> CapDone(ds[d], c)
                      [] OTHER -> GateDone(ds[d], s, lanes[k].running.torn)]
  BY DEF Settle
<1>3. lanes' = [j \in LaneKeys |-> IF j = k THEN Advance(lanes[k]) ELSE lanes[j]]
  <2>1. lanes = [j \in LaneKeys |-> lanes[j]]
    BY DEF DispatchesAre
  <2> QED BY <2>1 DEF Settle
<1>4. ASSUME NEW d \in Out, k = Snap PROVE ds'[d] = SnapDone(ds[d], s)
  BY <1>1, <1>2, <1>4, KeysAre DEF Waits
<1>5. ASSUME NEW d \in Out, k = Cap PROVE ds'[d] = CapDone(ds[d], c)
  BY <1>1, <1>2, <1>5, KeysAre DEF Waits
<1>6. ASSUME NEW d \in Out, k # Snap, k # Cap PROVE ds'[d] = GateDone(ds[d], s, lanes[k].running.torn)
  BY <1>1, <1>2, <1>6, KeysAre DEF Waits
<1>7. ASSUME NEW d \in Dispatches \ Out PROVE ds'[d] = ds[d]
  BY <1>2
<1>8. Waits(k) \subseteq Dispatches
  BY DEF Waits
<1>9. ASSUME NEW d \in Dispatches
      PROVE  /\ MayBecome(ds[d], ds'[d])
             /\ k # Snap \/ d \notin Out => ds'[d].snapPending = ds[d].snapPending
             /\ k # Cap \/ d \notin Out => ds'[d].capPending = ds[d].capPending
             /\ k \in {Snap, Cap} \/ d \notin Out => ds'[d].st = ds[d].st /\ ds'[d].gateKey = ds[d].gateKey
  <2>1. DispatchShape(ds[d])
    BY DEF DispatchesAre
  <2>2. CASE d \in Out /\ k = Snap
    <3>1. ds'[d] = SnapDone(ds[d], s)
      BY <1>4, <2>2
    <3>2. /\ DispatchShape(ds'[d]) /\ ~ds'[d].snapPending /\ ds'[d].capPending = ds[d].capPending
          /\ ds'[d].st = ds[d].st /\ ds'[d].ref = ds[d].ref /\ ds'[d].start = ds[d].start
          /\ ds'[d].touched = ds[d].touched /\ ds'[d].gateKey = ds[d].gateKey
      BY <2>1, <3>1, SnapDoneIs
    <3> QED BY <2>2, <3>2, KeysAre DEF MayBecome
  <2>3. CASE d \in Out /\ k = Cap
    <3>1. ds[d].st # "none"
      BY <1>1, <2>3, KeysAre DEF Waits, DispatchesAre
    <3>2. c.ok => \A f \in Untouched(d) : At(c, f) = ds[d].start[f]
      BY <2>3
    <3>3. ds'[d] = CapDone(ds[d], c)
      BY <1>5, <2>3
    <3>4. /\ DispatchShape(ds'[d]) /\ ~ds'[d].capPending /\ ds'[d].snapPending = ds[d].snapPending
          /\ ds'[d].st = ds[d].st /\ ds'[d].ref = c /\ ds'[d].start = ds[d].start
          /\ ds'[d].touched = ds[d].touched /\ ds'[d].gateKey = ds[d].gateKey
      BY <2>1, <3>3, CapDoneIs
    <3> QED BY <2>3, <3>1, <3>2, <3>4, KeysAre DEF MayBecome, Untouched
  <2>4. CASE d \in Out /\ k # Snap /\ k # Cap
    <3>1. ds[d].st = "gate"
      BY <1>1, <2>4 DEF Waits
    <3>2. ds'[d] = GateDone(ds[d], s, lanes[k].running.torn)
      BY <1>6, <2>4
    <3>3. /\ DispatchShape(ds'[d]) /\ ds'[d].snapPending = ds[d].snapPending
          /\ ds'[d].capPending = ds[d].capPending /\ ds'[d].st = "judged" /\ ds'[d].ref = ds[d].ref
          /\ ds'[d].start = ds[d].start /\ ds'[d].touched = ds[d].touched
      BY <2>1, <3>2, GateDoneIs
    <3> QED BY <2>4, <3>1, <3>3, KeysAre DEF MayBecome
  <2>5. CASE d \notin Out
    BY <1>7, <2>1, <2>5 DEF MayBecome
  <2> QED BY <2>2, <2>3, <2>4, <2>5
<1>10. FlightsAre'
  <2> SUFFICES ASSUME NEW j \in LaneKeys PROVE LaneIs(lanes'[j], Waits(j)')
    BY DEF FlightsAre
  <2>1. LaneIs(lanes[j], Waits(j))
    BY DEF FlightsAre
  <2>2. CASE j = k
    <3>1. Waits(k) \ Out \subseteq Waits(k)'
      BY <1>7 DEF Waits
    <3>2. LaneIs(Advance(lanes[k]), Waits(k) \ Out)
      BY <1>1, AdvanceIs
    <3>3. LaneIs(Advance(lanes[k]), Waits(k)')
      BY <3>1, <3>2 DEF LaneIs
    <3> QED BY <1>3, <2>2, <3>3
  <2>3. CASE j # k
    <3>1. ASSUME NEW d \in Waits(j) PROVE d \in Waits(j)'
      <4>1. CASE j = Snap
        BY <1>9, <2>3, <4>1, KeysAre DEF Waits
      <4>2. CASE j = Cap
        BY <1>9, <2>3, <4>2, KeysAre DEF Waits
      <4>3. CASE j # Snap /\ j # Cap
        <5>1. ds[d].st = "gate" /\ ds[d].gateKey = j /\ d \in Dispatches
          BY <4>3 DEF Waits
        <5>2. k \in {Snap, Cap} \/ d \notin Out
          BY <1>1, <2>3, <5>1 DEF Waits
        <5> QED BY <1>9, <4>3, <5>1, <5>2 DEF Waits
      <4> QED BY <4>1, <4>2, <4>3
    <3>2. LaneIs(lanes[j], Waits(j)')
      BY <2>1, <3>1 DEF LaneIs
    <3> QED BY <1>3, <2>3, <3>2
  <2> QED BY <2>2, <2>3
<1>11. CallsAre'
  <2>1. calls' = calls /\ during' = during
    OBVIOUS
  <2> QED BY <1>9, <2>1 DEF CallsAre, MayBecome
<1>12. ReadsNoMore
  <2>1. CASE k = Cap
    BY <1>1, <1>3, <2>1, AdvanceIs DEF ReadsNoMore
  <2>2. CASE k # Cap
    BY <1>3, <2>2, KeysAre DEF ReadsNoMore
  <2> QED BY <2>1, <2>2
<1>13. ds' = [d \in Dispatches |-> ds'[d]]
  BY <1>2
<1>14. lanes' = [j \in LaneKeys |-> lanes'[j]]
  BY <1>3
<1> QED BY <1>9, <1>10, <1>11, <1>12, <1>13, <1>14, QuietKeeps

\* What the three reads of a reference give, from one state of the repository.
LEMMA CaptureReads ==
  ASSUME NEW r, RefShape(r), NEW head
  PROVE  /\ RefShape(captureStash(g))
         /\ \A f \in Files : captureStash(g).commit[f] = IF g.head[f] = "none" THEN "none" ELSE g.tree[f]
         /\ RefShape(captureTracked(r, head, g)) /\ captureTracked(r, head, g).commit = r.commit
         /\ RefShape(captureUntracked(r, g))
         /\ captureUntracked(r, g).ok => \A f \in Files :
              r.commit[f] = (IF g.head[f] = "none" THEN "none" ELSE g.tree[f]) => At(captureUntracked(r, g), f) = g.tree[f]
<1>1. PICK none : none = Nowhere
  OBVIOUS
<1>2. NoReference = [ok |-> FALSE, commit |-> none, tracked |-> <<>>, untracked |-> <<>>]
  BY <1>1 DEF NoReference
<1>3. PICK commit : commit = [f \in Files |-> IF g.head[f] = "none" THEN "none" ELSE g.tree[f]]
  OBVIOUS
<1>4. captureStash(g) = [ok |-> FALSE, commit |-> commit, tracked |-> <<>>, untracked |-> <<>>]
  <2>1. captureStash(g) = [NoReference EXCEPT !.commit = commit]
    BY <1>3 DEF captureStash
  <2> QED BY <1>2, <2>1
<1>5. PICK tracked : tracked = [f \in {x \in Files : r.commit[x] # head[x] /\ g.tree[x] # "none"} |-> g.tree[f]]
  OBVIOUS
<1>6. captureTracked(r, head, g) = [ok |-> r.ok, commit |-> r.commit, tracked |-> tracked, untracked |-> r.untracked]
  BY <1>5 DEF captureTracked, RefShape
<1>7. PICK untracked : untracked = [f \in Untracked(g) |-> g.tree[f]]
  OBVIOUS
<1>9. PICK y : y = [r EXCEPT !.ok = TRUE, !.untracked = untracked]
  OBVIOUS
<1>10. y = [ok |-> TRUE, commit |-> r.commit, tracked |-> r.tracked, untracked |-> untracked]
  BY <1>9 DEF RefShape
<1>11. captureUntracked(r, g) \in {NoReference, y}
  BY <1>7, <1>9 DEF captureUntracked
<1>12. RefShape(NoReference) /\ ~NoReference.ok /\ RefShape(y)
  BY <1>2, <1>10 DEF RefShape
<1>13. ASSUME NEW f \in Files, r.commit[f] = IF g.head[f] = "none" THEN "none" ELSE g.tree[f]
       PROVE  At(y, f) = g.tree[f]
  <2>1. f \in DOMAIN untracked <=> g.head[f] = "none" /\ g.tree[f] # "none"
    BY <1>7 DEF Untracked
  <2>2. f \in DOMAIN untracked => untracked[f] = g.tree[f]
    BY <1>7
  <2>3. y.untracked = untracked /\ y.commit = r.commit
    BY <1>10
  <2> QED BY <1>13, <2>1, <2>2, <2>3 DEF At
<1>14. RefShape(captureStash(g)) /\ RefShape(captureTracked(r, head, g))
  BY <1>4, <1>6 DEF RefShape
<1> QED BY <1>3, <1>4, <1>6, <1>11, <1>12, <1>13, <1>14

LEMMA ReadStepKeeps ==
  ASSUME ReferenceInv, NEW k \in LaneKeys, NEW fl, lanes' = [lanes EXCEPT ![k].running = fl],
         UNCHANGED <<g, calls, during, ds, mats>>, FlightShape(fl), fl.sharers = lanes[k].running.sharers,
         k = Cap => RefShape(fl.ref) /\ \A d \in fl.sharers : \A f \in Untouched(d) :
                      fl.ref.commit[f] = IF g.head[f] = "none" THEN "none" ELSE g.tree[f]
  PROVE  ReferenceInv'
<1> USE DEF ReferenceInv
<1>1. LaneIs(lanes[k], Waits(k))
  BY DEF FlightsAre
<1>2. lanes' = [j \in LaneKeys |-> IF j = k THEN [running |-> fl, next |-> lanes[k].next] ELSE lanes[j]]
  <2>1. lanes = [j \in LaneKeys |-> lanes[j]]
    BY DEF DispatchesAre
  <2>2. PICK lane : lane = [running |-> fl, next |-> lanes[k].next]
    OBVIOUS
  <2>3. [lanes[k] EXCEPT !.running = fl] = lane
    BY <1>1, <2>2 DEF LaneIs
  <2> QED BY <2>1, <2>2, <2>3
<1>3. lanes' = [j \in LaneKeys |-> lanes'[j]]
  BY <1>2
<1>4. DispatchesAre' /\ CallsAre' /\ ReferencesAreTrue'
  BY <1>3 DEF DispatchesAre, CallsAre, ReferencesAreTrue, RefIsTrue, Untouched, DispatchShape, MatShape
<1>5. FlightsAre'
  <2> SUFFICES ASSUME NEW j \in LaneKeys PROVE LaneIs(lanes'[j], Waits(j))
    BY DEF FlightsAre, Waits
  <2>1. LaneIs(lanes[j], Waits(j))
    BY DEF FlightsAre
  <2> QED BY <1>1, <1>2, <2>1 DEF LaneIs
<1>6. CaptureIsTrue'
  <2>1. CASE k = Cap
    <3>1. lanes'[Cap].running = fl
      BY <1>2, <2>1
    <3> QED BY <2>1, <3>1 DEF CaptureIsTrue, Untouched
  <2>2. CASE k # Cap
    <3>1. lanes'[Cap] = lanes[Cap]
      BY <1>2, <2>2, KeysAre
    <3> QED BY <3>1 DEF CaptureIsTrue, Untouched
  <2> QED BY <2>1, <2>2
<1> QED BY <1>4, <1>5, <1>6

LEMMA ReadKeeps ==
  ASSUME ReferenceInv, NEW k \in LaneKeys, Read(k) \/ ReadFails(k)
  PROVE  ReferenceInv'
<1> USE DEF ReferenceInv
<1>1. FlightShape(lanes[k].running) /\ lanes[k].running.sharers \subseteq Waits(k) /\ UNCHANGED <<g, calls, during, mats>>
  BY DEF FlightsAre, LaneIs, Read, ReadFails
<1>2. PICK fl : fl = lanes[k].running
  OBVIOUS
<1>3. CASE ReadFails(k)
  <2>1. ~NoReference.ok
    BY DEF NoReference
  <2>2. Settle(k, lanes[k].running, NoSnapshot, NoReference)
    BY <1>3 DEF ReadFails
  <2> QED BY <1>1, <2>1, <2>2, SettleKeeps
<1>4. CASE Read(k) /\ k = Cap /\ fl.phase = 0
  <2>1. PICK ref : ref = captureStash(g)
    OBVIOUS
  <2>2. PICK snap : snap = snapshotHead(g)
    OBVIOUS
  <2>3. lanes' = [lanes EXCEPT ![k].running = [fl EXCEPT !.phase = 1, !.ref = ref, !.snap = snap]] /\ UNCHANGED ds
    BY <1>2, <1>4, <2>1, <2>2 DEF Read
  <2>4. PICK y : y = [fl EXCEPT !.phase = 1, !.ref = ref, !.snap = snap]
    OBVIOUS
  <2>5. y = [on |-> fl.on, phase |-> 1, snap |-> snap, ref |-> ref, torn |-> fl.torn, sharers |-> fl.sharers]
    BY <1>1, <1>2, <2>4 DEF FlightShape
  <2>6. FlightShape(y) /\ y.sharers = fl.sharers /\ y.ref = ref
    BY <1>1, <1>2, <2>5 DEF FlightShape
  <2>7. RefShape(ref) /\ \A f \in Files : ref.commit[f] = IF g.head[f] = "none" THEN "none" ELSE g.tree[f]
    <3>1. RefShape([ok |-> FALSE, commit |-> 0, tracked |-> 0, untracked |-> 0])
      BY DEF RefShape
    <3> QED BY <2>1, <3>1, CaptureReads
  <2> QED BY <1>1, <1>2, <2>3, <2>4, <2>6, <2>7, ReadStepKeeps DEF Untouched
<1>5. CASE Read(k) /\ k = Cap /\ fl.phase = 1
  <2>1. PICK ref : ref = captureTracked(fl.ref, fl.snap.head, g)
    OBVIOUS
  <2>2. lanes' = [lanes EXCEPT ![k].running = [fl EXCEPT !.phase = 2, !.ref = ref]] /\ UNCHANGED ds
    BY <1>2, <1>5, <2>1 DEF Read
  <2>3. PICK y : y = [fl EXCEPT !.phase = 2, !.ref = ref]
    OBVIOUS
  <2>4. y = [on |-> fl.on, phase |-> 2, snap |-> fl.snap, ref |-> ref, torn |-> fl.torn, sharers |-> fl.sharers]
    BY <1>1, <1>2, <2>3 DEF FlightShape
  <2>5. FlightShape(y) /\ y.sharers = fl.sharers /\ y.ref = ref
    BY <1>1, <1>2, <2>4 DEF FlightShape
  <2>6. RefShape(fl.ref) /\ \A d \in fl.sharers : \A f \in Untouched(d) :
                      fl.ref.commit[f] = IF g.head[f] = "none" THEN "none" ELSE g.tree[f]
    BY <1>2, <1>5 DEF CaptureIsTrue
  <2>7. RefShape(ref) /\ ref.commit = fl.ref.commit
    BY <2>1, <2>6, CaptureReads
  <2>8. lanes' = [lanes EXCEPT ![k].running = y]
    BY <2>2, <2>3
  <2>9. RefShape(y.ref) /\ \A d \in y.sharers : \A f \in Untouched(d) :
                      y.ref.commit[f] = IF g.head[f] = "none" THEN "none" ELSE g.tree[f]
    BY <2>5, <2>6, <2>7
  <2>10. y.sharers = lanes[k].running.sharers /\ UNCHANGED ds
    BY <1>2, <2>2, <2>5
  <2> QED BY <1>1, <2>5, <2>8, <2>9, <2>10, ReadStepKeeps
<1>6. CASE Read(k) /\ k = Cap /\ fl.phase = 2
  <2>1. Settle(k, lanes[k].running, NoSnapshot, captureUntracked(fl.ref, g))
    BY <1>2, <1>6 DEF Read
  <2>2. RefShape(fl.ref) /\ \A d \in fl.sharers : \A f \in Untouched(d) :
                      fl.ref.commit[f] = IF g.head[f] = "none" THEN "none" ELSE g.tree[f]
    BY <1>2, <1>6 DEF CaptureIsTrue
  <2>3. ASSUME NEW d \in fl.sharers, captureUntracked(fl.ref, g).ok, NEW f \in Untouched(d)
        PROVE  At(captureUntracked(fl.ref, g), f) = ds[d].start[f]
    <3>1. f \in Files /\ At(captureUntracked(fl.ref, g), f) = g.tree[f]
      BY <2>2, <2>3, CaptureReads DEF Untouched
    <3>2. ds[d].capPending /\ d \in Dispatches
      BY <1>1, <1>2, <1>6, <2>3, KeysAre DEF Waits
    <3> QED BY <3>1, <3>2 DEF CaptureIsTrue
  <2> QED BY <1>1, <1>2, <1>6, <2>1, <2>3, SettleKeeps
<1>7. CASE Read(k) /\ k # Cap /\ fl.phase = 0
  <2>1. PICK snap : snap = snapshotHead(g)
    OBVIOUS
  <2>2. lanes' = [lanes EXCEPT ![k].running = [fl EXCEPT !.phase = 1, !.snap = snap]] /\ UNCHANGED ds
    BY <1>2, <1>7, <2>1 DEF Read
  <2>3. PICK y : y = [fl EXCEPT !.phase = 1, !.snap = snap]
    OBVIOUS
  <2>4. y = [on |-> fl.on, phase |-> 1, snap |-> snap, ref |-> fl.ref, torn |-> fl.torn, sharers |-> fl.sharers]
    BY <1>1, <1>2, <2>3 DEF FlightShape
  <2>5. FlightShape(y) /\ y.sharers = fl.sharers
    BY <1>1, <1>2, <2>4 DEF FlightShape
  <2> QED BY <1>1, <1>2, <1>7, <2>2, <2>3, <2>5, ReadStepKeeps
<1>8. CASE Read(k) /\ k # Cap /\ fl.phase = 1
  <2>1. PICK snap : snap = snapshotStatus(fl.snap, g)
    OBVIOUS
  <2>2. PICK torn : torn = (fl.torn \/ fl.snap.head # g.head)
    OBVIOUS
  <2>3. PICK y : y = [fl EXCEPT !.phase = 2, !.snap = snapshotStatus(@, g), !.torn = @ \/ fl.snap.head # g.head]
    OBVIOUS
  <2>4. lanes' = [lanes EXCEPT ![k].running = y] /\ UNCHANGED ds
    BY <1>2, <1>8, <2>3 DEF Read
  <2>5. y = [on |-> fl.on, phase |-> 2, snap |-> snap, ref |-> fl.ref, torn |-> torn, sharers |-> fl.sharers]
    BY <1>1, <1>2, <2>1, <2>2, <2>3 DEF FlightShape
  <2>6. FlightShape(y) /\ y.sharers = fl.sharers
    BY <1>1, <1>2, <2>5 DEF FlightShape
  <2> QED BY <1>1, <1>2, <1>8, <2>4, <2>6, ReadStepKeeps
<1>9. CASE Read(k) /\ k # Cap /\ fl.phase = 2
  <2>1. \E s : Settle(k, lanes[k].running, s, NoReference)
    BY <1>2, <1>9 DEF Read
  <2> QED BY <1>1, <1>9, <2>1, SettleKeeps
<1>10. fl.phase \in {0, 1, 2}
  BY <1>1, <1>2 DEF FlightShape
<1> QED BY <1>3, <1>4, <1>5, <1>6, <1>7, <1>8, <1>9, <1>10

\* A dispatch leaves a flight; a tool call contaminates them all; the store forgets one.
LEMMA TimesOutKeeps ==
  ASSUME ReferenceInv, NEW d \in Dispatches, NEW k \in LaneKeys, CaptureTimesOut(d, k)
  PROVE  ReferenceInv'
<1> USE DEF ReferenceInv
<1>1. UNCHANGED <<g, calls, during, mats>>
  BY DEF CaptureTimesOut
<1>2. PICK y : ds' = [ds EXCEPT ![d] = y] /\ MayBecome(ds[d], y)
               /\ (k # Snap => y.snapPending = ds[d].snapPending)
               /\ (k # Cap => y.capPending = ds[d].capPending)
               /\ ((y.st = ds[d].st /\ y.gateKey = ds[d].gateKey) \/ (ds[d].st = "gate" /\ k = ds[d].gateKey))
  <2>1. DispatchShape(ds[d])
    BY DEF DispatchesAre
  <2>2. CASE k = Snap /\ ds[d].snapPending /\ ds' = [ds EXCEPT ![d] = SnapDone(@, NoSnapshot)]
    <3>1. PICK y : y = SnapDone(ds[d], NoSnapshot)
      OBVIOUS
    <3>2. /\ DispatchShape(y) /\ ~y.snapPending /\ y.capPending = ds[d].capPending /\ y.st = ds[d].st
          /\ y.ref = ds[d].ref /\ y.start = ds[d].start /\ y.touched = ds[d].touched /\ y.gateKey = ds[d].gateKey
      BY <2>1, <3>1, SnapDoneIs
    <3>3. MayBecome(ds[d], y)
      BY <3>2 DEF MayBecome
    <3>4. ds' = [ds EXCEPT ![d] = y]
      BY <2>2, <3>1
    <3> QED BY <2>2, <3>2, <3>3, <3>4, KeysAre
  <2>3. CASE k = Cap /\ ds[d].capPending /\ ds' = [ds EXCEPT ![d] = CapDone(@, NoReference)]
    <3>1. PICK y : y = CapDone(ds[d], NoReference)
      OBVIOUS
    <3>2. /\ DispatchShape(y) /\ ~y.capPending /\ y.snapPending = ds[d].snapPending /\ y.st = ds[d].st
          /\ y.ref = NoReference /\ y.start = ds[d].start /\ y.touched = ds[d].touched /\ y.gateKey = ds[d].gateKey
      BY <2>1, <3>1, CapDoneIs
    <3>3. ~NoReference.ok /\ ds[d].st # "none"
      BY <2>3 DEF NoReference, DispatchesAre
    <3>4. MayBecome(ds[d], y)
      BY <3>2, <3>3 DEF MayBecome
    <3>5. ds' = [ds EXCEPT ![d] = y]
      BY <2>3, <3>1
    <3> QED BY <2>3, <3>2, <3>4, <3>5, KeysAre
  <2>4. CASE ds[d].st = "gate" /\ k = ds[d].gateKey /\ ds' = [ds EXCEPT ![d] = GateDone(@, NoSnapshot, FALSE)]
    <3>a. PICK torn : torn = FALSE
      OBVIOUS
    <3>b. PICK y : y = GateDone(ds[d], NoSnapshot, torn)
      OBVIOUS
    <3>1. y = GateDone(ds[d], NoSnapshot, FALSE)
      BY <3>a, <3>b
    <3>2. /\ DispatchShape(y) /\ y.snapPending = ds[d].snapPending /\ y.capPending = ds[d].capPending
          /\ y.st = "judged" /\ y.ref = ds[d].ref /\ y.start = ds[d].start /\ y.touched = ds[d].touched
      BY <2>1, <3>b, GateDoneIs
    <3>3. MayBecome(ds[d], y)
      BY <2>4, <3>2 DEF MayBecome
    <3>4. ds' = [ds EXCEPT ![d] = y]
      BY <2>4, <3>1
    <3> QED BY <2>4, <3>2, <3>3, <3>4
  <2> QED BY <2>2, <2>3, <2>4 DEF CaptureTimesOut
<1>3. ds' = [e \in Dispatches |-> IF e = d THEN y ELSE ds[e]]
  <2>1. ds = [e \in Dispatches |-> ds[e]]
    BY DEF DispatchesAre
  <2> QED BY <1>2, <2>1
<1>4. lanes' = [j \in LaneKeys |-> IF j = k THEN LeaveFlight(lanes[k], d) ELSE lanes[j]]
  <2>1. lanes = [j \in LaneKeys |-> lanes[j]]
    BY DEF DispatchesAre
  <2> QED BY <2>1 DEF CaptureTimesOut
<1>5. \A e \in Dispatches : MayBecome(ds[e], ds'[e])
  <2>1. ASSUME NEW e \in Dispatches PROVE MayBecome(ds[e], ds[e])
    BY DEF MayBecome, DispatchesAre
  <2> QED BY <1>2, <1>3, <2>1
<1>6. FlightsAre'
  <2> SUFFICES ASSUME NEW j \in LaneKeys PROVE LaneIs(lanes'[j], Waits(j)')
    BY DEF FlightsAre
  <2>1. LaneIs(lanes[j], Waits(j))
    BY DEF FlightsAre
  <2>2. CASE j = k
    <3>1. Waits(k) \ {d} \subseteq Waits(k)'
      BY <1>3 DEF Waits
    <3>2. LaneIs(LeaveFlight(lanes[k], d), Waits(k) \ {d})
      BY <2>1, <2>2, LeaveIs
    <3>3. LaneIs(LeaveFlight(lanes[k], d), Waits(k)')
      BY <3>1, <3>2 DEF LaneIs
    <3> QED BY <1>4, <2>2, <3>3
  <2>3. CASE j # k
    <3>1. Waits(j) \subseteq Waits(j)'
      <4>1. CASE j = Snap
        BY <1>2, <1>3, <2>3, <4>1, KeysAre DEF Waits
      <4>2. CASE j = Cap
        BY <1>2, <1>3, <2>3, <4>2, KeysAre DEF Waits
      <4>3. CASE j # Snap /\ j # Cap
        BY <1>2, <1>3, <2>3, <4>3, KeysAre DEF Waits
      <4> QED BY <4>1, <4>2, <4>3
    <3>2. LaneIs(lanes[j], Waits(j)')
      BY <2>1, <3>1 DEF LaneIs
    <3> QED BY <1>4, <2>3, <3>2
  <2> QED BY <2>2, <2>3
<1>7. CallsAre'
  <2>1. calls' = calls /\ during' = during
    BY <1>1
  <2> QED BY <1>5, <2>1 DEF CallsAre, MayBecome
<1>8. ReadsNoMore
  <2>1. CASE k = Cap
    <3>1. LaneIs(lanes[Cap], Waits(Cap))
      BY KeysAre DEF FlightsAre
    <3>2. lanes'[Cap] = LeaveFlight(lanes[Cap], d)
      BY <1>4, <2>1
    <3>3. PICK left : left = LeaveFlight(lanes[Cap], d)
      OBVIOUS
    <3>4. \/ left.running.phase = 0
          \/ /\ left.running.phase = lanes[Cap].running.phase
             /\ left.running.ref = lanes[Cap].running.ref
             /\ left.running.sharers \subseteq lanes[Cap].running.sharers
      BY <3>1, <3>3, LeaveIs
    <3> QED BY <3>2, <3>3, <3>4 DEF ReadsNoMore
  <2>2. CASE k # Cap
    BY <1>4, <2>2, KeysAre DEF ReadsNoMore
  <2> QED BY <2>1, <2>2
<1>9. ds' = [e \in Dispatches |-> ds'[e]]
  BY <1>3
<1>10. lanes' = [j \in LaneKeys |-> lanes'[j]]
  BY <1>4
<1> QED BY <1>1, <1>5, <1>6, <1>7, <1>8, <1>9, <1>10, QuietKeeps

\* Every dispatch's record is contaminated, and its pending capture is over.
AfterEdit(r, q) == q = Contaminated(r) \/ \E seen : q = [Contaminated(r) EXCEPT !.observed = @ \cup seen]

LEMMA AfterEditIs ==
  ASSUME NEW r, DispatchShape(r), NEW q, AfterEdit(r, q)
  PROVE  /\ DispatchShape(q) /\ ~q.capPending /\ q.snapPending = r.snapPending /\ q.st = r.st
         /\ q.ref = r.ref /\ q.start = r.start /\ q.touched = r.touched /\ q.gateKey = r.gateKey
<1>1. CASE q = Contaminated(r)
  <2>1. PICK seen : seen = {}
    OBVIOUS
  <2> QED BY <1>1, ContaminatedIs
<1>2. CASE \E seen : q = [Contaminated(r) EXCEPT !.observed = @ \cup seen]
  <2>1. PICK seen : q = [Contaminated(r) EXCEPT !.observed = @ \cup seen]
    BY <1>2
  <2> QED BY <2>1, ContaminatedIs
<1> QED BY <1>1, <1>2 DEF AfterEdit

LEMMA CallKeeps ==
  ASSUME ReferenceInv, UNCHANGED <<g, mats>>, CallsAre',
         lanes' = [lanes EXCEPT ![Cap] = LeaveAll(@)], ds' = [d \in Dispatches |-> ds'[d]],
         \A d \in Dispatches : AfterEdit(ds[d], ds'[d])
  PROVE  ReferenceInv'
<1> USE DEF ReferenceInv
<1>1. ASSUME NEW d \in Dispatches
      PROVE  /\ MayBecome(ds[d], ds'[d]) /\ ds'[d].snapPending = ds[d].snapPending
             /\ ds'[d].st = ds[d].st /\ ds'[d].gateKey = ds[d].gateKey
  <2>1. DispatchShape(ds[d])
    BY DEF DispatchesAre
  <2>2. /\ DispatchShape(ds'[d]) /\ ~ds'[d].capPending /\ ds'[d].snapPending = ds[d].snapPending
        /\ ds'[d].st = ds[d].st /\ ds'[d].ref = ds[d].ref /\ ds'[d].start = ds[d].start
        /\ ds'[d].touched = ds[d].touched /\ ds'[d].gateKey = ds[d].gateKey
    BY <2>1, AfterEditIs
  <2> QED BY <2>2 DEF MayBecome
<1>2. lanes' = [j \in LaneKeys |-> IF j = Cap THEN LeaveAll(lanes[Cap]) ELSE lanes[j]]
  <2>1. lanes = [j \in LaneKeys |-> lanes[j]]
    BY DEF DispatchesAre
  <2> QED BY <2>1
<1>3. LaneIs(LeaveAll(lanes[Cap]), {}) /\ LeaveAll(lanes[Cap]).running.phase = 0
  BY LeaveAllIs, KeysAre DEF FlightsAre
<1>4. FlightsAre'
  <2> SUFFICES ASSUME NEW j \in LaneKeys PROVE LaneIs(lanes'[j], Waits(j)')
    BY DEF FlightsAre
  <2>1. CASE j = Cap
    BY <1>2, <1>3, <2>1 DEF LaneIs
  <2>2. CASE j # Cap
    <3>1. Waits(j)' = Waits(j)
      BY <1>1, <2>2 DEF Waits
    <3> QED BY <1>2, <2>2, <3>1 DEF FlightsAre
  <2> QED BY <2>1, <2>2
<1>5. ReadsNoMore
  BY <1>2, <1>3, KeysAre DEF ReadsNoMore
<1>6. lanes' = [j \in LaneKeys |-> lanes'[j]]
  BY <1>2
<1> QED BY <1>1, <1>4, <1>5, <1>6, QuietKeeps

LEMMA ToolCallKeeps ==
  ASSUME ReferenceInv, NEW s \in Sessions, BeforeCall(s) \/ AfterCall(s)
  PROVE  ReferenceInv'
<1> USE DEF ReferenceInv
<1>1. CallShape(calls[s]) /\ calls = [x \in Sessions |-> calls[x]]
  BY DEF CallsAre
<1>2. UNCHANGED <<g, mats>> /\ lanes' = [lanes EXCEPT ![Cap] = LeaveAll(@)]
  BY DEF BeforeCall, AfterCall, observeEdit
<1>3. ds' = [d \in Dispatches |-> ds'[d]] /\ \A d \in Dispatches : AfterEdit(ds[d], ds'[d])
  <2>1. CASE BeforeCall(s)
    BY <2>1 DEF BeforeCall, observeEdit, AfterEdit
  <2>2. CASE AfterCall(s)
    <3>1. PICK F : F = [d \in Dispatches |->
            IF d = s THEN IF calls[s].file = "none" THEN {} ELSE {calls[s].file} ELSE {}]
      OBVIOUS
    <3>2. ds' = [d \in Dispatches |-> [Contaminated(ds[d]) EXCEPT !.observed = @ \cup F[d]]]
      BY <2>2, <3>1 DEF AfterCall
    <3> QED BY <3>2 DEF AfterEdit
  <2> QED BY <2>1, <2>2
<1>4. ASSUME NEW d \in Dispatches PROVE ~ds'[d].capPending /\ ds'[d].st = ds[d].st
  <2>1. DispatchShape(ds[d])
    BY DEF DispatchesAre
  <2> QED BY <1>3, <2>1, AfterEditIs
<1>5. CallsAre'
  <2>1. PICK c : /\ calls' = [calls EXCEPT ![s] = c] /\ CallShape(c)
                 /\ c.kind = "idle" \/ (s \in Dispatches => ds[s].st # "none")
    <3>1. CASE BeforeCall(s)
      <4>1. PICK kind \in {"edit", "bash"} : calls' = [calls EXCEPT ![s].kind = kind]
        BY <3>1 DEF BeforeCall
      <4>2. PICK c : c = [calls[s] EXCEPT !.kind = kind]
        OBVIOUS
      <4>3. c = [kind |-> kind, file |-> calls[s].file, left |-> calls[s].left]
        BY <1>1, <4>2 DEF CallShape
      <4>4. CallShape(c)
        BY <4>3 DEF CallShape
      <4>5. s \in Dispatches => ds[s].st # "none"
        BY <3>1, DispatchesAssumption DEF BeforeCall, MayCall
      <4>6. calls' = [calls EXCEPT ![s] = c]
        BY <4>1, <4>2
      <4> QED BY <4>4, <4>5, <4>6
    <3>2. CASE AfterCall(s)
      <4>1. PICK c : c = [calls[s] EXCEPT !.kind = "idle", !.file = "none"]
        OBVIOUS
      <4>2. c = [kind |-> "idle", file |-> "none", left |-> calls[s].left]
        BY <1>1, <4>1 DEF CallShape
      <4>3. CallShape(c) /\ c.kind = "idle"
        BY <4>2 DEF CallShape
      <4>4. calls' = [calls EXCEPT ![s] = c]
        BY <1>1, <3>2, <4>1 DEF AfterCall
      <4> QED BY <4>3, <4>4
    <3> QED BY <3>1, <3>2
  <2>2. calls' = [x \in Sessions |-> IF x = s THEN c ELSE calls[x]]
    BY <1>1, <2>1
  <2> QED BY <1>4, <2>1, <2>2 DEF CallsAre, Sessions
<1> QED BY <1>2, <1>3, <1>5, CallKeeps

\* The store forgets a dispatch.
LEMMA EvictKeeps ==
  ASSUME ReferenceInv, NEW d \in Dispatches, Evict(d)
  PROVE  ReferenceInv'
<1> USE DEF ReferenceInv
<1>1. UNCHANGED <<g, calls, during, mats>> /\ DispatchShape(ds[d]) /\ ds[d].st # "none"
  BY DEF Evict, Open, DispatchesAre
<1>2. PICK snap : snap = NoSnapshot
  OBVIOUS
<1>3. PICK ref : ref = NoReference
  OBVIOUS
<1>4. ~ref.ok
  BY <1>3 DEF NoReference
<1>5. PICK y : y = [ds[d] EXCEPT !.snapBad = TRUE, !.capPending = FALSE, !.snap = snap, !.ref = ref]
  OBVIOUS
<1>6. y = [st |-> ds[d].st, tests |-> ds[d].tests, snapPending |-> ds[d].snapPending, snapBad |-> TRUE,
           capPending |-> FALSE, capBad |-> ds[d].capBad, snap |-> snap, ref |-> ref,
           observed |-> ds[d].observed, start |-> ds[d].start, touched |-> ds[d].touched, due |-> ds[d].due,
           asked |-> ds[d].asked, gateKey |-> ds[d].gateKey, now |-> ds[d].now, torn |-> ds[d].torn,
           result |-> ds[d].result]
  BY <1>1, <1>5 DEF DispatchShape
<1>7. /\ DispatchShape(y) /\ y.st = ds[d].st /\ y.gateKey = ds[d].gateKey /\ ~y.capPending
      /\ y.snapPending = ds[d].snapPending
  BY <1>1, <1>6 DEF DispatchShape
<1>8. MayBecome(ds[d], y)
  BY <1>1, <1>4, <1>6, <1>7 DEF MayBecome
<1>9. ds' = [e \in Dispatches |-> IF e = d THEN y ELSE ds[e]]
  <2>1. ds = [e \in Dispatches |-> ds[e]]
    BY DEF DispatchesAre
  <2>2. ds' = [ds EXCEPT ![d] = y]
    BY <1>2, <1>3, <1>5 DEF Evict
  <2> QED BY <2>1, <2>2
<1>10. PICK lane : lane = IF ds[d].capPending THEN LeaveFlight(lanes[Cap], d) ELSE lanes[Cap]
  OBVIOUS
<1>11. lanes' = [j \in LaneKeys |-> IF j = Cap THEN lane ELSE lanes[j]]
  <2>1. lanes = [j \in LaneKeys |-> lanes[j]]
    BY DEF DispatchesAre
  <2> QED BY <1>10, <2>1 DEF Evict
<1>12. LaneIs(lanes[Cap], Waits(Cap)) /\ (d \in Waits(Cap) <=> ds[d].capPending)
  BY KeysAre DEF FlightsAre, Waits
<1>13. /\ LaneIs(lane, Waits(Cap) \ {d})
       /\ \/ lane.running.phase = 0
          \/ /\ lane.running.phase = lanes[Cap].running.phase
             /\ lane.running.ref = lanes[Cap].running.ref
             /\ lane.running.sharers \subseteq lanes[Cap].running.sharers
  <2>1. CASE ds[d].capPending
    BY <1>10, <1>12, <2>1, LeaveIs
  <2>2. CASE ~ds[d].capPending
    BY <1>10, <1>12, <2>2 DEF LaneIs
  <2> QED BY <2>1, <2>2
<1>14. \A e \in Dispatches : MayBecome(ds[e], ds'[e])
  <2>1. ASSUME NEW e \in Dispatches PROVE MayBecome(ds[e], ds[e])
    BY DEF MayBecome, DispatchesAre
  <2> QED BY <1>8, <1>9, <2>1
<1>15. FlightsAre'
  <2> SUFFICES ASSUME NEW j \in LaneKeys PROVE LaneIs(lanes'[j], Waits(j)')
    BY DEF FlightsAre
  <2>1. CASE j = Cap
    <3>1. Waits(Cap) \ {d} \subseteq Waits(Cap)'
      BY <1>9 DEF Waits
    <3>2. LaneIs(lane, Waits(Cap)')
      BY <1>13, <3>1 DEF LaneIs
    <3> QED BY <1>11, <2>1, <3>2
  <2>2. CASE j # Cap
    <3>1. Waits(j)' = Waits(j)
      BY <1>7, <1>9, <2>2 DEF Waits
    <3> QED BY <1>11, <2>2, <3>1 DEF FlightsAre
  <2> QED BY <2>1, <2>2
<1>16. CallsAre'
  <2>1. calls' = calls /\ during' = during
    BY <1>1
  <2> QED BY <1>14, <2>1 DEF CallsAre, MayBecome
<1>17. ReadsNoMore
  BY <1>11, <1>13, KeysAre DEF ReadsNoMore
<1>18. ds' = [e \in Dispatches |-> ds'[e]]
  BY <1>9
<1>19. lanes' = [j \in LaneKeys |-> lanes'[j]]
  BY <1>11
<1> QED BY <1>1, <1>14, <1>15, <1>16, <1>17, <1>18, <1>19, QuietKeeps

\* The gate asks.
LEMMA AskKeeps ==
  ASSUME ReferenceInv, NEW d \in Dispatches, Ask(d)
  PROVE  ReferenceInv'
<1> USE DEF ReferenceInv
<1>1. UNCHANGED <<g, calls, during, mats>> /\ DispatchShape(ds[d]) /\ ds[d].st = "working"
  BY DEF Ask, DispatchesAre
<1>2. PICK key : key = GateKey(d)
  OBVIOUS
<1>3. key # Snap /\ key # Cap
  BY <1>2, KeysAre DEF GateKey
<1>4. PICK due : due = {f \in Files : writer[f] = d /\ g.tree[f] # ds[d].start[f]}
  OBVIOUS
<1>5. PICK y : y = [ds[d] EXCEPT !.st = "gate", !.gateKey = key, !.asked = TRUE, !.due = due]
  OBVIOUS
<1>6. y = [st |-> "gate", tests |-> ds[d].tests, snapPending |-> ds[d].snapPending, snapBad |-> ds[d].snapBad,
           capPending |-> ds[d].capPending, capBad |-> ds[d].capBad, snap |-> ds[d].snap, ref |-> ds[d].ref,
           observed |-> ds[d].observed, start |-> ds[d].start, touched |-> ds[d].touched, due |-> due,
           asked |-> TRUE, gateKey |-> key, now |-> ds[d].now, torn |-> ds[d].torn,
           result |-> ds[d].result]
  BY <1>1, <1>5 DEF DispatchShape
<1>7. /\ DispatchShape(y) /\ y.st = "gate" /\ y.gateKey = key /\ y.capPending = ds[d].capPending
      /\ y.snapPending = ds[d].snapPending
  BY <1>1, <1>6 DEF DispatchShape
<1>8. MayBecome(ds[d], y)
  BY <1>1, <1>6, <1>7 DEF MayBecome
<1>9. ds' = [e \in Dispatches |-> IF e = d THEN y ELSE ds[e]]
  <2>1. ds = [e \in Dispatches |-> ds[e]]
    BY DEF DispatchesAre
  <2>2. ds' = [ds EXCEPT ![d] = y]
    BY <1>2, <1>4, <1>5 DEF Ask
  <2> QED BY <2>1, <2>2
<1>10. lanes' = [j \in LaneKeys |-> IF j = key THEN Join(lanes[key], d) ELSE lanes[j]]
  <2>1. lanes = [j \in LaneKeys |-> lanes[j]]
    BY DEF DispatchesAre
  <2>2. lanes' = [lanes EXCEPT ![key] = Join(lanes[key], d)]
    BY <1>2 DEF Ask
  <2> QED BY <2>1, <2>2
<1>11. \A e \in Dispatches : MayBecome(ds[e], ds'[e])
  <2>1. ASSUME NEW e \in Dispatches PROVE MayBecome(ds[e], ds[e])
    BY DEF MayBecome, DispatchesAre
  <2> QED BY <1>8, <1>9, <2>1
<1>12. FlightsAre'
  <2> SUFFICES ASSUME NEW j \in LaneKeys PROVE LaneIs(lanes'[j], Waits(j)')
    BY DEF FlightsAre
  <2>1. LaneIs(lanes[j], Waits(j))
    BY DEF FlightsAre
  <2>2. CASE j = key
    <3>1. d \notin Waits(key)
      BY <1>1, <1>3 DEF Waits
    <3>2. Waits(key)' = Waits(key) \cup {d}
      BY <1>3, <1>7, <1>9 DEF Waits
    <3>3. LaneIs(Join(lanes[key], d), Waits(key) \cup {d})
      BY <2>1, <2>2, <3>1, JoinIs
    <3> QED BY <1>10, <2>2, <3>2, <3>3
  <2>3. CASE j # key
    <3>1. Waits(j)' = Waits(j)
      BY <1>1, <1>7, <1>9, <2>3 DEF Waits
    <3> QED BY <1>10, <2>1, <2>3, <3>1
  <2> QED BY <2>2, <2>3
<1>13. CallsAre'
  <2>1. calls' = calls /\ during' = during
    BY <1>1
  <2> QED BY <1>11, <2>1 DEF CallsAre, MayBecome
<1>14. ReadsNoMore
  BY <1>3, <1>10, KeysAre DEF ReadsNoMore
<1>15. ds' = [e \in Dispatches |-> ds'[e]]
  BY <1>9
<1>16. lanes' = [j \in LaneKeys |-> lanes'[j]]
  BY <1>10
<1> QED BY <1>1, <1>11, <1>12, <1>13, <1>14, <1>15, <1>16, QuietKeeps

\* A session changes the tree or commits, in a call that was open when any dispatch began whose
\* capture is pending.
LEMMA TouchKeeps ==
  ASSUME ReferenceInv, NEW s \in Sessions, NEW F, calls[s].kind # "idle", ds' = Touched(s, F),
         RepoShape(g)', \A f \in Files \ F : g'.tree[f] = g.tree[f] /\ g'.head[f] = g.head[f],
         UNCHANGED <<lanes, mats, during>>,
         calls' = [x \in Sessions |-> calls'[x]],
         \A x \in Sessions : CallShape(calls'[x]) /\ calls'[x].kind = calls[x].kind
  PROVE  ReferenceInv'
<1> USE DEF ReferenceInv
<1>1. ds' = [d \in Dispatches |-> ds'[d]] /\ ds = [d \in Dispatches |-> ds[d]]
  BY DEF Touched, DispatchesAre
<1>2. ASSUME NEW d \in Dispatches
      PROVE  /\ DispatchShape(ds'[d]) /\ ds'[d].capPending = ds[d].capPending
             /\ ds'[d].snapPending = ds[d].snapPending /\ ds'[d].st = ds[d].st /\ ds'[d].ref = ds[d].ref
             /\ ds'[d].start = ds[d].start /\ ds'[d].gateKey = ds[d].gateKey
             /\ ds[d].touched \subseteq ds'[d].touched /\ (Exposed(s, d) => F \subseteq ds'[d].touched)
  <2>1. DispatchShape(ds[d])
    BY DEF DispatchesAre
  <2>2. CASE ~Exposed(s, d)
    BY <2>1, <2>2 DEF Touched
  <2>3. CASE Exposed(s, d)
    <3>1. PICK q : q = Touching(ds[d], F)
      OBVIOUS
    <3>2. ds'[d] = q
      BY <2>3, <3>1 DEF Touched, Touching
    <3>3. /\ DispatchShape(q) /\ q.capPending = ds[d].capPending /\ q.snapPending = ds[d].snapPending
          /\ q.st = ds[d].st /\ q.ref = ds[d].ref /\ q.start = ds[d].start
          /\ q.touched = ds[d].touched \cup F /\ q.gateKey = ds[d].gateKey
      BY <2>1, <3>1, TouchedIs
    <3> QED BY <3>2, <3>3
  <2> QED BY <2>2, <2>3
<1>3. DispatchesAre' /\ CallsAre'
  <2>1. ASSUME NEW d \in Dispatches PROVE MatShape(mats[d])'
    BY DEF DispatchesAre, MatShape
  <2>2. DispatchesAre'
    BY <1>1, <1>2, <2>1 DEF DispatchesAre
  <2>3. CallsAre'
    <3>1. \A x \in Sessions : CallShape(calls'[x])
      OBVIOUS
    <3>2. ASSUME NEW d \in Dispatches, ds'[d].capPending \/ ds'[d].st = "none" PROVE calls'[d].kind = "idle"
      <4>1. d \in Sessions
        BY DEF Sessions
      <4>2. calls[d].kind = "idle"
        BY <1>2, <3>2 DEF CallsAre
      <4> QED BY <4>1, <4>2
    <3>3. ASSUME NEW d \in Dispatches, NEW x \in Sessions, ds'[d].capPending, calls'[x].kind # "idle"
          PROVE  <<x, d>> \in during'
      <4>1. ds[d].capPending /\ calls[x].kind # "idle"
        BY <1>2, <3>3
      <4> QED BY <4>1 DEF CallsAre
    <3>4. calls' = [x \in Sessions |-> calls'[x]]
      OBVIOUS
    <3> QED BY <3>1, <3>2, <3>3, <3>4 DEF CallsAre
  <2> QED BY <2>2, <2>3
<1>4. FlightsAre'
  <2> SUFFICES ASSUME NEW j \in LaneKeys PROVE LaneIs(lanes[j], Waits(j)')
    BY DEF FlightsAre
  <2>1. Waits(j)' = Waits(j)
    BY <1>2 DEF Waits
  <2> QED BY <2>1 DEF FlightsAre
<1>5. CaptureIsTrue'
  <2>1. ASSUME NEW d \in Dispatches, ds[d].capPending, NEW f \in Files \ ds'[d].touched
        PROVE  f \in Untouched(d) /\ g'.tree[f] = g.tree[f] /\ g'.head[f] = g.head[f]
    <3>1. Exposed(s, d)
      BY <2>1 DEF CallsAre, Exposed
    <3> QED BY <1>2, <2>1, <3>1 DEF Untouched
  <2>2. ASSUME NEW d \in Dispatches, ds'[d].capPending, NEW f \in Files \ ds'[d].touched
        PROVE  g'.tree[f] = ds'[d].start[f]
    BY <1>2, <2>1, <2>2 DEF CaptureIsTrue
  <2>3. ASSUME lanes[Cap].running.phase # 0, NEW d \in lanes[Cap].running.sharers, NEW f \in Files \ ds'[d].touched
        PROVE  lanes[Cap].running.ref.commit[f] = IF g'.head[f] = "none" THEN "none" ELSE g'.tree[f]
    <3>1. d \in Dispatches /\ ds[d].capPending
      BY KeysAre DEF FlightsAre, LaneIs, Waits
    <3> QED BY <2>1, <2>3, <3>1 DEF CaptureIsTrue
  <2> QED BY <2>2, <2>3 DEF CaptureIsTrue, Untouched
<1>6. ReferencesAreTrue'
  <2>1. ASSUME NEW d \in Dispatches PROVE RefIsTrue(d, ds[d].ref)' /\ RefIsTrue(d, mats[d].ref)'
    <3>1. Files \ ds'[d].touched \subseteq Files \ ds[d].touched /\ ds'[d].start = ds[d].start /\ ds'[d].ref = ds[d].ref
      BY <1>2
    <3>2. RefIsTrue(d, ds[d].ref) /\ RefIsTrue(d, mats[d].ref)
      BY DEF ReferencesAreTrue
    <3> QED BY <3>1, <3>2 DEF RefIsTrue, Untouched
  <2> QED BY <2>1 DEF ReferencesAreTrue
<1> QED BY <1>3, <1>4, <1>5, <1>6

LEMMA WritesKeep ==
  ASSUME ReferenceInv, NEW s \in Sessions,
         Commit(s) \/ \E f \in Files : \E c \in {Work[s], "none", g.head[f]} : Change(s, f, c)
  PROVE  ReferenceInv'
<1> USE DEF ReferenceInv
<1>1. CallShape(calls[s]) /\ calls = [x \in Sessions |-> calls[x]] /\ RepoShape(g)
  BY DEF CallsAre, CaptureIsTrue
<1>2. ASSUME NEW left, NEW wrote, calls' = [calls EXCEPT ![s].left = left, ![s].file = wrote]
      PROVE  /\ calls' = [x \in Sessions |-> calls'[x]]
             /\ \A x \in Sessions : CallShape(calls'[x]) /\ calls'[x].kind = calls[x].kind
  <2>1. PICK c : c = [calls[s] EXCEPT !.left = left, !.file = wrote]
    OBVIOUS
  <2>2. c = [kind |-> calls[s].kind, file |-> wrote, left |-> left]
    BY <1>1, <2>1 DEF CallShape
  <2>3. CallShape(c) /\ c.kind = calls[s].kind
    BY <1>1, <2>2 DEF CallShape
  <2>4. calls' = [x \in Sessions |-> IF x = s THEN c ELSE calls[x]]
    BY <1>1, <1>2, <2>1
  <2> QED BY <2>3, <2>4 DEF CallsAre
<1>3. CASE Commit(s)
  <2>1. g' = [head |-> g.tree, tree |-> g.tree]
    BY <1>1, <1>3 DEF Commit, RepoShape
  <2>2. RepoShape(g)'
    BY <1>1, <2>1 DEF RepoShape
  <2>3. PICK left : left = calls[s].left - 1
    OBVIOUS
  <2>4. calls' = [calls EXCEPT ![s].left = left, ![s].file = calls[s].file]
    BY <1>1, <1>3, <2>3 DEF Commit, CallShape
  <2>5. ds' = Touched(s, Listed(g)) /\ calls[s].kind # "idle" /\ UNCHANGED <<lanes, mats, during>>
    BY <1>3 DEF Commit
  <2>6. \A f \in Files \ Listed(g) : g'.tree[f] = g.tree[f] /\ g'.head[f] = g.head[f]
    BY <2>1 DEF Listed
  <2> QED BY <1>2, <2>2, <2>4, <2>5, <2>6, TouchKeeps
<1>4. ASSUME NEW f \in Files, NEW c, Change(s, f, c) PROVE ReferenceInv'
  <2>1. PICK tree : tree = [g.tree EXCEPT ![f] = c]
    OBVIOUS
  <2>2. g' = [head |-> g.head, tree |-> tree]
    BY <1>1, <1>4, <2>1 DEF Change, RepoShape
  <2>3. tree = [x \in Files |-> IF x = f THEN c ELSE g.tree[x]]
    BY <1>1, <2>1 DEF RepoShape
  <2>4. RepoShape(g)'
    BY <1>1, <2>2, <2>3 DEF RepoShape
  <2>5. PICK left : left = calls[s].left - 1
    OBVIOUS
  <2>6. PICK wrote : wrote = IF calls[s].kind = "edit" THEN f ELSE "none"
    OBVIOUS
  <2>7. calls' = [calls EXCEPT ![s].left = left, ![s].file = wrote]
    BY <1>4, <2>5, <2>6 DEF Change
  <2>8. ds' = Touched(s, {f}) /\ calls[s].kind # "idle" /\ UNCHANGED <<lanes, mats, during>>
    BY <1>4 DEF Change
  <2>9. \A x \in Files \ {f} : g'.tree[x] = g.tree[x] /\ g'.head[x] = g.head[x]
    BY <2>2, <2>3
  <2> QED BY <1>2, <2>4, <2>7, <2>8, <2>9, TouchKeeps
<1> QED BY <1>3, <1>4

-----------------------------------------------------------------------------
(* References: a worktree is made of one. *)

LEMMA WantedIs ==
  ASSUME NEW r
  PROVE  /\ MatShape(Wanted(r)) /\ Wanted(r).st = (IF r.ok THEN "wanted" ELSE "gone") /\ Wanted(r).ref = r
         /\ ~Wanted(r).released
         /\ MatShape(NoMat) /\ NoMat.st = "none" /\ ~NoMat.ref.ok /\ ~NoMat.released
<1>1. PICK none : none = NoReference
  OBVIOUS
<1>2. PICK empty : empty = Nowhere
  OBVIOUS
<1>3. NoMat = [st |-> "none", ref |-> none, content |-> empty, lost |-> {}, exact |-> FALSE, released |-> FALSE]
  BY <1>1, <1>2 DEF NoMat
<1>4. PICK st : st = IF r.ok THEN "wanted" ELSE "gone"
  OBVIOUS
<1>5. Wanted(r) = [st |-> st, ref |-> r, content |-> empty, lost |-> {}, exact |-> FALSE, released |-> FALSE]
  <2>1. Wanted(r) = [NoMat EXCEPT !.st = st, !.ref = r]
    BY <1>4 DEF Wanted
  <2> QED BY <1>3, <2>1
<1>6. ~none.ok
  BY <1>1 DEF NoReference
<1>7. MatShape(NoMat) /\ MatShape(Wanted(r))
  BY <1>3, <1>4, <1>5 DEF MatShape
<1> QED BY <1>3, <1>4, <1>5, <1>6, <1>7

LEMMA PrepareKeeps ==
  ASSUME ReferenceInv, NEW d \in Dispatches, Prepare(d)
  PROVE  ReferenceInv'
<1> USE DEF ReferenceInv
<1>1. UNCHANGED <<g, calls, during, lanes>> /\ DispatchShape(ds[d]) /\ ds[d].st = "judged"
  BY DEF Prepare, DispatchesAre
<1>2. PICK result, ref : /\ ds' = [ds EXCEPT ![d].st = "prepared", ![d].result = result]
                         /\ mats' = [mats EXCEPT ![d] = Wanted(ref)] /\ ref \in {ds[d].ref, NoReference}
  BY Zenon DEF Prepare
<1>3. PICK y : y = [ds[d] EXCEPT !.st = "prepared", !.result = result]
  OBVIOUS
<1>4. y = [st |-> "prepared", tests |-> ds[d].tests, snapPending |-> ds[d].snapPending, snapBad |-> ds[d].snapBad,
           capPending |-> ds[d].capPending, capBad |-> ds[d].capBad, snap |-> ds[d].snap, ref |-> ds[d].ref,
           observed |-> ds[d].observed, start |-> ds[d].start, touched |-> ds[d].touched, due |-> ds[d].due,
           asked |-> ds[d].asked, gateKey |-> ds[d].gateKey, now |-> ds[d].now, torn |-> ds[d].torn,
           result |-> result]
  BY <1>1, <1>3 DEF DispatchShape
<1>5. /\ DispatchShape(y) /\ y.st = "prepared" /\ y.capPending = ds[d].capPending
      /\ y.snapPending = ds[d].snapPending /\ y.ref = ds[d].ref /\ y.start = ds[d].start
      /\ y.touched = ds[d].touched /\ y.gateKey = ds[d].gateKey
  BY <1>1, <1>4 DEF DispatchShape
<1>6. ds' = [e \in Dispatches |-> IF e = d THEN y ELSE ds[e]]
  <2>1. ds = [e \in Dispatches |-> ds[e]]
    BY DEF DispatchesAre
  <2> QED BY <1>2, <1>3, <2>1
<1>7. PICK m : m = Wanted(ref)
  OBVIOUS
<1>8. mats' = [e \in Dispatches |-> IF e = d THEN m ELSE mats[e]]
  <2>1. mats = [e \in Dispatches |-> mats[e]]
    BY DEF DispatchesAre
  <2> QED BY <1>2, <1>7, <2>1
<1>9. MatShape(m) /\ m.st \in {"wanted", "gone"} /\ m.ref = ref /\ (m.st = "wanted" => ref.ok)
  BY <1>7, WantedIs
<1>10. DispatchesAre' /\ CallsAre'
  <2>1. ASSUME NEW e \in Dispatches, e # d PROVE ds'[e] = ds[e] /\ mats'[e] = mats[e]
    BY <1>6, <1>8, <2>1
  <2>2. ds'[d] = y /\ mats'[d] = m
    BY <1>6, <1>8
  <2>3. ds' = [e \in Dispatches |-> ds'[e]] /\ mats' = [e \in Dispatches |-> mats'[e]]
    BY <1>6, <1>8
  <2> QED BY <1>1, <1>5, <1>9, <2>1, <2>2, <2>3 DEF DispatchesAre, CallsAre
<1>11. ASSUME NEW e \in Dispatches
       PROVE  ds'[e].capPending = ds[e].capPending /\ ds'[e].snapPending = ds[e].snapPending
              /\ ds'[e].ref = ds[e].ref /\ ds'[e].start = ds[e].start /\ ds'[e].touched = ds[e].touched
              /\ ds'[e].gateKey = ds[e].gateKey /\ (ds'[e].st = "gate" <=> ds[e].st = "gate")
  BY <1>1, <1>5, <1>6
<1>12. FlightsAre'
  <2> SUFFICES ASSUME NEW j \in LaneKeys PROVE LaneIs(lanes[j], Waits(j)')
    BY <1>1 DEF FlightsAre
  <2>1. Waits(j)' = Waits(j)
    BY <1>11 DEF Waits
  <2> QED BY <2>1 DEF FlightsAre
<1>13. CaptureIsTrue'
  <2>1. lanes[Cap].running.sharers \subseteq Dispatches
    BY KeysAre DEF FlightsAre, LaneIs, Waits
  <2> QED BY <1>1, <1>11, <2>1 DEF CaptureIsTrue, Untouched
<1>14. ReferencesAreTrue'
  <2>1. ASSUME NEW e \in Dispatches, NEW r PROVE RefIsTrue(e, r)' <=> RefIsTrue(e, r)
    BY <1>11 DEF RefIsTrue, Untouched
  <2>2. RefIsTrue(d, ref)
    BY <1>2 DEF ReferencesAreTrue, RefIsTrue, NoReference
  <2>3. ASSUME NEW e \in Dispatches, e # d PROVE mats'[e] = mats[e]
    BY <1>8, <2>3
  <2>4. mats'[d] = m
    BY <1>8
  <2>5. ASSUME NEW e \in Dispatches PROVE RefIsTrue(e, ds[e].ref)' /\ RefIsTrue(e, mats[e].ref)'
    <3>1. RefIsTrue(e, ds[e].ref) /\ RefIsTrue(e, mats[e].ref)
      BY DEF ReferencesAreTrue
    <3>2. ds'[e].ref = ds[e].ref
      BY <1>11
    <3>3. CASE e = d
      BY <1>9, <2>2, <2>4, <3>1, <3>2, <3>3, <1>11 DEF RefIsTrue, Untouched
    <3>4. CASE e # d
      BY <1>11, <2>3, <3>1, <3>2, <3>4 DEF RefIsTrue, Untouched
    <3> QED BY <3>3, <3>4
  <2> QED BY <1>9, <2>3, <2>4, <2>5 DEF ReferencesAreTrue, InUse
<1> QED BY <1>10, <1>12, <1>13, <1>14

\* The worktree of a dispatch, one step further: made, added, copied, linked and checked, or given up.
MatMove(d, m) ==
  /\ mats' = [e \in Dispatches |-> IF e = d THEN m ELSE mats[e]]
  /\ MatShape(m) /\ m.ref = mats[d].ref /\ m.st \notin {"none", "wanted"} /\ mats[d].st # "none"
  /\ m.st \in InUse => mats[d].st \in {"wanted"} \cup InUse
  /\ m.st \in {"copied", "linked", "ready"} =>
       \/ m.content = mats[d].content /\ m.lost = mats[d].lost /\ mats[d].st \in {"copied", "linked"}
       \/ m.lost = {} => \A f \in Files : m.content[f] = At(m.ref, f)
  /\ m.st = "ready" => (m.exact => m.lost = {})

LEMMA MatMoves ==
  ASSUME DispatchesAre, NEW d \in Dispatches,
         \/ MakeDir(d) \/ AddWorktree(d) \/ CopyUntracked(d) \/ LinkModules(d) \/ CheckDrift(d) \/ Abandon(d)
         \/ RemoveOwn(d)
  PROVE  /\ UNCHANGED <<g, writer, calls, during, ds, lanes, gc, alive>>
         /\ \E m : MatMove(d, m)
<1>1. MatShape(mats[d]) /\ mats = [e \in Dispatches |-> mats[e]]
  BY DEF DispatchesAre
<1>2. UNCHANGED <<g, writer, calls, during, ds, lanes, gc, alive>>
  BY DEF MakeDir, AddWorktree, CopyUntracked, LinkModules, CheckDrift, Abandon, RemoveOwn
<1> DEFINE M(m) == mats' = [e \in Dispatches |-> IF e = d THEN m ELSE mats[e]]
<1>3. ASSUME NEW st \in {"gone", "sweep", "rm", "admin"} \cup InUse, mats' = [mats EXCEPT ![d].st = st],
             mats[d].st # "none", st \in InUse => mats[d].st \in {"wanted"} \cup InUse,
             st \in {"copied", "linked", "ready"} => st = "linked" /\ mats[d].st = "copied"
      PROVE  \E m : MatMove(d, m)
  <2>1. PICK m : m = [mats[d] EXCEPT !.st = st]
    OBVIOUS
  <2>2. m = [st |-> st, ref |-> mats[d].ref, content |-> mats[d].content, lost |-> mats[d].lost,
             exact |-> mats[d].exact, released |-> mats[d].released]
    BY <1>1, <2>1 DEF MatShape
  <2>3. MatShape(m)
    BY <1>3, <2>2 DEF MatShape, InUse, StepAfter
  <2>4. mats' = [e \in Dispatches |-> IF e = d THEN m ELSE mats[e]]
    BY <1>1, <1>3, <2>1
  <2>5. MatMove(d, m)
    BY <1>3, <2>2, <2>3, <2>4 DEF MatMove, InUse
  <2> QED BY <2>5
<1>4. CASE MakeDir(d)
  BY <1>2, <1>3, <1>4 DEF MakeDir, InUse
<1>5. CASE AddWorktree(d)
  BY <1>2, <1>3, <1>5 DEF AddWorktree, InUse
<1>6. CASE CopyUntracked(d)
  <2>1. PICK content : content = Content(mats[d].ref, g)
    OBVIOUS
  <2>2. PICK lost : lost = Lost(mats[d].ref, g)
    OBVIOUS
  <2>3. mats[d].st = "added" /\ mats' = [mats EXCEPT ![d].st = "copied", ![d].content = content, ![d].lost = lost]
    BY <1>6, <2>1, <2>2 DEF CopyUntracked
  <2>4. PICK m : m = [mats[d] EXCEPT !.st = "copied", !.content = content, !.lost = lost]
    OBVIOUS
  <2>5. m = [st |-> "copied", ref |-> mats[d].ref, content |-> content, lost |-> lost,
             exact |-> mats[d].exact, released |-> mats[d].released]
    BY <1>1, <2>4 DEF MatShape
  <2>6. MatShape(m)
    BY <2>5 DEF MatShape, InUse
  <2>7. mats' = [e \in Dispatches |-> IF e = d THEN m ELSE mats[e]]
    BY <1>1, <2>3, <2>4
  <2>8. lost = {} => \A f \in Files : content[f] = At(mats[d].ref, f)
    BY <2>1, <2>2 DEF Content, At
  <2>9. MatMove(d, m)
    BY <2>3, <2>5, <2>6, <2>7, <2>8 DEF MatMove, InUse
  <2> QED BY <1>2, <2>9
<1>7. CASE LinkModules(d)
  BY <1>2, <1>3, <1>7 DEF LinkModules, InUse
<1>8. CASE CheckDrift(d)
  <2>1. PICK exact : /\ mats' = [mats EXCEPT ![d].st = "ready", ![d].exact = exact]
                     /\ exact => mats[d].lost = {}
    BY <1>8, Zenon DEF CheckDrift, Exact
  <2>2. PICK m : m = [mats[d] EXCEPT !.st = "ready", !.exact = exact]
    OBVIOUS
  <2>3. m = [st |-> "ready", ref |-> mats[d].ref, content |-> mats[d].content, lost |-> mats[d].lost,
             exact |-> exact, released |-> mats[d].released]
    BY <1>1, <2>2 DEF MatShape
  <2>4. MatShape(m)
    BY <2>3 DEF MatShape, InUse
  <2>5. mats' = [e \in Dispatches |-> IF e = d THEN m ELSE mats[e]]
    BY <1>1, <2>1, <2>2
  <2>6. mats[d].st = "linked"
    BY <1>8 DEF CheckDrift
  <2>7. MatMove(d, m)
    BY <2>1, <2>3, <2>4, <2>5, <2>6 DEF MatMove, InUse
  <2> QED BY <1>2, <2>7
<1>9. CASE Abandon(d)
  BY <1>2, <1>3, <1>9 DEF Abandon, InUse
<1>10. CASE RemoveOwn(d)
  <2>1. mats[d].st \in {"sweep", "rm", "admin"}
    BY <1>10 DEF RemoveOwn, StepAfter
  <2>2. CASE mats' = [mats EXCEPT ![d].st = StepAfter[@]]
    <3>1. PICK st : st = StepAfter[mats[d].st]
      OBVIOUS
    <3>2. st \in {"gone", "rm", "admin"}
      BY <2>1, <3>1 DEF StepAfter
    <3>3. mats' = [mats EXCEPT ![d].st = st]
      BY <2>2, <3>1
    <3> QED BY <1>2, <1>3, <2>1, <3>2, <3>3 DEF InUse
  <2>3. CASE mats' = [mats EXCEPT ![d].st = "gone", ![d].released = TRUE]
    <3>1. PICK m : m = [mats[d] EXCEPT !.st = "gone", !.released = TRUE]
      OBVIOUS
    <3>2. m = [st |-> "gone", ref |-> mats[d].ref, content |-> mats[d].content, lost |-> mats[d].lost,
               exact |-> mats[d].exact, released |-> TRUE]
      BY <1>1, <3>1 DEF MatShape
    <3>3. MatShape(m)
      BY <3>2 DEF MatShape
    <3>4. mats' = [e \in Dispatches |-> IF e = d THEN m ELSE mats[e]]
      BY <1>1, <2>3, <3>1
    <3>5. MatMove(d, m)
      BY <2>1, <3>2, <3>3, <3>4 DEF MatMove, InUse
    <3> QED BY <1>2, <3>5
  <2> QED BY <1>10, <2>2, <2>3 DEF RemoveOwn
<1> QED BY <1>2, <1>4, <1>5, <1>6, <1>7, <1>8, <1>9, <1>10

LEMMA MatMoveKeeps ==
  ASSUME ReferenceInv, NEW d \in Dispatches, UNCHANGED <<g, calls, during, ds, lanes>>, NEW m, MatMove(d, m)
  PROVE  ReferenceInv'
<1> USE DEF ReferenceInv
<1>1. DispatchesAre' /\ CallsAre'
  <2>1. mats' = [e \in Dispatches |-> mats'[e]] /\ ds[d].st = "prepared"
    BY DEF MatMove, DispatchesAre
  <2>2. ASSUME NEW e \in Dispatches
        PROVE  MatShape(mats[e])' /\ DispatchShape(ds[e])' /\ (mats'[e].st # "none" => ds[e].st = "prepared")
    BY <2>1 DEF MatMove, DispatchesAre, DispatchShape
  <2>3. DispatchesAre'
    BY <2>1, <2>2 DEF DispatchesAre
  <2>4. CallsAre'
    BY DEF CallsAre
  <2> QED BY <2>3, <2>4
<1>2. FlightsAre'
  <2> SUFFICES ASSUME NEW j \in LaneKeys PROVE LaneIs(lanes[j], Waits(j)')
    BY DEF FlightsAre
  <2>1. Waits(j)' = Waits(j)
    BY DEF Waits
  <2> QED BY <2>1 DEF FlightsAre
<1>3. CaptureIsTrue'
  BY DEF CaptureIsTrue, Untouched, RepoShape, RefShape
<1>4. ReferencesAreTrue'
  <2>1. ASSUME NEW e \in Dispatches, NEW r PROVE RefIsTrue(e, r)' <=> RefIsTrue(e, r)
    BY DEF RefIsTrue, Untouched
  <2>2. ASSUME NEW e \in Dispatches PROVE RefIsTrue(e, ds[e].ref)' /\ RefIsTrue(e, mats[e].ref)'
    BY DEF ReferencesAreTrue, RefIsTrue, Untouched, MatMove
  <2>3. ASSUME NEW e \in Dispatches, e # d PROVE mats'[e] = mats[e]
    BY <2>3 DEF MatMove
  <2>4. mats'[d] = m
    BY DEF MatMove
  <2>5. /\ m.st \notin {"none", "wanted"} /\ (m.st \in InUse => m.ref.ok)
        /\ (m.st \in {"copied", "linked", "ready"} /\ m.lost = {} =>
             \A f \in Files : m.content[f] = At(m.ref, f))
        /\ (m.st = "ready" /\ m.exact => m.lost = {})
    BY DEF ReferencesAreTrue, MatMove
  <2> QED BY <2>2, <2>3, <2>4, <2>5 DEF ReferencesAreTrue
<1> QED BY <1>1, <1>2, <1>3, <1>4

LEMMA ElsewhereKeeps ==
  ASSUME ReferenceInv, UNCHANGED <<g, calls, during, ds, lanes, mats>>
  PROVE  ReferenceInv'
<1> USE DEF ReferenceInv
<1>1. DispatchesAre' /\ CallsAre'
  BY DEF DispatchesAre, CallsAre
<1>2. FlightsAre'
  <2>1. ASSUME NEW j \in LaneKeys PROVE Waits(j)' = Waits(j)
    BY DEF Waits
  <2> QED BY <2>1 DEF FlightsAre
<1>3. CaptureIsTrue' /\ ReferencesAreTrue'
  BY DEF CaptureIsTrue, Untouched, RepoShape, RefShape, ReferencesAreTrue, RefIsTrue
<1> QED BY <1>1, <1>2, <1>3

LEMMA RefInitHolds ==
  ASSUME RefInit
  PROVE  ReferenceInv
<1>1. PICK sc \in Scenarios :
       /\ g = sc.start
       /\ calls = [s \in Sessions |-> [kind |-> "idle", file |-> "none", left |-> sc.writes[s]]]
       /\ ds = [d \in Dispatches |-> [NoDispatch EXCEPT !.start = IF sc.collects THEN g.tree ELSE Nowhere,
                 !.tests = d \in sc.captures,
                 !.st = IF d \notin sc.who THEN "over" ELSE IF sc.collects THEN "prepared" ELSE "none"]]
       /\ mats = [d \in Dispatches |-> IF sc.collects /\ d \in sc.who THEN Wanted(captureUntracked(captureStash(g), g)) ELSE NoMat]
  BY Zenon DEF RefInit
<1>2. lanes = [k \in LaneKeys |-> NoLane]
  BY DEF RefInit
<1>3. RepoShape(g)
  BY <1>1, ReferenceAssumption DEF RepoShape
<1>4. PICK start : start = IF sc.collects THEN g.tree ELSE Nowhere
  OBVIOUS
<1>5. PICK snap : snap = NoSnapshot
  OBVIOUS
<1>6. PICK ref : ref = NoReference
  OBVIOUS
<1>7. PICK nowhere : nowhere = Nowhere
  OBVIOUS
<1>8. ~ref.ok
  BY <1>6 DEF NoReference
<1>9. ASSUME NEW d \in Dispatches
      PROVE  /\ DispatchShape(ds[d]) /\ ~ds[d].capPending /\ ~ds[d].snapPending /\ ~ds[d].ref.ok
             /\ ds[d].start = start /\ ds[d].st # "gate"
             /\ sc.collects /\ d \in sc.who => ds[d].st = "prepared"
  <2>1. PICK tests : tests = (d \in sc.captures)
    OBVIOUS
  <2>0. tests \in BOOLEAN
    BY <2>1
  <2>2. PICK st : st = IF d \notin sc.who THEN "over" ELSE IF sc.collects THEN "prepared" ELSE "none"
    OBVIOUS
  <2>6. PICK result : result = [files |-> {}, available |-> FALSE]
    OBVIOUS
  <2>7. PICK key : key = Snap
    OBVIOUS
  <2>3. PICK none : none = [st |-> "none", tests |-> FALSE, snapPending |-> FALSE, snapBad |-> FALSE,
           capPending |-> FALSE, capBad |-> FALSE, snap |-> snap, ref |-> ref, observed |-> {},
           start |-> nowhere, touched |-> {}, due |-> {}, asked |-> FALSE, gateKey |-> key,
           now |-> snap, torn |-> FALSE, result |-> result]
    OBVIOUS
  <2>4. NoDispatch = none
    BY <1>5, <1>6, <1>7, <2>3, <2>6, <2>7, Zenon DEF NoDispatch
  <2>5. ds[d] = [none EXCEPT !.start = start, !.tests = tests, !.st = st]
    BY <1>1, <1>4, <2>1, <2>2, <2>4
  <2>8. PICK no : no = FALSE
    OBVIOUS
  <2>9. none = [st |-> "none", tests |-> no, snapPending |-> no, snapBad |-> no, capPending |-> no,
           capBad |-> no, snap |-> snap, ref |-> ref, observed |-> {}, start |-> nowhere, touched |-> {},
           due |-> {}, asked |-> no, gateKey |-> key, now |-> snap, torn |-> no, result |-> result]
    BY <2>3, <2>8
  <2>10. ds[d] = [st |-> st, tests |-> tests, snapPending |-> no, snapBad |-> no, capPending |-> no,
            capBad |-> no, snap |-> snap, ref |-> ref, observed |-> {}, start |-> start, touched |-> {},
            due |-> {}, asked |-> no, gateKey |-> key, now |-> snap, torn |-> no, result |-> result]
    <3>1. PICK r1 : r1 = [none EXCEPT !.start = start]
      OBVIOUS
    <3>2. r1 = [st |-> "none", tests |-> no, snapPending |-> no, snapBad |-> no, capPending |-> no,
            capBad |-> no, snap |-> snap, ref |-> ref, observed |-> {}, start |-> start, touched |-> {},
            due |-> {}, asked |-> no, gateKey |-> key, now |-> snap, torn |-> no, result |-> result]
      BY ONLY <2>9, <3>1
    <3>3. PICK r2 : r2 = [r1 EXCEPT !.tests = tests]
      OBVIOUS
    <3>4. r2 = [st |-> "none", tests |-> tests, snapPending |-> no, snapBad |-> no, capPending |-> no,
            capBad |-> no, snap |-> snap, ref |-> ref, observed |-> {}, start |-> start, touched |-> {},
            due |-> {}, asked |-> no, gateKey |-> key, now |-> snap, torn |-> no, result |-> result]
      BY ONLY <3>2, <3>3
    <3>5. ds[d] = [r2 EXCEPT !.st = st]
      BY ONLY <2>5, <3>1, <3>3
    <3> QED BY ONLY <3>4, <3>5
  <2>11. {tests, no} \subseteq BOOLEAN /\ st \in {"over", "prepared", "none"} /\ no = FALSE
    BY <2>0, <2>2, <2>8
  <2>12. DispatchShape(ds[d])
    <3>1. PICK r : r = [st |-> st, tests |-> tests, snapPending |-> no, snapBad |-> no, capPending |-> no,
            capBad |-> no, snap |-> snap, ref |-> ref, observed |-> {}, start |-> start, touched |-> {},
            due |-> {}, asked |-> no, gateKey |-> key, now |-> snap, torn |-> no, result |-> result]
      OBVIOUS
    <3>2. DispatchShape(r)
      BY ONLY <2>11, <3>1 DEF DispatchShape
    <3> QED BY ONLY <2>10, <3>1, <3>2
  <2>13. /\ ds[d].capPending = no /\ ds[d].snapPending = no /\ ds[d].ref = ref
         /\ ds[d].start = start /\ ds[d].st = st
    BY ONLY <2>10
  <2> QED BY <1>8, <2>2, <2>11, <2>12, <2>13
<1>10. ASSUME NEW d \in Dispatches
       PROVE  /\ MatShape(mats[d]) /\ mats[d].st \in {"none", "wanted", "gone"}
              /\ mats[d].st # "none" => ds[d].st = "prepared" /\ sc.collects
              /\ mats[d].st = "none" => ~mats[d].ref.ok
              /\ mats[d].st = "wanted" => mats[d].ref.ok
              /\ RefIsTrue(d, mats[d].ref)
  <2>1. CASE sc.collects /\ d \in sc.who
    <3>1. PICK r : r = captureStash(g)
      OBVIOUS
    <3>2. PICK c : c = captureUntracked(r, g)
      OBVIOUS
    <3>3. mats[d] = Wanted(c)
      BY <1>1, <2>1, <3>1, <3>2
    <3>4. RefShape([ok |-> FALSE, commit |-> 0, tracked |-> 0, untracked |-> 0])
      BY DEF RefShape
    <3>5. RefShape(r) /\ \A f \in Files : r.commit[f] = IF g.head[f] = "none" THEN "none" ELSE g.tree[f]
      BY <3>1, <3>4, CaptureReads
    <3>6. c.ok => \A f \in Files : At(c, f) = g.tree[f]
      BY <3>2, <3>5, CaptureReads
    <3>7. ds[d].start = g.tree /\ ds[d].st = "prepared"
      BY <1>4, <1>9, <2>1
    <3>8. RefIsTrue(d, c)
      BY <3>6, <3>7 DEF RefIsTrue, Untouched
    <3>9. MatShape(mats[d]) /\ mats[d].st = (IF c.ok THEN "wanted" ELSE "gone") /\ mats[d].ref = c
      BY <3>3, WantedIs
    <3> QED BY <2>1, <3>7, <3>8, <3>9
  <2>2. CASE ~(sc.collects /\ d \in sc.who)
    <3>1. mats[d] = NoMat
      BY <1>1, <2>2
    <3>2. MatShape(mats[d]) /\ mats[d].st = "none" /\ ~mats[d].ref.ok
      BY <3>1, WantedIs
    <3> QED BY <3>2 DEF RefIsTrue
  <2> QED BY <2>1, <2>2
<1>11. DispatchesAre
  <2>1. ds = [d \in Dispatches |-> ds[d]] /\ mats = [d \in Dispatches |-> mats[d]] /\ lanes = [k \in LaneKeys |-> lanes[k]]
    BY <1>1, <1>2
  <2> QED BY <1>9, <1>10, <2>1 DEF DispatchesAre
<1>12. CallsAre
  BY <1>1 DEF CallsAre, CallShape, Sessions
<1>13. /\ NoLane = [running |-> NoFlight, next |-> NoFlight] /\ FlightShape(NoFlight)
       /\ NoFlight.sharers = {} /\ NoFlight.phase = 0
  BY DEF NoLane, NoFlight, FlightShape
<1>14. FlightsAre
  BY <1>2, <1>13 DEF FlightsAre, LaneIs
<1>15. CaptureIsTrue
  <2>1. lanes[Cap].running.phase = 0
    BY <1>2, <1>13, KeysAre
  <2> QED BY <1>3, <1>9, <2>1 DEF CaptureIsTrue
<1>16. ReferencesAreTrue
  BY <1>9, <1>10 DEF ReferencesAreTrue, RefIsTrue, InUse
<1> QED BY <1>11, <1>12, <1>14, <1>15, <1>16 DEF ReferenceInv

LEMMA ReferenceStep ==
  ASSUME ReferenceInv, [RefNext]_rvars
  PROVE  ReferenceInv'
<1>1. CASE UNCHANGED rvars
  BY <1>1, ElsewhereKeeps DEF rvars
<1>2. ASSUME NEW d \in Dispatches,
             \/ MakeDir(d) \/ AddWorktree(d) \/ CopyUntracked(d) \/ LinkModules(d) \/ CheckDrift(d) \/ Abandon(d)
             \/ RemoveOwn(d)
      PROVE  ReferenceInv'
  <2>1. DispatchesAre
    BY DEF ReferenceInv
  <2>2. UNCHANGED <<g, calls, during, ds, lanes>> /\ \E m : MatMove(d, m)
    BY <1>2, <2>1, MatMoves
  <2> QED BY <2>2, MatMoveKeeps
<1>3. ASSUME NEW d \in Dispatches, Begin(d) \/ Evict(d) \/ Ask(d) \/ Prepare(d) \/ \E k \in LaneKeys : CaptureTimesOut(d, k)
      PROVE  ReferenceInv'
  BY <1>3, BeginKeeps, EvictKeeps, AskKeeps, PrepareKeeps, TimesOutKeeps
<1>4. ASSUME NEW k \in LaneKeys, Read(k) \/ ReadFails(k) PROVE ReferenceInv'
  BY <1>4, ReadKeeps
<1>5. ASSUME NEW s \in Sessions,
             \/ BeforeCall(s) \/ AfterCall(s) \/ Commit(s)
             \/ \E f \in Files : \E c \in {Work[s], "none", g.head[f]} : Change(s, f, c)
      PROVE  ReferenceInv'
  BY <1>5, ToolCallKeeps, WritesKeep
<1>6. ASSUME \/ \E by \in {"me", "other"} : GcList(by)
             \/ \E k \in Dirs : GcEntry(k) \/ GcOrphan(k) \/ AgeDir(k)
             \/ GcScan \/ GcRemove \/ GcDone \/ ProcessDies
      PROVE  ReferenceInv'
  <2>1. UNCHANGED <<g, calls, during, ds, lanes, mats>>
    BY <1>6 DEF GcList, GcEntry, GcOrphan, AgeDir, GcScan, GcRemove, GcDone, ProcessDies
  <2> QED BY <2>1, ElsewhereKeeps
<1>7. CASE RefNext
  BY <1>2, <1>3, <1>4, <1>5, <1>6, <1>7 DEF RefNext
<1> QED BY <1>1, <1>7

\* A reference called exact holds what was in the tree when its dispatch began, with any number of
\* dispatches, files and writers, except for what a call that was running when the dispatch began
\* changed under its captures (captureReference, observeEdit, createSharedFlight, materialize).
THEOREM ExactIsTrue == RefSpec => []ExactIsDispatchTree
<1>1. RefInit => ReferenceInv
  BY RefInitHolds
<1>2. ReferenceInv /\ [RefNext]_rvars => ReferenceInv'
  BY ReferenceStep
<1>3. ReferenceInv => ExactIsDispatchTree
  <2> SUFFICES ASSUME ReferenceInv, NEW d \in Dispatches, mats[d].st = "ready", mats[d].exact,
                      NEW f \in Files \ ds[d].touched
               PROVE  mats[d].content[f] = ds[d].start[f]
    BY DEF ExactIsDispatchTree
  <2>1. mats[d].lost = {} /\ mats[d].ref.ok
    BY DEF ReferenceInv, ReferencesAreTrue, InUse
  <2>2. mats[d].content[f] = At(mats[d].ref, f)
    BY <2>1 DEF ReferenceInv, ReferencesAreTrue
  <2>3. At(mats[d].ref, f) = ds[d].start[f]
    BY <2>1 DEF ReferenceInv, ReferencesAreTrue, RefIsTrue, Untouched
  <2> QED BY <2>2, <2>3
<1> QED BY <1>1, <1>2, <1>3, PTL DEF RefSpec

-----------------------------------------------------------------------------
(* Reference worktrees: the steps of a collection. *)

LEMMA DirsApart ==
  /\ 0 \in Dirs /\ Dispatches \subseteq Dirs /\ 0 \notin Dispatches /\ -1 \notin Dirs
  /\ \A k \in Dirs : k = 0 \/ k \in Dispatches
BY DispatchesAssumption DEF Dirs

\* No directory and no materialization moves.
LEMMA CleanupStands ==
  ASSUME CleanupInv, UNCHANGED <<dirs, gc, alive>>, UNCHANGED mats
  PROVE  CleanupInv'
<1>1. WorktreesAre'
  BY DEF CleanupInv, WorktreesAre, DirShape, GcShape
<1>2. DirsAreOwn'
  BY DEF CleanupInv, DirsAreOwn
<1>3. ListIsOld'
  BY DEF CleanupInv, ListIsOld
<1>4. TakesStale'
  BY DEF CleanupInv, TakesStale
<1>5. DueIsSwept'
  BY DEF CleanupInv, DueIsSwept, Swept
<1>6. OnlyStaleRemoved'
  BY DEF CleanupInv, OnlyStaleRemoved
<1> QED BY <1>1, <1>2, <1>3, <1>4, <1>5, <1>6 DEF CleanupInv

LEMMA PreparedHasNone ==
  ASSUME CleanupInv, ReferenceInv, NEW d \in Dispatches, Prepare(d)
  PROVE  CleanupInv'
<1> USE DEF CleanupInv
<1>1. UNCHANGED <<dirs, gc, alive>> /\ mats[d].st = "none" /\ mats = [e \in Dispatches |-> mats[e]]
  BY DEF Prepare, ReferenceInv, DispatchesAre
<1>2. PICK m : mats' = [mats EXCEPT ![d] = m] /\ m.st \in {"wanted", "gone"} /\ ~m.released
  <2>1. PICK ref : mats' = [mats EXCEPT ![d] = Wanted(ref)]
    BY Zenon DEF Prepare
  <2> QED BY <2>1, WantedIs
<1>3. mats'[d] = m /\ \A e \in Dispatches : e # d => mats'[e] = mats[e]
  BY <1>1, <1>2
<1>4. WorktreesAre' /\ DueIsSwept'
  BY <1>1 DEF WorktreesAre, DirShape, GcShape, DueIsSwept, Swept
<1>5. DirsAreOwn'
  BY <1>1, <1>2, <1>3 DEF DirsAreOwn
<1>6. ListIsOld'
  <2>1. d \notin DOMAIN gc.list /\ d \notin gc.todo
    BY <1>1 DEF ListIsOld
  <2> QED BY <1>1, <1>3, <2>1 DEF ListIsOld
<1>7. TakesStale'
  <2>1. gc.at # -1 => gc.at # d
    BY <1>1 DEF ListIsOld, TakesStale
  <2>2. gc.at # -1 /\ gc.at # 0 => gc.at \in Dispatches
    BY DirsApart DEF WorktreesAre, GcShape
  <2> QED BY <1>1, <1>3, <2>1, <2>2 DEF TakesStale
<1>8. OnlyStaleRemoved'
  BY <1>1, <1>2, <1>3 DEF OnlyStaleRemoved, InUse
<1> QED BY <1>4, <1>5, <1>6, <1>7, <1>8

\* A dispatch's own step at its directory: what it may do with both.
OwnMove(d, m, x) ==
  /\ mats'[d] = m /\ \A e \in Dispatches : e # d => mats'[e] = mats[e]
  /\ dirs' = [k \in Dirs |-> IF k = d THEN x ELSE dirs[k]]
  /\ DirShape(x) /\ x.fresh = dirs[d].fresh /\ ~x.foreign /\ x.lock # "user"
  /\ m.st \notin {"none", "wanted"} /\ mats[d].st \notin {"none", "gone"}
  /\ m.st \in Begun => mats[d].st \in {"wanted", "made"}
  /\ m.st \in InUse => mats[d].st \in {"wanted"} \cup InUse
  /\ m.st = "made" => ~x.reg
  /\ m.st = "adding" => x.reg /\ x.lock = "init"
  /\ m.released => m.st = "gone"
  /\ x.lock # "none" => x.reg
  /\ dirs[d].fresh /\ m.st \in InUse =>
       /\ x.exists
       /\ m.st \in {"adding", "added", "copied", "linked", "ready"} => x.reg
       /\ m.st \in {"linked", "ready"} => x.links

LEMMA OwnMoveStands ==
  ASSUME CleanupInv, NEW d \in Dispatches, alive, UNCHANGED <<gc, alive>>, NEW m, NEW x, OwnMove(d, m, x)
  PROVE  CleanupInv'
<1> USE DEF CleanupInv
<1>1. /\ dirs'[d] = x /\ mats'[d] = m /\ d # 0 /\ dirs'[0] = dirs[0]
      /\ \A e \in Dispatches : e # d => mats'[e] = mats[e] /\ dirs'[e] = dirs[e]
  BY DirsApart DEF OwnMove
<1>2. WorktreesAre'
  BY DEF WorktreesAre, OwnMove, GcShape
<1>3. DirsAreOwn'
  <2>1. \A k \in Dirs : dirs'[k].lock # "none" => dirs'[k].reg
    BY DEF DirsAreOwn, OwnMove
  <2>2. \A k \in Dirs : dirs'[k].reg => ~dirs'[k].foreign
    BY DEF DirsAreOwn, OwnMove
  <2>3. \A e \in Dispatches :
           /\ ~dirs'[e].foreign /\ dirs'[e].lock # "user"
           /\ mats'[e].st \in {"none", "wanted"} => ~dirs'[e].exists /\ ~mats'[e].released
           /\ mats'[e].st \in {"none", "wanted", "made"} => ~dirs'[e].reg
           /\ alive /\ mats'[e].st = "adding" => dirs'[e].reg /\ dirs'[e].lock = "init"
           /\ mats'[e].released => mats'[e].st = "gone"
    BY <1>1 DEF DirsAreOwn, OwnMove
  <2> QED BY <2>1, <2>2, <2>3 DEF DirsAreOwn
<1>4. ListIsOld'
  <2>1. \A k \in Dispatches : mats'[k].st \in {"none", "wanted"} => mats[k].st \in {"none", "wanted"}
    BY <1>1 DEF OwnMove
  <2>2. \A k \in Dispatches : mats'[k].st \in Begun => mats[k].st \in Begun
    BY <1>1 DEF OwnMove, Begun
  <2>3. \A k \in DOMAIN gc.list : ~dirs'[k].foreign
    BY DEF ListIsOld, OwnMove, WorktreesAre, GcShape
  <2> QED BY <1>1, <2>1, <2>2, <2>3 DEF ListIsOld
<1>5. TakesStale'
  <2> SUFFICES ASSUME gc.at # -1
               PROVE  TakesStale'
    BY DEF TakesStale
  <2>1. gc.at # 0 => gc.at \in Dispatches
    BY DirsApart DEF WorktreesAre, GcShape
  <2>2. gc.at = d => mats[d].st \notin {"none", "wanted"}
    BY DEF ListIsOld, TakesStale
  <2>3. ASSUME gc.at # 0, mats'[gc.at].st \in InUse PROVE ~dirs'[gc.at].fresh
    BY <1>1, <2>1, <2>2, <2>3 DEF TakesStale, OwnMove
  <2>4. ASSUME gc.at # 0, gc.git PROVE mats'[gc.at].st \notin Begun
    BY <1>1, <2>1, <2>4 DEF TakesStale, OwnMove, Begun
  <2> QED BY <1>1, <2>3, <2>4 DEF TakesStale
<1>6. DueIsSwept'
  <2>1. \A k \in gc.due : k = 0 /\ dirs'[k] = dirs[k]
    BY <1>1 DEF DueIsSwept
  <2> QED BY <2>1 DEF DueIsSwept, Swept
<1>7. OnlyStaleRemoved'
  BY <1>1 DEF OnlyStaleRemoved, OwnMove
<1> QED BY <1>2, <1>3, <1>4, <1>5, <1>6, <1>7

\* One step of a removal.
LEMMA RemovedIs ==
  ASSUME NEW k \in Dirs, dirs = [j \in Dirs |-> dirs[j]], DirShape(dirs[k]), dirs[k].lock # "none" => dirs[k].reg,
         NEW step \in {"sweep", "rm", "admin"}
  PROVE  \E y : /\ Removed(k, step) = [dirs EXCEPT ![k] = y] /\ DirShape(y)
                /\ y.fresh = dirs[k].fresh /\ y.foreign = dirs[k].foreign
                /\ y.lock # "none" => y.reg /\ y.lock = dirs[k].lock
                /\ y.exists = (step # "rm" /\ dirs[k].exists)
                /\ y.reg = (step # "admin" /\ dirs[k].reg)
                /\ step # "admin" => y.lock = dirs[k].lock
<1>1. CASE step = "sweep"
  <2>1. PICK y : y = [dirs[k] EXCEPT !.links = FALSE]
    OBVIOUS
  <2>2. y = [exists |-> dirs[k].exists, reg |-> dirs[k].reg, lock |-> dirs[k].lock, links |-> FALSE,
             fresh |-> dirs[k].fresh, foreign |-> dirs[k].foreign]
    BY <2>1 DEF DirShape
  <2>3. DirShape(y)
    BY <2>2 DEF DirShape
  <2>4. Removed(k, step) = [dirs EXCEPT ![k] = y]
    BY <1>1, <2>1 DEF Removed
  <2> QED BY <1>1, <2>2, <2>3, <2>4 DEF DirShape
<1>2. CASE step = "rm"
  <2>1. PICK y : y = [dirs[k] EXCEPT !.exists = FALSE, !.links = FALSE]
    OBVIOUS
  <2>2. y = [exists |-> FALSE, reg |-> dirs[k].reg, lock |-> dirs[k].lock, links |-> FALSE,
             fresh |-> dirs[k].fresh, foreign |-> dirs[k].foreign]
    BY <2>1 DEF DirShape
  <2>3. DirShape(y)
    BY <2>2 DEF DirShape
  <2>4. Removed(k, step) = [dirs EXCEPT ![k] = y]
    BY <1>2, <2>1 DEF Removed
  <2> QED BY <1>2, <2>2, <2>3, <2>4 DEF DirShape
<1>3. CASE step = "admin"
  <2>1. PICK y : y = [dirs[k] EXCEPT !.reg = FALSE, !.lock = "none"]
    OBVIOUS
  <2>2. y = [exists |-> dirs[k].exists, reg |-> FALSE, lock |-> "none", links |-> dirs[k].links,
             fresh |-> dirs[k].fresh, foreign |-> dirs[k].foreign]
    BY <2>1 DEF DirShape
  <2>3. DirShape(y)
    BY <2>2 DEF DirShape
  <2>4. Removed(k, step) = [dirs EXCEPT ![k] = y]
    BY <1>3, <2>1 DEF Removed
  <2> QED BY <1>3, <2>2, <2>3, <2>4 DEF DirShape
<1> QED BY <1>1, <1>2, <1>3

LEMMA OwnMoves ==
  ASSUME CleanupInv, ReferenceInv, NEW d \in Dispatches,
         \/ MakeDir(d) \/ AddWorktree(d) \/ CopyUntracked(d) \/ LinkModules(d) \/ CheckDrift(d) \/ Abandon(d)
         \/ RemoveOwn(d)
  PROVE  CleanupInv'
<1> USE DEF CleanupInv
<1>1. MatShape(mats[d]) /\ mats = [e \in Dispatches |-> mats[e]]
  BY DEF ReferenceInv, DispatchesAre
<1>2. DirShape(dirs[d]) /\ dirs = [k \in Dirs |-> dirs[k]] /\ d \in Dirs
  BY DirsApart DEF WorktreesAre
<1>3. alive /\ UNCHANGED <<gc, alive>>
  BY DEF MakeDir, AddWorktree, CopyUntracked, LinkModules, CheckDrift, Abandon, RemoveOwn
<1>4. \A e \in Dispatches : e # d => mats'[e] = mats[e]
  BY <1>1 DEF MakeDir, AddWorktree, CopyUntracked, LinkModules, CheckDrift, Abandon, RemoveOwn
<1>5. PICK x, m : x = dirs'[d] /\ m = mats'[d]
  OBVIOUS
<1>6. ASSUME UNCHANGED dirs PROVE dirs' = [k \in Dirs |-> IF k = d THEN x ELSE dirs[k]] /\ x = dirs[d]
  BY <1>2, <1>5, <1>6
<1>7. ASSUME NEW y, dirs' = [dirs EXCEPT ![d] = y] PROVE dirs' = [k \in Dirs |-> IF k = d THEN x ELSE dirs[k]] /\ x = y
  BY <1>2, <1>5, <1>7
<1>8. /\ ~dirs[d].foreign /\ dirs[d].lock # "user" /\ (dirs[d].lock # "none" => dirs[d].reg)
      /\ (mats[d].st \in {"none", "wanted", "made"} => ~dirs[d].reg) /\ (mats[d].released => mats[d].st = "gone")
      /\ (mats[d].st = "adding" => dirs[d].reg /\ dirs[d].lock = "init")
      /\ dirs[d].fresh /\ mats[d].st \in InUse =>
           /\ dirs[d].exists
           /\ mats[d].st \in {"adding", "added", "copied", "linked", "ready"} => dirs[d].reg
           /\ mats[d].st \in {"linked", "ready"} => dirs[d].links
  BY <1>2, <1>3 DEF DirsAreOwn, OnlyStaleRemoved
<1>9. CASE MakeDir(d) /\ m.st = "made"
  <2>1. dirs' = [dirs EXCEPT ![d].exists = TRUE] /\ mats[d].st = "wanted" /\ m.released = mats[d].released
    BY <1>1, <1>5, <1>9 DEF MakeDir, MatShape
  <2>2. PICK y : y = [dirs[d] EXCEPT !.exists = TRUE]
    OBVIOUS
  <2>3. y = [exists |-> TRUE, reg |-> dirs[d].reg, lock |-> dirs[d].lock, links |-> dirs[d].links,
             fresh |-> dirs[d].fresh, foreign |-> dirs[d].foreign]
    BY <1>2, <2>2 DEF DirShape
  <2>4. DirShape(y)
    BY <1>2, <2>3 DEF DirShape
  <2>5. dirs' = [k \in Dirs |-> IF k = d THEN x ELSE dirs[k]] /\ x = y
    BY <1>7, <2>1, <2>2
  <2>6. OwnMove(d, m, x)
    <3>1. /\ DirShape(x) /\ x.fresh = dirs[d].fresh /\ ~x.foreign /\ x.lock = dirs[d].lock
          /\ x.reg = dirs[d].reg /\ x.exists
      BY <1>8, <2>3, <2>4, <2>5
    <3>2. m.st = "made" /\ mats[d].st = "wanted" /\ ~m.released /\ mats'[d] = m /\ ~dirs[d].reg
      BY <1>5, <1>8, <1>9, <2>1
    <3> QED BY <1>4, <1>8, <2>5, <3>1, <3>2 DEF OwnMove, Begun, InUse
  <2> QED BY <1>3, <2>6, OwnMoveStands
<1>10. CASE MakeDir(d) /\ m.st # "made"
  <2>1. UNCHANGED dirs /\ mats[d].st = "wanted" /\ m.released = mats[d].released /\ m.st = "gone"
    BY <1>1, <1>5, <1>10 DEF MakeDir, MatShape
  <2>2. OwnMove(d, m, x)
    BY <1>2, <1>4, <1>5, <1>6, <1>8, <2>1 DEF OwnMove, Begun, InUse
  <2> QED BY <1>3, <2>2, OwnMoveStands
<1>11. CASE AddWorktree(d) /\ mats[d].st = "made"
  <2>1. dirs' = [dirs EXCEPT ![d].reg = TRUE, ![d].lock = "init"] /\ m.st = "adding" /\ m.released = mats[d].released
    BY <1>1, <1>5, <1>11 DEF AddWorktree, MatShape
  <2>2. PICK y : y = [dirs[d] EXCEPT !.reg = TRUE, !.lock = "init"]
    OBVIOUS
  <2>3. y = [exists |-> dirs[d].exists, reg |-> TRUE, lock |-> "init", links |-> dirs[d].links,
             fresh |-> dirs[d].fresh, foreign |-> dirs[d].foreign]
    BY <1>2, <2>2 DEF DirShape
  <2>4. DirShape(y)
    BY <1>2, <2>3 DEF DirShape
  <2>5. dirs' = [k \in Dirs |-> IF k = d THEN x ELSE dirs[k]] /\ x = y
    <3>1. PICK listed : listed = [dirs[d] EXCEPT !.reg = TRUE]
      OBVIOUS
    <3>2. y = [listed EXCEPT !.lock = "init"] /\ d \in DOMAIN dirs
      BY <1>2, <2>2, <3>1
    <3>3. [dirs EXCEPT ![d].reg = TRUE] = [dirs EXCEPT ![d] = listed]
      BY <3>1
    <3>4. dirs' = [[dirs EXCEPT ![d] = listed] EXCEPT ![d].lock = "init"]
      BY <2>1, <3>3
    <3>5. [dirs EXCEPT ![d] = listed][d] = listed
      BY <3>2
    <3>6. dirs' = [dirs EXCEPT ![d] = y]
      BY <3>2, <3>4, <3>5
    <3> QED BY <1>7, <3>6
  <2>6. /\ DirShape(x) /\ x.fresh = dirs[d].fresh /\ ~x.foreign /\ x.lock = "init" /\ x.reg
        /\ x.exists = dirs[d].exists
    BY <1>8, <2>3, <2>4, <2>5
  <2>7. m.st = "adding" /\ mats[d].st = "made" /\ ~m.released /\ mats'[d] = m
    BY <1>5, <1>8, <1>11, <2>1
  <2>8. dirs[d].fresh => x.exists
    BY <1>8, <2>6, <2>7 DEF InUse
  <2>9. OwnMove(d, m, x)
    BY <1>4, <2>5, <2>6, <2>7, <2>8 DEF OwnMove, Begun, InUse
  <2> QED BY <1>3, <2>9, OwnMoveStands
<1>12. CASE AddWorktree(d) /\ mats[d].st # "made"
  <2>1. mats[d].st = "adding" /\ m.st = "added" /\ m.released = mats[d].released
    BY <1>1, <1>5, <1>12 DEF AddWorktree, MatShape
  <2>2. PICK lock \in {"own", "none"} : dirs' = [dirs EXCEPT ![d].lock = lock]
    BY <1>12 DEF AddWorktree
  <2>3. PICK y : y = [dirs[d] EXCEPT !.lock = lock]
    OBVIOUS
  <2>4. y = [exists |-> dirs[d].exists, reg |-> dirs[d].reg, lock |-> lock, links |-> dirs[d].links,
             fresh |-> dirs[d].fresh, foreign |-> dirs[d].foreign]
    BY <1>2, <2>3 DEF DirShape
  <2>5. DirShape(y)
    BY <1>2, <2>4 DEF DirShape
  <2>6. dirs' = [k \in Dirs |-> IF k = d THEN x ELSE dirs[k]] /\ x = y
    BY <1>7, <2>2, <2>3
  <2>7. /\ DirShape(x) /\ x.fresh = dirs[d].fresh /\ ~x.foreign /\ x.lock \in {"own", "none"}
        /\ x.reg = dirs[d].reg /\ x.exists = dirs[d].exists
    BY <1>8, <2>4, <2>5, <2>6
  <2>8. m.st = "added" /\ mats[d].st = "adding" /\ ~m.released /\ mats'[d] = m /\ dirs[d].reg
    BY <1>5, <1>8, <2>1
  <2>9. dirs[d].fresh => x.exists
    BY <1>8, <2>7, <2>8 DEF InUse
  <2>10. OwnMove(d, m, x)
    BY <1>4, <2>6, <2>7, <2>8, <2>9 DEF OwnMove, Begun, InUse
  <2> QED BY <1>3, <2>10, OwnMoveStands
<1>13. CASE CopyUntracked(d)
  <2>1. UNCHANGED dirs /\ m.released = mats[d].released /\ mats[d].st = "added" /\ m.st = "copied"
    BY <1>1, <1>5, <1>13 DEF CopyUntracked, MatShape
  <2>2. OwnMove(d, m, x)
    BY <1>2, <1>4, <1>5, <1>6, <1>8, <2>1 DEF OwnMove, Begun, InUse
  <2> QED BY <1>3, <2>2, OwnMoveStands
<1>17. CASE CheckDrift(d)
  <2>0. PICK exact : mats' = [mats EXCEPT ![d].st = "ready", ![d].exact = exact]
    BY <1>17, Zenon DEF CheckDrift
  <2>1. UNCHANGED dirs /\ m.released = mats[d].released /\ mats[d].st = "linked" /\ m.st = "ready"
    BY <1>1, <1>5, <1>17, <2>0 DEF CheckDrift, MatShape
  <2>2. OwnMove(d, m, x)
    BY <1>2, <1>4, <1>5, <1>6, <1>8, <2>1 DEF OwnMove, Begun, InUse
  <2> QED BY <1>3, <2>2, OwnMoveStands
<1>14. CASE LinkModules(d)
  <2>1. dirs' = [dirs EXCEPT ![d].links = TRUE] /\ mats[d].st = "copied" /\ m.st = "linked" /\ m.released = mats[d].released
    BY <1>1, <1>5, <1>14 DEF LinkModules, MatShape
  <2>2. PICK y : y = [dirs[d] EXCEPT !.links = TRUE]
    OBVIOUS
  <2>3. y = [exists |-> dirs[d].exists, reg |-> dirs[d].reg, lock |-> dirs[d].lock, links |-> TRUE,
             fresh |-> dirs[d].fresh, foreign |-> dirs[d].foreign]
    BY <1>2, <2>2 DEF DirShape
  <2>4. DirShape(y)
    BY <1>2, <2>3 DEF DirShape
  <2>5. dirs' = [k \in Dirs |-> IF k = d THEN x ELSE dirs[k]] /\ x = y
    BY <1>7, <2>1, <2>2
  <2>6. OwnMove(d, m, x)
    <3>1. /\ DirShape(x) /\ x.fresh = dirs[d].fresh /\ ~x.foreign /\ x.lock = dirs[d].lock
          /\ x.reg = dirs[d].reg /\ x.exists = dirs[d].exists /\ x.links
      BY <1>8, <2>3, <2>4, <2>5
    <3>2. m.st = "linked" /\ mats[d].st = "copied" /\ ~m.released /\ mats'[d] = m
      BY <1>5, <1>8, <2>1
    <3>3. dirs[d].fresh => x.exists /\ x.reg
      BY <1>8, <3>1, <3>2 DEF InUse
    <3> QED BY <1>4, <1>8, <2>5, <3>1, <3>2, <3>3 DEF OwnMove, Begun, InUse
  <2> QED BY <1>3, <2>6, OwnMoveStands
<1>15. CASE Abandon(d)
  <2>1. UNCHANGED dirs /\ m.released = mats[d].released /\ mats[d].st \in InUse /\ m.st = "sweep"
    BY <1>1, <1>5, <1>15 DEF Abandon, MatShape
  <2>2. OwnMove(d, m, x)
    BY <1>2, <1>4, <1>5, <1>6, <1>8, <2>1 DEF OwnMove, Begun, InUse
  <2> QED BY <1>3, <2>2, OwnMoveStands
<1>16. CASE RemoveOwn(d)
  <2>1. mats[d].st \in {"sweep", "rm", "admin"}
    BY <1>16 DEF RemoveOwn, StepAfter
  <2>2. CASE dirs' = Removed(d, mats[d].st) /\ mats' = [mats EXCEPT ![d].st = StepAfter[@]]
    <3>1. m.st \in {"rm", "admin", "gone"} /\ m.released = mats[d].released
      BY <1>1, <1>5, <2>1, <2>2 DEF MatShape, StepAfter
    <3>2. PICK y : dirs' = [dirs EXCEPT ![d] = y] /\ DirShape(y) /\ y.fresh = dirs[d].fresh
                   /\ y.foreign = dirs[d].foreign /\ (y.lock # "none" => y.reg /\ y.lock = dirs[d].lock)
      <4>1. PICK step \in {"sweep", "rm", "admin"} : step = mats[d].st
        BY <2>1
      <4>2. dirs' = Removed(d, step)
        BY <2>2, <4>1
      <4> QED BY <1>2, <1>8, <4>2, RemovedIs
    <3>3. dirs' = [k \in Dirs |-> IF k = d THEN x ELSE dirs[k]] /\ x = y
      BY <1>7, <3>2
    <3>4. OwnMove(d, m, x)
      BY <1>4, <1>5, <1>8, <2>1, <3>1, <3>2, <3>3 DEF OwnMove, Begun, InUse
    <3> QED BY <1>3, <3>4, OwnMoveStands
  <2>3. CASE mats' = [mats EXCEPT ![d].st = "gone", ![d].released = TRUE] /\ UNCHANGED dirs
    <3>1. m.st = "gone"
      BY <1>1, <1>5, <2>3 DEF MatShape
    <3>2. OwnMove(d, m, x)
      BY <1>2, <1>4, <1>5, <1>6, <1>8, <2>1, <2>3, <3>1 DEF OwnMove, Begun, InUse
    <3> QED BY <1>3, <3>2, OwnMoveStands
  <2> QED BY <1>16, <2>2, <2>3 DEF RemoveOwn
<1> QED BY <1>9, <1>10, <1>11, <1>12, <1>13, <1>14, <1>15, <1>16, <1>17

LEMMA CollectionBegins ==
  ASSUME CleanupInv, NEW by \in {"me", "other"}, GcList(by)
  PROVE  CleanupInv'
<1> USE DEF CleanupInv
<1>1. UNCHANGED <<dirs, mats, alive>> /\ gc.phase = "off"
  BY DEF GcList
<1>2. PICK entries : entries = {k \in Dirs : dirs[k].reg}
  OBVIOUS
<1>3. PICK listed : listed = [k \in entries |-> dirs[k].lock]
  OBVIOUS
<1>4. PICK due : due = {k \in Dirs : ~OwnerAlive(k) /\ ~dirs[k].foreign /\ dirs[k].lock # "user"
                                     /\ (dirs[k].exists \/ dirs[k].reg)}
  OBVIOUS
<1>5. PICK y : y = [gc EXCEPT !.phase = "entries", !.by = by, !.list = listed, !.todo = entries, !.due = due]
  OBVIOUS
<1>6. gc' = y
  BY <1>2, <1>3, <1>4, <1>5 DEF GcList
<1>7. y = [phase |-> "entries", by |-> by, list |-> listed, todo |-> entries, at |-> gc.at, step |-> gc.step,
           git |-> gc.git, ok |-> gc.ok, due |-> due]
  BY <1>5 DEF WorktreesAre, GcShape
<1>8. /\ gc'.phase = "entries" /\ gc'.list = listed /\ gc'.todo = entries /\ gc'.at = gc.at /\ gc'.due = due
      /\ gc'.ok = gc.ok /\ gc'.step = gc.step
  BY <1>6, <1>7
<1>9. DOMAIN listed = entries /\ entries \subseteq Dirs /\ \A k \in entries : listed[k] = dirs[k].lock /\ dirs[k].reg
  BY <1>2, <1>3
<1>10. WorktreesAre'
  <2>1. due \subseteq Dirs
    BY <1>4
  <2>2. \A k \in DOMAIN listed : listed[k] \in {"none", "init", "own", "user"}
    BY <1>9 DEF WorktreesAre, DirShape
  <2>3. GcShape(y)
    BY <1>7, <1>9, <2>1, <2>2 DEF WorktreesAre, GcShape
  <2> QED BY <1>1, <1>6, <2>3 DEF WorktreesAre
<1>11. DirsAreOwn'
  BY <1>1 DEF DirsAreOwn
<1>12. gc.at = -1
  BY <1>1 DEF ListIsOld
<1>13. ListIsOld'
  <2>1. \A k \in Dispatches \cap entries : mats[k].st \notin {"none", "wanted", "made"}
    BY <1>9 DEF DirsAreOwn
  <2>2. \A k \in Dispatches \cap entries : alive /\ listed[k] # "init" => mats[k].st \notin Begun
    BY <1>9, <2>1 DEF DirsAreOwn, Begun
  <2>3. \A k \in entries : ~dirs[k].foreign
    BY <1>9 DEF DirsAreOwn
  <2>4. dirs[0].lock = "user" => 0 \in entries /\ listed[0] = "user"
    BY <1>2, <1>9, DirsApart DEF DirsAreOwn
  <2> QED BY <1>1, <1>8, <1>9, <2>1, <2>2, <2>3, <2>4 DEF ListIsOld
<1>14. TakesStale' /\ OnlyStaleRemoved'
  BY <1>1, <1>8, <1>12 DEF TakesStale, OnlyStaleRemoved
<1>15. DueIsSwept'
  <2>1. \A k \in due : (k = 0 \/ ~alive) /\ ~dirs[k].foreign /\ dirs[k].lock # "user" /\ k \in Dirs
    BY <1>4 DEF OwnerAlive
  <2>2. \A k \in due : k \in entries => listed[k] # "user"
    BY <1>9, <2>1
  <2>3. \A k \in due : k \notin entries => ~dirs[k].reg
    BY <1>2, <2>1
  <2>4. \A k \in due : k # gc.at
    BY <1>12, <2>1, DirsApart
  <2> QED BY <1>1, <1>8, <1>9, <2>1, <2>2, <2>3, <2>4 DEF DueIsSwept, Swept
<1> QED BY <1>10, <1>11, <1>13, <1>14, <1>15

\* One of the listed or of the temp directory is passed over: it was not left over.
LEMMA PassedOver ==
  ASSUME CleanupInv, NEW k \in Dirs, gc.at = -1, k \in gc.todo, UNCHANGED <<dirs, mats, alive>>,
         gc' = [gc EXCEPT !.todo = @ \ {k}],
         k \in gc.due /\ gc.ok => gc.phase = "orphans" /\ (k \in DOMAIN gc.list \/ ~dirs[k].exists)
  PROVE  CleanupInv'
<1> USE DEF CleanupInv
<1>1. PICK todo : todo = gc.todo \ {k}
  OBVIOUS
<1>2. gc' = [phase |-> gc.phase, by |-> gc.by, list |-> gc.list, todo |-> todo, at |-> gc.at, step |-> gc.step,
             git |-> gc.git, ok |-> gc.ok, due |-> gc.due]
  BY <1>1 DEF WorktreesAre, GcShape
<1>3. /\ gc'.phase = gc.phase /\ gc'.list = gc.list /\ gc'.todo = todo /\ gc'.at = -1 /\ gc'.due = gc.due
      /\ gc'.ok = gc.ok /\ gc'.step = gc.step
  BY <1>2
<1>4. WorktreesAre'
  BY <1>1, <1>2 DEF WorktreesAre, GcShape
<1>5. DirsAreOwn' /\ OnlyStaleRemoved' /\ TakesStale'
  BY <1>3 DEF DirsAreOwn, OnlyStaleRemoved, TakesStale
<1>6. ListIsOld'
  BY <1>1, <1>3 DEF ListIsOld
<1>7. DueIsSwept'
  <2>1. ASSUME NEW j \in gc.due, gc.ok
        PROVE  /\ gc.phase = "entries" /\ j \in DOMAIN gc.list => j \in todo \/ Swept(j)
               /\ gc.phase = "orphans" /\ j \notin DOMAIN gc.list => j \in todo \/ ~dirs[j].exists
    BY <1>1, <2>1 DEF DueIsSwept
  <2>2. \A j \in gc.due : j # -1
    BY DirsApart DEF WorktreesAre, GcShape
  <2> QED BY <1>3, <2>1, <2>2 DEF DueIsSwept, Swept
<1> QED BY <1>4, <1>5, <1>6, <1>7

\* One is taken: it is stale.
LEMMA Taken ==
  ASSUME CleanupInv, NEW k \in Dirs, gc.at = -1, k \in gc.todo, UNCHANGED <<dirs, mats, alive>>,
         gc.phase \in {"entries", "orphans"}, NEW git \in BOOLEAN, git <=> gc.phase = "entries",
         gc' = [gc EXCEPT !.at = k, !.step = "sweep", !.git = git],
         k # 0 /\ alive /\ mats[k].st \in InUse => ~dirs[k].fresh,
         k # 0 /\ alive /\ git => mats[k].st \notin Begun,
         k = 0 => ~dirs[0].foreign /\ dirs[0].lock # "user"
  PROVE  CleanupInv'
<1> USE DEF CleanupInv
<1>1. gc' = [phase |-> gc.phase, by |-> gc.by, list |-> gc.list, todo |-> gc.todo, at |-> k, step |-> "sweep",
             git |-> git, ok |-> gc.ok, due |-> gc.due]
  BY DEF WorktreesAre, GcShape
<1>2. /\ gc'.phase = gc.phase /\ gc'.list = gc.list /\ gc'.todo = gc.todo /\ gc'.at = k /\ gc'.due = gc.due
      /\ gc'.ok = gc.ok /\ gc'.step = "sweep" /\ gc'.git = git
  BY <1>1
<1>3. WorktreesAre'
  BY <1>1 DEF WorktreesAre, GcShape
<1>4. DirsAreOwn' /\ OnlyStaleRemoved'
  BY DEF DirsAreOwn, OnlyStaleRemoved
<1>5. ListIsOld'
  BY <1>2 DEF ListIsOld
<1>6. TakesStale'
  BY <1>2 DEF TakesStale
<1>7. DueIsSwept'
  BY <1>2 DEF DueIsSwept, Swept
<1> QED BY <1>3, <1>4, <1>5, <1>6, <1>7

LEMMA EntryIsRight ==
  ASSUME CleanupInv, NEW k \in Dirs, GcEntry(k)
  PROVE  CleanupInv'
<1> USE DEF CleanupInv
<1>1. /\ gc.phase = "entries" /\ gc.at = -1 /\ k \in gc.todo /\ (Mine => alive) /\ UNCHANGED <<dirs, mats, alive>>
  BY DEF GcEntry, GcMoves
<1>2. PICK lock : lock = gc.list[k]
  OBVIOUS
<1>3. lock \in {"none", "init", "own", "user"} /\ k \in DOMAIN gc.list
  BY <1>1, <1>2 DEF WorktreesAre, GcShape, ListIsOld
<1> DEFINE kept == (lock # "none" /\ ~isOwnLockReason(lock)) \/ (Mine /\ Active(k))
           collect == IF lock = "init" THEN (Mine /\ Released(k)) \/ ~OwnerAlive(k) ELSE isStale(k)
<1>4. CASE ~kept /\ collect
  <2>1. gc' = [gc EXCEPT !.at = k, !.step = "sweep", !.git = TRUE]
    BY <1>2, <1>4 DEF GcEntry
  <2>2. lock # "user"
    BY <1>4 DEF isOwnLockReason
  <2>3. k # 0 => k \in Dispatches
    BY DirsApart
  <2>4. ASSUME k # 0, alive PROVE /\ mats[k].st \in InUse => ~dirs[k].fresh
                                  /\ mats[k].st \notin Begun
    <3>1. OwnerAlive(k)
      BY <2>4 DEF OwnerAlive
    <3>2. CASE lock = "init"
      <4>1. mats[k].st = "gone"
        BY <1>4, <2>3, <2>4, <3>1, <3>2 DEF Released, DirsAreOwn
      <4> QED BY <4>1 DEF InUse, Begun
    <3>3. CASE lock # "init"
      <4>1. isStale(k)
        BY <1>4, <3>3
      <4>2. mats[k].st \notin Begun
        BY <1>2, <1>3, <2>3, <2>4, <3>3 DEF ListIsOld
      <4>3. ~dirs[k].exists \/ mats[k].released \/ ~dirs[k].fresh
        BY <3>1, <4>1 DEF isStale, Released
      <4>4. mats[k].st \in InUse => ~mats[k].released
        BY <2>3, <2>4 DEF DirsAreOwn, InUse
      <4>5. mats[k].st \in InUse /\ dirs[k].fresh => dirs[k].exists
        BY <2>3, <2>4 DEF OnlyStaleRemoved
      <4> QED BY <4>2, <4>3, <4>4, <4>5
    <3> QED BY <3>2, <3>3
  <2>5. k = 0 => ~dirs[0].foreign /\ dirs[0].lock # "user"
    BY <1>1, <1>2, <1>3, <2>2 DEF ListIsOld
  <2>6. PICK git \in BOOLEAN : git = TRUE
    OBVIOUS
  <2>7. gc' = [gc EXCEPT !.at = k, !.step = "sweep", !.git = git]
    BY <2>1, <2>6
  <2> QED BY <1>1, <2>4, <2>5, <2>6, <2>7, Taken
<1>5. CASE ~(~kept /\ collect)
  <2>1. gc' = [gc EXCEPT !.todo = @ \ {k}]
    BY <1>2, <1>5 DEF GcEntry
  <2>2. k \notin gc.due
    <3> SUFFICES ASSUME k \in gc.due PROVE ~kept /\ collect
      BY <1>5
    <3>1. (k = 0 \/ ~alive) /\ lock # "user"
      BY <1>2, <1>3 DEF DueIsSwept
    <3>2. ~(Mine /\ Active(k)) /\ ~OwnerAlive(k)
      BY <1>1, <3>1 DEF Active, OwnerAlive
    <3>3. lock = "none" \/ isOwnLockReason(lock)
      BY <1>3, <3>1 DEF isOwnLockReason
    <3> QED BY <3>2, <3>3 DEF isStale
  <2> QED BY <1>1, <2>1, <2>2, PassedOver
<1> QED BY <1>4, <1>5

LEMMA OrphanIsRight ==
  ASSUME CleanupInv, NEW k \in Dirs, GcOrphan(k)
  PROVE  CleanupInv'
<1> USE DEF CleanupInv
<1>1. /\ gc.phase = "orphans" /\ gc.at = -1 /\ k \in gc.todo /\ (Mine => alive) /\ UNCHANGED <<dirs, mats, alive>>
  BY DEF GcOrphan, GcMoves
<1> DEFINE taken == dirs[k].exists /\ k \notin DOMAIN gc.list /\ ~(Mine /\ Active(k)) /\ isStale(k) /\ ~dirs[k].foreign
<1>2. k # 0 => k \in Dispatches
  BY DirsApart
<1>3. CASE taken
  <2>1. gc' = [gc EXCEPT !.at = k, !.step = "sweep", !.git = FALSE]
    BY <1>3 DEF GcOrphan
  <2>2. PICK git \in BOOLEAN : git = FALSE
    OBVIOUS
  <2>3. gc' = [gc EXCEPT !.at = k, !.step = "sweep", !.git = git]
    BY <2>1, <2>2
  <2>4. ASSUME k # 0, alive, mats[k].st \in InUse PROVE ~dirs[k].fresh
    <3>1. OwnerAlive(k) /\ dirs[k].exists
      BY <1>3, <2>4 DEF OwnerAlive
    <3>2. ~mats[k].released
      BY <1>2, <2>4 DEF DirsAreOwn, InUse
    <3> QED BY <1>3, <3>1, <3>2 DEF isStale, Released
  <2>5. k = 0 => ~dirs[0].foreign /\ dirs[0].lock # "user"
    BY <1>1, <1>3 DEF ListIsOld
  <2> QED BY <1>1, <2>2, <2>3, <2>4, <2>5, Taken
<1>4. CASE ~taken
  <2>1. gc' = [gc EXCEPT !.todo = @ \ {k}]
    BY <1>4 DEF GcOrphan
  <2>2. ASSUME k \in gc.due PROVE k \in DOMAIN gc.list \/ ~dirs[k].exists
    <3>1. (k = 0 \/ ~alive) /\ ~dirs[k].foreign
      BY <2>2 DEF DueIsSwept
    <3>2. ~(Mine /\ Active(k)) /\ ~OwnerAlive(k)
      BY <1>1, <3>1 DEF Active, OwnerAlive
    <3> QED BY <1>4, <3>1, <3>2 DEF isStale
  <2> QED BY <1>1, <2>1, <2>2, PassedOver
<1> QED BY <1>3, <1>4

LEMMA ScanIsRight ==
  ASSUME CleanupInv, GcScan
  PROVE  CleanupInv'
<1> USE DEF CleanupInv
<1>1. gc.phase = "entries" /\ gc.todo = {} /\ UNCHANGED <<dirs, mats, alive>>
  BY DEF GcScan
<1>2. PICK todo : todo = {k \in Dirs : dirs[k].exists}
  OBVIOUS
<1>3. gc' = [phase |-> "orphans", by |-> gc.by, list |-> gc.list, todo |-> todo, at |-> gc.at, step |-> gc.step,
             git |-> gc.git, ok |-> gc.ok, due |-> gc.due]
  BY <1>2 DEF GcScan, WorktreesAre, GcShape
<1>4. gc.at = -1
  BY <1>1 DEF TakesStale
<1>5. /\ gc'.phase = "orphans" /\ gc'.list = gc.list /\ gc'.todo = todo /\ gc'.at = -1 /\ gc'.due = gc.due
      /\ gc'.ok = gc.ok /\ gc'.step = gc.step
  BY <1>3, <1>4
<1>6. WorktreesAre'
  BY <1>1, <1>2, <1>3 DEF WorktreesAre, GcShape
<1>7. DirsAreOwn' /\ OnlyStaleRemoved' /\ TakesStale'
  BY <1>1, <1>5 DEF DirsAreOwn, OnlyStaleRemoved, TakesStale
<1>8. ListIsOld'
  <2>1. \A k \in Dispatches : k \in todo => mats[k].st \notin {"none", "wanted"}
    BY <1>2 DEF DirsAreOwn
  <2> QED BY <1>1, <1>5, <2>1 DEF ListIsOld
<1>9. DueIsSwept'
  <2>1. gc.due \subseteq Dirs
    BY DEF WorktreesAre, GcShape
  <2>2. \A k \in gc.due : k \in todo \/ ~dirs[k].exists
    BY <1>2, <2>1
  <2>3. \A k \in gc.due : k # -1
    BY <2>1, DirsApart
  <2> QED BY <1>1, <1>5, <2>2, <2>3 DEF DueIsSwept, Swept
<1> QED BY <1>6, <1>7, <1>8, <1>9

LEMMA DoneIsRight ==
  ASSUME CleanupInv, GcDone
  PROVE  CleanupInv'
<1> USE DEF CleanupInv
<1>1. gc.phase \in {"entries", "orphans"} /\ gc.at = -1 /\ UNCHANGED <<dirs, mats, alive>>
  BY DEF GcDone, GcMoves
<1>2. PICK ok : ok = (gc.ok /\ gc.phase = "orphans" /\ gc.todo = {})
  OBVIOUS
<1>3. gc' = [phase |-> "done", by |-> gc.by, list |-> gc.list, todo |-> {}, at |-> gc.at, step |-> gc.step,
             git |-> gc.git, ok |-> ok, due |-> gc.due]
  BY <1>2 DEF GcDone, WorktreesAre, GcShape
<1>4. /\ gc'.phase = "done" /\ gc'.list = gc.list /\ gc'.todo = {} /\ gc'.at = -1 /\ gc'.due = gc.due
      /\ gc'.ok = ok
  BY <1>1, <1>3
<1>5. WorktreesAre'
  BY <1>1, <1>2, <1>3 DEF WorktreesAre, GcShape
<1>6. DirsAreOwn' /\ OnlyStaleRemoved' /\ TakesStale'
  BY <1>1, <1>4 DEF DirsAreOwn, OnlyStaleRemoved, TakesStale
<1>7. ListIsOld'
  BY <1>1, <1>4 DEF ListIsOld
<1>8. DueIsSwept'
  <2>1. ASSUME ok, NEW k \in gc.due PROVE Swept(k)
    BY <1>2, <2>1 DEF DueIsSwept, Swept
  <2>2. \A k \in gc.due : k # -1
    BY DirsApart DEF WorktreesAre, GcShape
  <2>3. ok => gc.ok
    BY <1>2
  <2> QED BY <1>1, <1>4, <2>1, <2>2, <2>3 DEF DueIsSwept, Swept
<1> QED BY <1>5, <1>6, <1>7, <1>8

\* A step of the removal does what it should, or it gives up and says so.
LEMMA RemoveIsRight ==
  ASSUME CleanupInv, GcRemove
  PROVE  CleanupInv'
<1> USE DEF CleanupInv
<1> DEFINE k == gc.at
<1>1. UNCHANGED <<mats, alive>> /\ k # -1 /\ k \in Dirs /\ k \in gc.todo /\ gc.phase \in {"entries", "orphans"}
  BY DEF GcRemove, GcMoves, TakesStale, WorktreesAre, GcShape
<1>2. DirShape(dirs[k]) /\ dirs = [j \in Dirs |-> dirs[j]] /\ (dirs[k].lock # "none" => dirs[k].reg)
  BY <1>1 DEF WorktreesAre, DirsAreOwn
<1>3. gc.step \in {"sweep", "rm", "admin"} /\ (~gc.git => gc.step # "admin")
  BY <1>1 DEF TakesStale, WorktreesAre, GcShape
<1>4. k # 0 => k \in Dispatches
  BY <1>1, DirsApart
<1> DEFINE over == (gc.step = "rm" /\ ~gc.git) \/ gc.step = "admin"
<1>5. CASE dirs' = dirs /\ gc' = [gc EXCEPT !.todo = @ \ {k}, !.at = -1, !.step = "none", !.ok = FALSE]
  <2>1. PICK todo : todo = gc.todo \ {k}
    OBVIOUS
  <2>2. gc' = [phase |-> gc.phase, by |-> gc.by, list |-> gc.list, todo |-> todo, at |-> -1, step |-> "none",
               git |-> gc.git, ok |-> FALSE, due |-> gc.due]
    BY <1>5, <2>1 DEF WorktreesAre, GcShape
  <2>3. /\ gc'.phase = gc.phase /\ gc'.list = gc.list /\ gc'.todo = todo /\ gc'.at = -1 /\ gc'.due = gc.due
        /\ ~gc'.ok
    BY <2>2
  <2>4. WorktreesAre'
    <3>1. PICK no : no = FALSE
      OBVIOUS
    <3>2. gc' = [phase |-> gc.phase, by |-> gc.by, list |-> gc.list, todo |-> todo, at |-> -1, step |-> "none",
                 git |-> gc.git, ok |-> no, due |-> gc.due]
      BY <2>2, <3>1
    <3>3. /\ gc.phase \in {"off", "entries", "orphans", "done"} /\ todo \subseteq Dirs /\ gc.due \subseteq Dirs
          /\ {gc.git, no} \subseteq BOOLEAN /\ DOMAIN gc.list \subseteq Dirs
          /\ \A j \in DOMAIN gc.list : gc.list[j] \in {"none", "init", "own", "user"}
      BY <2>1, <3>1 DEF WorktreesAre, GcShape
    <3>4. GcShape(gc')
      BY <3>2, <3>3 DEF GcShape
    <3>5. /\ dirs' = [j \in Dirs |-> dirs'[j]] /\ \A j \in Dirs : DirShape(dirs'[j])
          /\ alive' \in BOOLEAN
      BY <1>1, <1>5 DEF WorktreesAre
    <3> QED BY <3>4, <3>5 DEF WorktreesAre, GcShape, DirShape
  <2>5. DirsAreOwn' /\ OnlyStaleRemoved' /\ TakesStale'
    BY <1>1, <1>5, <2>3 DEF DirsAreOwn, OnlyStaleRemoved, TakesStale
  <2>6. ListIsOld'
    BY <1>1, <1>5, <2>1, <2>3 DEF ListIsOld
  <2>7. DueIsSwept'
    BY <1>1, <1>5, <2>3 DEF DueIsSwept
  <2> QED BY <2>4, <2>5, <2>6, <2>7
<1>6. CASE dirs' = Removed(k, gc.step)
           /\ gc' = IF over THEN [gc EXCEPT !.todo = @ \ {k}, !.at = -1, !.step = "none"]
                    ELSE [gc EXCEPT !.step = StepAfter[@]]
  <2>1. PICK x : /\ dirs' = [dirs EXCEPT ![k] = x] /\ DirShape(x)
                 /\ x.fresh = dirs[k].fresh /\ x.foreign = dirs[k].foreign
                 /\ x.lock # "none" => x.reg /\ x.lock = dirs[k].lock
                 /\ x.exists = (gc.step # "rm" /\ dirs[k].exists)
                 /\ x.reg = (gc.step # "admin" /\ dirs[k].reg)
                 /\ gc.step # "admin" => x.lock = dirs[k].lock
    <3>1. PICK step \in {"sweep", "rm", "admin"} : step = gc.step
      BY <1>3
    <3>2. dirs' = Removed(k, step)
      BY <1>6, <3>1
    <3>3. \E y : /\ Removed(k, step) = [dirs EXCEPT ![k] = y] /\ DirShape(y)
                 /\ y.fresh = dirs[k].fresh /\ y.foreign = dirs[k].foreign
                 /\ y.lock # "none" => y.reg /\ y.lock = dirs[k].lock
                 /\ y.exists = (step # "rm" /\ dirs[k].exists)
                 /\ y.reg = (step # "admin" /\ dirs[k].reg)
                 /\ step # "admin" => y.lock = dirs[k].lock
      <4> HIDE DEF k
      <4>1. k \in Dirs
        BY <1>1
      <4> QED BY ONLY <1>2, <3>1, <4>1, RemovedIs
    <3> QED BY <3>1, <3>2, <3>3
  <2>2. /\ dirs' = [j \in Dirs |-> IF j = k THEN x ELSE dirs[j]] /\ dirs'[k] = x
        /\ \A j \in Dirs : j # k => dirs'[j] = dirs[j]
    BY <1>1, <1>2, <2>1
  <2>3. DirsAreOwn'
    <3>1. \A j \in Dirs : dirs'[j].lock # "none" => dirs'[j].reg
      BY <2>1, <2>2 DEF DirsAreOwn
    <3>2. \A j \in Dirs : dirs'[j].reg => ~dirs'[j].foreign
      BY <1>1, <2>1, <2>2 DEF DirsAreOwn
    <3>3. ASSUME k # 0, alive, mats[k].st = "adding" PROVE x.reg /\ x.lock = "init"
      <4>1. ~gc.git
        BY <1>1, <3>3 DEF TakesStale, Begun
      <4>2. gc.step # "admin"
        BY <1>3, <4>1
      <4> QED BY <1>4, <2>1, <3>3, <4>2 DEF DirsAreOwn
    <3>4. \A d \in Dispatches :
             /\ ~dirs'[d].foreign /\ dirs'[d].lock # "user"
             /\ mats[d].st \in {"none", "wanted"} => ~dirs'[d].exists /\ ~mats[d].released
             /\ mats[d].st \in {"none", "wanted", "made"} => ~dirs'[d].reg
             /\ alive /\ mats[d].st = "adding" => dirs'[d].reg /\ dirs'[d].lock = "init"
             /\ mats[d].released => mats[d].st = "gone"
      <4> SUFFICES ASSUME NEW d \in Dispatches
                   PROVE  /\ ~dirs'[d].foreign /\ dirs'[d].lock # "user"
                          /\ mats[d].st \in {"none", "wanted"} => ~dirs'[d].exists /\ ~mats[d].released
                          /\ mats[d].st \in {"none", "wanted", "made"} => ~dirs'[d].reg
                          /\ alive /\ mats[d].st = "adding" => dirs'[d].reg /\ dirs'[d].lock = "init"
                          /\ mats[d].released => mats[d].st = "gone"
        OBVIOUS
      <4>1. d \in Dirs /\ d # 0
        BY DirsApart
      <4>2. CASE d # k
        BY <2>2, <4>1, <4>2 DEF DirsAreOwn
      <4>3. CASE d = k
        BY <2>1, <2>2, <3>3, <4>1, <4>3 DEF DirsAreOwn
      <4> QED BY <4>2, <4>3
    <3> QED BY <1>1, <3>1, <3>2, <3>4 DEF DirsAreOwn
  <2>4. OnlyStaleRemoved'
    <3>1. ASSUME NEW d \in Dispatches, alive, mats[d].st \in InUse, dirs'[d].fresh PROVE d # k
      BY <1>1, <2>1, <2>2, <3>1, DirsApart DEF TakesStale
    <3>2. dirs'[0].foreign \/ dirs'[0].lock = "user" => dirs'[0].exists
      <4>1. CASE k = 0
        BY <1>1, <2>1, <2>2, <4>1 DEF TakesStale
      <4>2. CASE k # 0
        BY <2>2, <4>2, DirsApart DEF OnlyStaleRemoved
      <4> QED BY <4>1, <4>2
    <3> QED BY <1>1, <2>2, <3>1, <3>2, DirsApart DEF OnlyStaleRemoved
  <2>5. gc.due \subseteq Dirs /\ DOMAIN gc.list \subseteq Dirs
    BY DEF WorktreesAre, GcShape
  <2>6. CASE over
    <3>1. PICK todo : todo = gc.todo \ {k}
      OBVIOUS
    <3>2. gc' = [phase |-> gc.phase, by |-> gc.by, list |-> gc.list, todo |-> todo, at |-> -1, step |-> "none",
                 git |-> gc.git, ok |-> gc.ok, due |-> gc.due]
      BY <1>6, <2>6, <3>1 DEF WorktreesAre, GcShape
    <3>3. /\ gc'.phase = gc.phase /\ gc'.list = gc.list /\ gc'.todo = todo /\ gc'.at = -1 /\ gc'.due = gc.due
          /\ gc'.ok = gc.ok
      BY <3>2
    <3>4. WorktreesAre'
      BY <1>1, <2>1, <2>2, <3>1, <3>2 DEF WorktreesAre, GcShape
    <3>5. TakesStale'
      BY <3>3 DEF TakesStale
    <3>6. ListIsOld'
      <4>1. \A j \in DOMAIN gc.list : ~dirs'[j].foreign
        BY <2>1, <2>2, <2>5 DEF ListIsOld
      <4>2. dirs'[0].lock = "user" => dirs[0].lock = "user"
        BY <2>1, <2>2, DirsApart
      <4> QED BY <1>1, <3>1, <3>3, <4>1, <4>2 DEF ListIsOld
    <3>7. DueIsSwept'
      <4> SUFFICES ASSUME NEW j \in gc.due
                   PROVE  /\ (j = 0 \/ ~alive) /\ ~dirs'[j].foreign
                          /\ j \in DOMAIN gc.list => gc.list[j] # "user"
                          /\ gc.ok =>
                               /\ j \notin DOMAIN gc.list => ~dirs'[j].reg
                               /\ gc.phase = "entries" /\ j \in DOMAIN gc.list => j \in todo \/ Swept(j)'
                               /\ gc.phase = "orphans" /\ j \in DOMAIN gc.list => Swept(j)'
                               /\ gc.phase = "orphans" /\ j \notin DOMAIN gc.list => j \in todo \/ ~dirs'[j].exists
        BY <1>1, <2>5, <3>3, DirsApart DEF DueIsSwept
      <4>1. CASE j # k
        BY <2>2, <2>5, <3>1, <4>1 DEF DueIsSwept, Swept
      <4>2. CASE j = k
        <5>1. gc.phase = "entries" => gc.git
          BY <1>1 DEF TakesStale
        <5>2. gc.phase = "entries" => gc.step = "admin"
          BY <2>6, <5>1
        <5>3. gc.phase = "orphans" => gc.step = "rm"
          BY <1>1, <1>3, <2>6 DEF TakesStale
        <5>4. gc.phase = "entries" /\ gc.ok => ~x.reg /\ ~x.exists
          BY <2>1, <4>2, <5>2 DEF DueIsSwept
        <5>5. gc.phase = "orphans" => ~x.exists
          BY <2>1, <5>3
        <5>6. x.reg => dirs[k].reg
          BY <2>1
        <5> QED BY <1>1, <2>1, <2>2, <4>2, <5>4, <5>5, <5>6 DEF DueIsSwept, Swept
      <4> QED BY <4>1, <4>2
    <3> QED BY <2>3, <2>4, <3>4, <3>5, <3>6, <3>7
  <2>7. CASE ~over
    <3>1. PICK step : step = StepAfter[gc.step]
      OBVIOUS
    <3>2. step \in {"rm", "admin"} /\ (step = "admin" => gc.step = "rm" /\ gc.git)
      BY <1>3, <2>7, <3>1 DEF StepAfter
    <3>3. gc' = [phase |-> gc.phase, by |-> gc.by, list |-> gc.list, todo |-> gc.todo, at |-> gc.at, step |-> step,
                 git |-> gc.git, ok |-> gc.ok, due |-> gc.due]
      BY <1>6, <2>7, <3>1 DEF WorktreesAre, GcShape
    <3>4. /\ gc'.phase = gc.phase /\ gc'.list = gc.list /\ gc'.todo = gc.todo /\ gc'.at = gc.at /\ gc'.due = gc.due
          /\ gc'.ok = gc.ok /\ gc'.step = step /\ gc'.git = gc.git
      BY <3>3
    <3>5. WorktreesAre'
      BY <1>1, <2>1, <2>2, <3>2, <3>3 DEF WorktreesAre, GcShape
    <3>6. TakesStale'
      <4>1. dirs'[k].fresh = dirs[k].fresh
        BY <2>1, <2>2
      <4>2. k = 0 => ~dirs'[0].foreign /\ dirs'[0].lock # "user"
        BY <1>1, <2>1, <2>2 DEF TakesStale
      <4> QED BY <1>1, <3>2, <3>4, <4>1, <4>2 DEF TakesStale
    <3>7. ListIsOld'
      <4>1. \A j \in DOMAIN gc.list : ~dirs'[j].foreign
        BY <2>1, <2>2, <2>5 DEF ListIsOld
      <4>2. dirs'[0].lock = "user" => dirs[0].lock = "user"
        BY <2>1, <2>2, DirsApart
      <4> QED BY <1>1, <3>4, <4>1, <4>2 DEF ListIsOld
    <3>8. DueIsSwept'
      <4>1. ASSUME NEW j \in gc.due
            PROVE  /\ dirs'[j].exists => dirs[j].exists
                   /\ dirs'[j].reg => dirs[j].reg
                   /\ dirs'[j].foreign = dirs[j].foreign
                   /\ j = k /\ step = "admin" => ~dirs'[j].exists
        <5>1. CASE j # k
          BY <2>2, <2>5, <5>1
        <5>2. CASE j = k
          BY <2>1, <2>2, <3>2, <5>2
        <5> QED BY <5>1, <5>2
      <4> QED BY <1>1, <3>4, <4>1 DEF DueIsSwept, Swept
    <3> QED BY <2>3, <2>4, <3>5, <3>6, <3>7, <3>8
  <2> QED BY <2>6, <2>7
<1> QED BY <1>5, <1>6 DEF GcRemove

LEMMA OutsideIsRight ==
  ASSUME CleanupInv, ProcessDies \/ \E k \in Dirs : AgeDir(k)
  PROVE  CleanupInv'
<1> USE DEF CleanupInv
<1>1. CASE ProcessDies
  <2>1. alive' = FALSE /\ UNCHANGED <<dirs, mats, gc>>
    BY <1>1 DEF ProcessDies
  <2>2. alive' \in BOOLEAN
    BY <2>1
  <2>3. WorktreesAre'
    BY <2>1, <2>2 DEF WorktreesAre, GcShape, DirShape
  <2>4. DirsAreOwn' /\ ListIsOld' /\ TakesStale'
    BY <2>1 DEF DirsAreOwn, ListIsOld, TakesStale
  <2>5. DueIsSwept' /\ OnlyStaleRemoved'
    BY <2>1 DEF DueIsSwept, Swept, OnlyStaleRemoved
  <2> QED BY <2>3, <2>4, <2>5
<1>2. ASSUME NEW k \in Dirs, AgeDir(k) PROVE CleanupInv'
  <2>1. UNCHANGED <<mats, gc, alive>> /\ DirShape(dirs[k]) /\ dirs = [j \in Dirs |-> dirs[j]]
    BY <1>2 DEF AgeDir, WorktreesAre
  <2>2. PICK x : x = [dirs[k] EXCEPT !.fresh = FALSE]
    OBVIOUS
  <2>3. x = [exists |-> dirs[k].exists, reg |-> dirs[k].reg, lock |-> dirs[k].lock, links |-> dirs[k].links,
             fresh |-> FALSE, foreign |-> dirs[k].foreign]
    BY <2>1, <2>2 DEF DirShape
  <2>4. dirs' = [j \in Dirs |-> IF j = k THEN x ELSE dirs[j]]
    BY <1>2, <2>1, <2>2 DEF AgeDir
  <2>5. ASSUME NEW j \in Dirs
        PROVE  /\ DirShape(dirs'[j]) /\ dirs'[j].exists = dirs[j].exists /\ dirs'[j].reg = dirs[j].reg
               /\ dirs'[j].lock = dirs[j].lock /\ dirs'[j].links = dirs[j].links
               /\ dirs'[j].foreign = dirs[j].foreign /\ (dirs'[j].fresh => dirs[j].fresh)
    <3>1. DirShape(dirs[j])
      BY DEF WorktreesAre
    <3>2. DirShape(x)
      BY <2>1, <2>3 DEF DirShape
    <3> QED BY <2>3, <2>4, <3>1, <3>2
  <2>6. gc.due \subseteq Dirs /\ DOMAIN gc.list \subseteq Dirs /\ (gc.at # -1 => gc.at \in Dirs)
    BY DEF WorktreesAre, GcShape
  <2>7. WorktreesAre'
    BY <2>1, <2>4, <2>5 DEF WorktreesAre, GcShape
  <2>8. DirsAreOwn'
    BY <2>1, <2>5, DirsApart DEF DirsAreOwn
  <2>9. ListIsOld'
    BY <2>1, <2>5, <2>6, DirsApart DEF ListIsOld
  <2>10. TakesStale'
    BY <2>1, <2>5, <2>6, DirsApart DEF TakesStale
  <2>11. DueIsSwept'
    BY <2>1, <2>5, <2>6 DEF DueIsSwept, Swept
  <2>12. OnlyStaleRemoved'
    BY <2>1, <2>5, DirsApart DEF OnlyStaleRemoved
  <2> QED BY <2>7, <2>8, <2>9, <2>10, <2>11, <2>12
<1> QED BY <1>1, <1>2

LEMMA CleanupInit ==
  ASSUME RefInit
  PROVE  CleanupInv
<1>1. PICK sc \in Scenarios :
       /\ dirs = [k \in Dirs |-> IF k = 0 THEN sc.left ELSE NoDir]
       /\ gc = [NoGc EXCEPT !.phase = IF sc.collects THEN "off" ELSE "done"]
       /\ mats = [d \in Dispatches |-> IF sc.collects /\ d \in sc.who THEN Wanted(captureUntracked(captureStash(g), g)) ELSE NoMat]
  BY Zenon DEF RefInit
<1>2. alive = TRUE
  BY DEF RefInit
<1>3. PICK phase \in {"off", "done"} : phase = IF sc.collects THEN "off" ELSE "done"
  OBVIOUS
<1>4. gc = [phase |-> phase, by |-> "none", list |-> <<>>, todo |-> {}, at |-> -1, step |-> "none",
            git |-> FALSE, ok |-> TRUE, due |-> {}]
  BY <1>1, <1>3 DEF NoGc
<1>5. DOMAIN gc.list = {}
  BY <1>4
<1>6. DirShape(NoDir) /\ ~NoDir.exists /\ ~NoDir.reg /\ NoDir.lock = "none" /\ ~NoDir.foreign
  BY DEF NoDir, DirShape
<1>7. /\ DirShape(sc.left) /\ (sc.left.lock # "none" => sc.left.reg) /\ (sc.left.reg => ~sc.left.foreign)
      /\ (sc.left.foreign \/ sc.left.lock = "user" => sc.left.exists)
  BY ReferenceAssumption DEF DirShape
<1>8. WorktreesAre
  <2>1. \A k \in Dirs : DirShape(dirs[k])
    BY <1>1, <1>6, <1>7
  <2>2. dirs = [k \in Dirs |-> dirs[k]] /\ alive \in BOOLEAN
    BY <1>1, <1>2
  <2>3. PICK listed : listed = <<>>
    OBVIOUS
  <2>4. gc = [phase |-> phase, by |-> "none", list |-> listed, todo |-> {}, at |-> -1, step |-> "none",
              git |-> FALSE, ok |-> TRUE, due |-> {}]
    BY <1>4, <2>3
  <2>5. gc.list = listed /\ DOMAIN listed = {}
    BY <1>5, <2>4
  <2>6. GcShape(gc)
    BY <1>3, <2>4, <2>5 DEF GcShape
  <2> QED BY <2>1, <2>2, <2>6 DEF WorktreesAre
<1>9. ASSUME NEW d \in Dispatches PROVE mats[d].st \in {"none", "wanted", "gone"} /\ ~mats[d].released /\ dirs[d] = NoDir
  BY <1>1, WantedIs, DirsApart
<1>10. DirsAreOwn
  BY <1>1, <1>6, <1>7, <1>9 DEF DirsAreOwn
<1>11. ListIsOld /\ TakesStale /\ DueIsSwept
  BY <1>4, <1>5 DEF ListIsOld, TakesStale, DueIsSwept
<1>12. OnlyStaleRemoved
  BY <1>1, <1>7, <1>9, DirsApart DEF OnlyStaleRemoved, InUse
<1> QED BY <1>8, <1>10, <1>11, <1>12 DEF CleanupInv

LEMMA CleanupStep ==
  ASSUME ReferenceInv, CleanupInv, [RefNext]_rvars
  PROVE  CleanupInv'
<1>1. CASE UNCHANGED rvars
  BY <1>1, CleanupStands DEF rvars
<1>2. ASSUME NEW d \in Dispatches,
             \/ MakeDir(d) \/ AddWorktree(d) \/ CopyUntracked(d) \/ LinkModules(d) \/ CheckDrift(d) \/ Abandon(d)
             \/ RemoveOwn(d)
      PROVE  CleanupInv'
  BY <1>2, OwnMoves
<1>3. ASSUME NEW d \in Dispatches, Begin(d) \/ Evict(d) \/ Ask(d) \/ \E k \in LaneKeys : CaptureTimesOut(d, k)
      PROVE  CleanupInv'
  <2>1. UNCHANGED <<dirs, gc, alive>> /\ UNCHANGED mats
    BY <1>3 DEF Begin, Evict, Ask, CaptureTimesOut
  <2> QED BY <2>1, CleanupStands
<1>4. ASSUME NEW k \in LaneKeys, Read(k) \/ ReadFails(k) PROVE CleanupInv'
  <2>1. UNCHANGED <<dirs, gc, alive>> /\ UNCHANGED mats
    BY <1>4 DEF Read, ReadFails
  <2> QED BY <2>1, CleanupStands
<1>5. ASSUME NEW s \in Sessions,
             \/ BeforeCall(s) \/ AfterCall(s) \/ Commit(s)
             \/ \E f \in Files : \E c \in {Work[s], "none", g.head[f]} : Change(s, f, c)
      PROVE  CleanupInv'
  <2>1. UNCHANGED <<dirs, gc, alive>> /\ UNCHANGED mats
    BY <1>5 DEF BeforeCall, AfterCall, Commit, Change
  <2> QED BY <2>1, CleanupStands
<1>6. ASSUME NEW d \in Dispatches, Prepare(d) PROVE CleanupInv'
  BY <1>6, PreparedHasNone
<1>7. ASSUME \/ \E by \in {"me", "other"} : GcList(by)
             \/ \E k \in Dirs : GcEntry(k) \/ GcOrphan(k) \/ AgeDir(k)
             \/ GcScan \/ GcRemove \/ GcDone \/ ProcessDies
      PROVE  CleanupInv'
  BY <1>7, CollectionBegins, EntryIsRight, OrphanIsRight, ScanIsRight, RemoveIsRight, DoneIsRight, OutsideIsRight
<1>8. CASE RefNext
  BY <1>2, <1>3, <1>4, <1>5, <1>6, <1>7, <1>8 DEF RefNext
<1> QED BY <1>1, <1>8

\* A collection removes what is stale and nothing else, whatever it was interrupted by, and one
\* that met no failure leaves nothing of the processes that were dead when it began, with any
\* number of dispatches (gcStaleReferences, removeReferenceDir).
THEOREM CleanupIsExact == RefSpec => []CleanupExact
<1>1. RefInit => ReferenceInv /\ CleanupInv
  BY RefInitHolds, CleanupInit
<1>2. ReferenceInv /\ CleanupInv /\ [RefNext]_rvars => (ReferenceInv /\ CleanupInv)'
  BY ReferenceStep, CleanupStep
<1>3. CleanupInv => CleanupExact
  BY DEF CleanupInv, CleanupExact, NothingLeaks, DueIsSwept, Swept
<1> QED BY <1>1, <1>2, <1>3, PTL DEF RefSpec

=============================================================================
