--------------------------- MODULE LocalSemaphore ---------------------------
(***************************************************************************)
(* acquireLocal of src/verify/slot.ts: the in-process semaphore that       *)
(* serves one slot dir once the dir was judged unwritable.  JavaScript     *)
(* runs each step below without interleaving; the steps of the callers     *)
(* interleave freely.                                                      *)
(***************************************************************************)
EXTENDS Naturals, SequencesExt

CONSTANTS
  Callers,   \* the acquireSlot calls of one process on one dir
  MaxSlots        \* opts.max, already raised to at least 1 by acquireSlot

ASSUME LocalAssumption == IsFiniteSet(Callers) /\ MaxSlots \in Nat \ {0}

VARIABLES
  count,     \* LocalSem.count
  waiters,   \* LocalSem.waiters: the grant callbacks in arrival order
  status     \* what the caller's promise and handle say

vars == <<count, waiters, status>>

\* "released": the caller still has its handle and may call release() again.
Status == {"idle", "waiting", "holding", "busy", "released"}

holders == {c \in Callers : status[c] = "holding"}

Init ==
  /\ count = 0
  /\ waiters = <<>>
  /\ status = [c \in Callers |-> "idle"]

\* A caller may call again once its earlier call is over.
CanCall(c) == status[c] \in {"idle", "busy", "released"}

\* count < max: a handle at once.
AcquireNow(c) ==
  /\ CanCall(c)
  /\ count < MaxSlots
  /\ count' = count + 1
  /\ status' = [status EXCEPT ![c] = "holding"]
  /\ UNCHANGED waiters

\* No slot, and waitMs <= 0 or the signal is aborted.
AcquireBusy(c) ==
  /\ CanCall(c)
  /\ count >= MaxSlots
  /\ status' = [status EXCEPT ![c] = "busy"]
  /\ UNCHANGED <<count, waiters>>

\* No slot, but the caller waits: its grant callback is pushed.
AcquireWait(c) ==
  /\ CanCall(c)
  /\ count >= MaxSlots
  /\ waiters' = Append(waiters, c)
  /\ status' = [status EXCEPT ![c] = "waiting"]
  /\ UNCHANGED count

\* giveUp: the timer or the abort listener.  Both are removed by a grant, so
\* it runs only while the callback is still queued.
GiveUp(c) ==
  /\ status[c] = "waiting"
  /\ \E i \in 1..Len(waiters) :
       waiters[i] = c /\ waiters' = RemoveAt(waiters, i)
  /\ status' = [status EXCEPT ![c] = "busy"]
  /\ UNCHANGED count

\* release(): hand the slot to the oldest waiter, else give it back.
ReleaseHandle(c) ==
  /\ IF waiters # <<>>
     THEN /\ status' = [status EXCEPT ![c] = "released",
                                      ![Head(waiters)] = "holding"]
          /\ waiters' = Tail(waiters)
          /\ UNCHANGED count
     ELSE /\ status' = [status EXCEPT ![c] = "released"]
          /\ count' = count - 1
          /\ UNCHANGED waiters

Release(c) ==
  /\ status[c] = "holding"
  /\ ReleaseHandle(c)

\* Mutated form: release() without the `done` guard.
ReleaseAgainUnguarded(c) ==
  /\ status[c] = "released"
  /\ ReleaseHandle(c)

\* A second release() of the same handle returns at once (`done`).
ReleaseAgain(c) ==
  /\ status[c] = "released"
  /\ UNCHANGED vars

Caller(c) ==
  \/ AcquireNow(c) \/ AcquireBusy(c) \/ AcquireWait(c)
  \/ GiveUp(c) \/ Release(c) \/ ReleaseAgain(c)

Next == \E c \in Callers : Caller(c)

\* withSlot releases in a finally block, so a holder does release; nothing
\* obliges a caller to give up or to call again.
Fairness == \A c \in Callers : WF_vars(Release(c))

Spec == Init /\ [][Next]_vars /\ Fairness

-----------------------------------------------------------------------------
TypeOK ==
  /\ count \in 0..MaxSlots
  /\ waiters \in Seq(Callers)
  /\ status \in [Callers -> Status]

\* The queue holds each waiting caller once, and nobody else: a grant or a
\* timeout that left its callback behind would break it.
QueueIsWaiting ==
  /\ \A i, j \in 1..Len(waiters) : waiters[i] = waiters[j] => i = j
  /\ \A c \in Callers : status[c] = "waiting" <=> c \in {waiters[i] : i \in 1..Len(waiters)}

\* The counter is the number of live handles: no release path loses a slot
\* for good or gives one back twice (release() is called on every exit path
\* of withSlot and may be called twice).
CountIsHolders == count = Cardinality(holders)

\* No lost wake-up: while somebody waits, every slot is taken.
NoIdleSlotWithWaiter == waiters # <<>> => count = MaxSlots

\* The fallback implements the abstract semaphore.
Abstract == INSTANCE Semaphore WITH holders <- holders
ImplementsSemaphore == Abstract!Spec

=============================================================================
