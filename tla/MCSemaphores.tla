---------------------------- MODULE MCSemaphores ----------------------------
(* Three ways of waiting for a turn: the in-process semaphore, with four   *)
(* callers and two slots; the lock file of the outcome store, with three   *)
(* callers, one of which may die; and the tickets of the file slots, with  *)
(* two waiting processes and one that does not wait.  A behaviour runs one.*)
EXTENDS LocalSemaphore, SlotTickets

CONSTANTS LockCallers, Mortal, Nobody

VARIABLES which, lock, grave, pc, tries, made, misplaced

FilesOf == [p \in LockCallers |-> IF p = Mortal THEN 2 ELSE 1]

fvars == <<lock, grave, pc, tries, made, misplaced>>
mcvars == <<vars, fvars, tvars, which>>

F == INSTANCE FileLock WITH
       Procs <- LockCallers, CanCrash <- {Mortal}, MaxFiles <- FilesOf, MaxMishaps <- 1,
       Troubles <- {"create", "rename", "putBack", "unlink"}

AnyInit ==
  /\ which \in {"local", "file", "tickets"} /\ Init /\ F!Init /\ TicketInit
  /\ which # "file" => lock = F!NoFile
  /\ which # "tickets" => max = 1

ticketsOnly == <<max, order, file, at, list, ahead, beat, held, lapsed, stuck, overtaken>>
Local == which = "local" /\ UNCHANGED <<fvars, tvars, which>>
Lock == which = "file" /\ UNCHANGED <<vars, ticketsOnly, which>>
Tickets == which = "tickets" /\ UNCHANGED <<vars, fvars, which>>

AnyNext ==
  \/ Local /\ Next
  \/ Lock /\ F!Next
  \/ Tickets /\ TicketNext

\* The fairness of each specification, for the behaviours that run it.
AnyFairness ==
  /\ \A p \in LockCallers : WF_mcvars(Lock /\ F!Steps(p))
  /\ SF_mcvars(Lock /\ F!TimePasses)
  /\ \A p \in Waiters \union Passers :
       /\ WF_mcvars(Tickets /\ Steps(p)) /\ WF_mcvars(Tickets /\ Beats(p))
       /\ WF_mcvars(Tickets /\ Fades(p))

AnySpec == AnyInit /\ [][AnyNext]_mcvars /\ AnyFairness

\* The lock file of the outcome store is a semaphore of one slot until a recovery that moved a
\* live lock away fails to bring it back before another caller makes its own: a third caller then
\* runs beside the owner, which was not suspended (file-lock.ts:27-35; FileLock!ImplementsSemaphore).
LockIsSemaphore == F!ImplementsSemaphore

\* Nobody waits for ever: a caller of the lock file runs although others die with it, and a
\* process that keeps its ticket gets the slot (file-lock.ts withLock, slot.ts:1231).
EveryCallerServed ==
  /\ which = "file" => F!EveryCallerRuns
  /\ TicketServed
=============================================================================
