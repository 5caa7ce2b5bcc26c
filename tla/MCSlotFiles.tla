----------------------------- MODULE MCSlotFiles -----------------------------
(* One file slot in two scenes.  "crash": p2 and p3 share a machine, p1 is  *)
(* on another one that sees the same directory, p1 and p2 may die at any    *)
(* step and p3 keeps calling.  "errors": p1 and p2 of one machine meet one  *)
(* failing call, stalled claimer or frozen holder, p1 gives up at its       *)
(* deadline and p2 may exit.  A behaviour plays one.                        *)
EXTENDS SlotFiles

CONSTANTS p1, p2

VARIABLE which

mcvars == <<vars, which>>

MCHosts == [p \in Procs |-> IF p = p1 THEN "there" ELSE "here"]

Er == INSTANCE SlotFiles WITH
        Procs <- {p1, p2}, Hosts <- [p \in {p1, p2} |-> "here"], MaxMishaps <- 1,
        ClaimDepth <- 1, Troubles <- {"scanner", "io", "claimer", "holder", "create"},
        Again <- {}, GivesUp <- {p1}, CanCrash <- {}, CanExit <- {p2}

Crashes == which = "crash" /\ UNCHANGED which
Errors == which = "errors" /\ UNCHANGED which

AnyInit ==
  \/ which = "crash" /\ Init
  \/ which = "errors" /\ Er!Init

AnyNext ==
  \/ Crashes /\ Next
  \/ Errors /\ Er!Next

\* Time passes, and a process that is up runs: its event loop serves its calls,
\* its heartbeat timer and, for a caller that waits, the next pass.
AnyFairness ==
  /\ \A p \in Procs : WF_mcvars(Crashes /\ CallStep(p))
  /\ WF_mcvars(Crashes /\ TimePasses)
  /\ \A p \in Procs \ (CanCrash \cup CanExit) : WF_mcvars(Crashes /\ StartPass(p))
  /\ \A p \in {p1, p2} : WF_mcvars(Errors /\ Er!CallStep(p)) /\ WF_mcvars(Errors /\ Er!Beat(p))

AnySpec == AnyInit /\ [][AnyNext]_mcvars /\ AnyFairness

\* No ABA: an unlink, of the reaper, of the owner's release or of the exit
\* hook, finds at its path the file that was checked, or nothing
\* (SlotFiles!NoABA; unlinkWhile and unlinkIfTokenSync of slot.ts), one
\* claimer at a time acts on a file, and a holder keeps its lock.
UnlinksChecked ==
  IF which = "crash" THEN NoABA /\ OneDeleter /\ HeldIsOurs ELSE Er!NoABA

\* As long as no holder freezes for longer than the margins, the file slots
\* are a counting semaphore, whoever dies in the middle of what (slot.ts
\* tryAcquireOnce, reap and release).
Abs == INSTANCE Semaphore WITH
         Callers <- Procs, holders <- IF which = "crash" THEN Holding ELSE {}
SlotsAreSemaphore == Abs!Spec

\* Nothing stays taken: the lock of a dead process goes, although a process
\* that deleted it died too; and a holder whose lock was reclaimed while it was
\* frozen learns of it (slot.ts reclaimClaim, beat).
LossesNoticed ==
  /\ which = "crash" => DeadOwnerReclaimed
  /\ which = "errors" => Er!LossNoticed
=============================================================================
