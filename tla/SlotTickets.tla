---------------------------- MODULE SlotTickets ----------------------------
(***************************************************************************)
(* The order of the waiters of src/verify/slot.ts: acquireFile's loop and  *)
(* the ticket files of the calls that wait.  A call first counts the live  *)
(* tickets older than its own, and tries the slots only when they are      *)
(* fewer than the slots.  Tickets are advisory: who may hold a slot is     *)
(* decided by the lock files (SlotFiles), here one atomic step.            *)
(*                                                                         *)
(* Every file-system call on a ticket is a step, and a call's heartbeat    *)
(* runs beside its loop.  A ticket's name is its place in `order`, drawn   *)
(* from the clock before the file is written.                              *)
(***************************************************************************)
EXTENDS Naturals, Sequences, FiniteSets, SequencesExt, Functions

CONSTANTS Waiters,   \* processes whose calls wait (waitMs > 0)
          Patient,   \* waiters whose deadline does not come
          Passers,   \* processes whose calls do not wait, and so have no ticket
          SameHost,  \* processes on one host: a PID is judged by its own host only
          Maxima,    \* what SlotOptions.max may be
          MaxMishaps \* bound: crashes, exits, suspensions and failing calls

VARIABLES max,        \* SlotOptions.max
          order,      \* names of the waiting calls, oldest first
          file,       \* ticket files: "none", "fresh", or "old" past two heartbeats
          at,         \* where each process is
          list,       \* names of the listing still to be read
          ahead,      \* live tickets counted so far
          beat,       \* refreshTicket in flight: "none", "touch" or "rewrite"
          held,       \* processes whose lock is held
          mishaps,
          lapsed,     \* history: calls whose ticket was not kept
          stuck,      \* history: calls whose ticket could not be deleted when they ended
          overtaken   \* history: overtaken[p][q], how often q got the one slot while p waited before it

tvars == <<max, order, file, at, list, ahead, beat, held, mishaps, lapsed, stuck, overtaken>>

Procs == Waiters \union Passers
Loop == {"refresh", "list", "read", "unlink", "sleep"}
Position(p) == CHOOSE i \in 1..Len(order) : order[i] = p
\* The tickets older than p's; a call without one stands behind them all.
Before(p) == IF p \in ToSet(order) THEN ToSet(SubSeq(order, 1, Position(p) - 1)) ELSE ToSet(order)

\* Ticket.dropped: set by the end of the wait, for good.
dropped(p) == at[p] \in {"drop", "idle", "held"}

\* No call keeps its ticket any more.
Unkept(p) == at[p] \in {"dead", "idle", "held"}

Leave(p) == order' = SelectSeq(order, LAMBDA q : q # p)

Mishap == mishaps < MaxMishaps /\ mishaps' = mishaps + 1
Goes(p, where) == at' = [at EXCEPT ![p] = where]
NoOvertaker == [q \in Procs |-> 0]

----------------------------------------------------------------------------
(* One call.                                                               *)

\* createTicket draws the name; the heartbeat starts once the file is written.  Names are
\* unique; bound: a process calls again once nobody has its earlier ticket or is about to read it.
Call(p) ==
    /\ at[p] = "idle" /\ \A s \in {order} \union Range(list) : p \notin ToSet(s)
    /\ IF p \in Waiters THEN Goes(p, "write") /\ order' = Append(order, p)
       ELSE Goes(p, "list") /\ UNCHANGED order
    /\ lapsed' = lapsed \ {p} /\ stuck' = stuck \ {p}
    /\ UNCHANGED <<max, file, list, ahead, beat, held, mishaps, overtaken>>

\* writeTicket: a failure is logged and the call goes on without its ticket.
WriteTicket(p) ==
    /\ at[p] = "write" /\ Goes(p, "list")
    /\ \/ file' = [file EXCEPT ![p] = "fresh"] /\ UNCHANGED <<lapsed, mishaps>>
       \/ Mishap /\ lapsed' = lapsed \union {p} /\ UNCHANGED file
    /\ UNCHANGED <<max, order, list, ahead, beat, held, stuck, overtaken>>

\* Mutated form: the names are compared the wrong way round.
olderReversed(p) ==
    IF p \in ToSet(order) THEN ToSet(SubSeq(order, Position(p) + 1, Len(order))) ELSE ToSet(order)

older(p) == Before(p)

\* eligible: the names older than its own, from one listing of the directory.
Eligible(p) ==
    /\ at[p] = "list" /\ Goes(p, "read")
    /\ list' = [list EXCEPT ![p] = SelectSeq(order, LAMBDA q : q \in older(p) /\ file[q] # "none")]
    /\ ahead' = [ahead EXCEPT ![p] = 0]
    /\ UNCHANGED <<max, order, file, beat, held, mishaps, lapsed, stuck, overtaken>>

ownerDead(p, q) == at[q] = "dead" /\ {p, q} \subseteq SameHost

\* Mutated form: the age of a ticket is not looked at.
ticketLiveAnyAge(p, q) == file[q] # "none" /\ ~ownerDead(p, q)

ticketLive(p, q) == file[q] = "fresh" /\ ~ownerDead(p, q)

\* The next name of the listing is read and judged.
ReadTicket(p) ==
    /\ at[p] = "read" /\ list[p] # <<>>
    /\ LET q == Head(list[p]) IN
       IF ticketLive(p, q)
       THEN IF ahead[p] + 1 >= max
            THEN Goes(p, "sleep") /\ list' = [list EXCEPT ![p] = <<>>] /\ UNCHANGED ahead
            ELSE /\ ahead' = [ahead EXCEPT ![p] = @ + 1]
                 /\ UNCHANGED at /\ list' = [list EXCEPT ![p] = Tail(@)]
       ELSE /\ UNCHANGED ahead
            /\ IF file[q] = "none" THEN UNCHANGED at /\ list' = [list EXCEPT ![p] = Tail(@)]
               ELSE Goes(p, "unlink") /\ UNCHANGED list
    /\ UNCHANGED <<max, order, file, beat, held, mishaps, lapsed, stuck, overtaken>>

\* A ticket judged dead is deleted by its path, refreshed in between or not.
UnlinkDead(p) ==
    /\ at[p] = "unlink" /\ Goes(p, "read")
    /\ file' = [file EXCEPT ![Head(list[p])] = "none"]
    /\ list' = [list EXCEPT ![p] = Tail(@)]
    /\ IF Unkept(Head(list[p])) THEN Leave(Head(list[p])) ELSE UNCHANGED order
    /\ UNCHANGED <<max, ahead, beat, held, mishaps, lapsed, stuck, overtaken>>

\* tryAcquireOnce, and finally: the timer is cleared and the ticket marked dropped.
TrySlots(p) ==
    /\ at[p] = "read" /\ list[p] = <<>>
    /\ IF Cardinality(held) < max
       THEN /\ held' = held \union {p}
            /\ Goes(p, IF p \in Waiters THEN "drop" ELSE "held")
            /\ overtaken' = [q \in Waiters |->
                   IF q = p THEN NoOvertaker
                   ELSE IF max = 1 /\ q \in Before(p) /\ file[q] # "none" /\ at[q] \in Loop
                   THEN [overtaken[q] EXCEPT ![p] = IF @ = 2 THEN 2 ELSE @ + 1] ELSE overtaken[q]]
       ELSE Goes(p, "sleep") /\ UNCHANGED <<held, overtaken>>
    /\ UNCHANGED <<max, order, file, list, ahead, beat, mishaps, lapsed, stuck>>

\* The backoff ends and the ticket is refreshed first, or the deadline has come (a passer's at once).
Wake(p) ==
    /\ at[p] = "sleep" /\ p \in Waiters /\ Goes(p, "refresh")
    /\ beat' = [beat EXCEPT ![p] = IF @ = "none" THEN "touch" ELSE @]
    /\ UNCHANGED <<max, order, file, list, ahead, held, mishaps, lapsed, stuck, overtaken>>

TimesOut(p) ==
    /\ at[p] = "sleep" /\ p \notin Patient
    /\ IF p \in Waiters THEN Goes(p, "drop") /\ overtaken' = [overtaken EXCEPT ![p] = NoOvertaker]
       ELSE Goes(p, "idle") /\ UNCHANGED overtaken
    /\ UNCHANGED <<max, order, file, list, ahead, beat, held, mishaps, lapsed, stuck>>

\* Mutated form: the refresh in flight is not waited for.
mayUnlinkAtOnce(p) == TRUE

\* dropTicket waits for the refresh in flight.
mayUnlink(p) == beat[p] = "none"

\* unlinkRetry: after its last retry the file is left where it is.
DropTicket(p) ==
    /\ at[p] = "drop" /\ mayUnlink(p)
    /\ Goes(p, IF p \in held THEN "held" ELSE "idle")
    /\ \/ file' = [file EXCEPT ![p] = "none"] /\ Leave(p) /\ UNCHANGED <<stuck, mishaps>>
       \/ /\ file[p] # "none" /\ Mishap
          /\ stuck' = stuck \union {p} /\ UNCHANGED <<file, order>>
    /\ UNCHANGED <<max, list, ahead, beat, held, lapsed, overtaken>>

GiveBack(p) ==
    /\ at[p] = "held"
    /\ held' = held \ {p} /\ Goes(p, "idle")
    /\ UNCHANGED <<max, order, file, list, ahead, beat, mishaps, lapsed, stuck, overtaken>>

----------------------------------------------------------------------------
(* The heartbeat of a ticket.                                              *)

Beat(p) ==
    /\ p \in Waiters /\ at[p] \in Loop /\ beat[p] = "none"
    /\ beat' = [beat EXCEPT ![p] = "touch"]
    /\ UNCHANGED <<max, order, file, at, list, ahead, held, mishaps, lapsed, stuck, overtaken>>

\* The loop goes on in the same turn of the event loop in which its refresh has ended.
Refreshed(p) ==
    /\ beat' = [beat EXCEPT ![p] = "none"]
    /\ IF at[p] = "refresh" THEN Goes(p, "list") ELSE UNCHANGED at
    /\ UNCHANGED <<max, order, list, ahead, held, mishaps, lapsed, stuck, overtaken>>

\* utimes on the ticket ...
TouchTicket(p) ==
    /\ beat[p] = "touch" /\ (file[p] # "none" \/ dropped(p))
    /\ file' = IF file[p] = "none" THEN file ELSE [file EXCEPT ![p] = "fresh"]
    /\ Refreshed(p)

\* ... which is written again if somebody deleted it and the call has not dropped it.
TouchMissing(p) ==
    /\ beat[p] = "touch" /\ file[p] = "none" /\ ~dropped(p)
    /\ beat' = [beat EXCEPT ![p] = "rewrite"]
    /\ UNCHANGED <<max, order, file, at, list, ahead, held, mishaps, lapsed, stuck, overtaken>>

RewriteTicket(p) ==
    /\ beat[p] = "rewrite"
    /\ file' = [file EXCEPT ![p] = "fresh"]
    /\ Refreshed(p)

----------------------------------------------------------------------------
(* Time, and the ends of processes.                                        *)

\* Two heartbeats pass without a refresh: nobody keeps the ticket, or its process was suspended.
Age(p) ==
    /\ file[p] = "fresh"
    /\ IF Unkept(p) THEN UNCHANGED <<mishaps, lapsed>> ELSE Mishap /\ lapsed' = lapsed \union {p}
    /\ file' = [file EXCEPT ![p] = "old"]
    /\ UNCHANGED <<max, order, at, list, ahead, beat, held, stuck, overtaken>>

\* Something else deletes the ticket (a temp cleaner).
Cleaned(p) ==
    /\ file[p] # "none" /\ Mishap
    /\ file' = [file EXCEPT ![p] = "none"]
    /\ lapsed' = lapsed \union {p}
    /\ IF Unkept(p) THEN Leave(p) ELSE UNCHANGED order
    /\ UNCHANGED <<max, at, list, ahead, beat, held, stuck, overtaken>>

Crash(p) ==
    /\ at[p] \notin {"idle", "dead"} /\ Mishap
    /\ Goes(p, "dead")
    /\ beat' = [beat EXCEPT ![p] = "none"]
    /\ list' = [list EXCEPT ![p] = <<>>]
    /\ UNCHANGED <<max, order, file, ahead, held, lapsed, stuck, overtaken>>

\* releaseAllSync: the slots, and the tickets of the waits in progress.
Exit(p) ==
    /\ at[p] \notin {"idle", "dead"} /\ Mishap
    /\ Goes(p, "dead")
    /\ IF dropped(p) THEN UNCHANGED <<file, order>> ELSE Leave(p) /\ file' = [file EXCEPT ![p] = "none"]
    /\ beat' = [beat EXCEPT ![p] = "none"]
    /\ list' = [list EXCEPT ![p] = <<>>]
    /\ held' = held \ {p}
    /\ UNCHANGED <<max, ahead, lapsed, stuck, overtaken>>

\* The lock of a dead process is reclaimed (SlotFiles).
Reclaim(p) ==
    /\ at[p] = "dead" /\ p \in held
    /\ held' = held \ {p}
    /\ UNCHANGED <<max, order, file, at, list, ahead, beat, mishaps, lapsed, stuck, overtaken>>

----------------------------------------------------------------------------

TicketInit ==
    /\ max \in Maxima /\ order = <<>> /\ held = {} /\ mishaps = 0 /\ lapsed = {} /\ stuck = {}
    /\ file = [p \in Procs |-> "none"]
    /\ at = [p \in Procs |-> "idle"]
    /\ list = [p \in Procs |-> <<>>]
    /\ ahead = [p \in Procs |-> 0]
    /\ beat = [p \in Procs |-> "none"]
    /\ overtaken = [p \in Waiters |-> NoOvertaker]

Steps(p) ==
    \/ WriteTicket(p) \/ Eligible(p) \/ ReadTicket(p) \/ UnlinkDead(p) \/ TrySlots(p)
    \/ Wake(p) \/ TimesOut(p) \/ DropTicket(p) \/ GiveBack(p)
Beats(p) == TouchTicket(p) \/ TouchMissing(p) \/ RewriteTicket(p)
Fades(p) == (Unkept(p) /\ Age(p)) \/ Reclaim(p)

TicketNext ==
    \E p \in Procs :
        \/ Call(p) \/ Steps(p) \/ Beat(p) \/ Beats(p)
        \/ Age(p) \/ Cleaned(p) \/ Reclaim(p) \/ Crash(p) \/ Exit(p)

\* Calls go on while their process lives, a timer fires, a slot is given back (withSlot), and the
\* lock of a dead process is reclaimed.
TicketFairness ==
    \A p \in Procs : WF_tvars(Steps(p)) /\ WF_tvars(Beats(p)) /\ WF_tvars(Fades(p))

TicketSpec == TicketInit /\ [][TicketNext]_tvars /\ TicketFairness

----------------------------------------------------------------------------
(* Properties.                                                             *)

\* A heartbeat that writes a lost ticket again never brings back the ticket of a call that has
\* ended, whoever deleted the file and when: a ticket file belongs to a call that waits, to a dead
\* process, or is one that its call could not delete (dropTicket, slot.ts:1211; refreshTicket,
\* slot.ts:1197).
NoGhostTicket ==
    \A p \in Procs : file[p] # "none" /\ at[p] \in {"idle", "held"} => p \in stuck

\* With one slot, a call whose ticket is kept is overtaken by each process at most once, by the
\* call that had listed the tickets before its own was written (eligible, slot.ts:1246).
OvertakenOnce ==
    max = 1 => \A p \in Waiters, q \in Procs : p \notin lapsed => overtaken[p][q] <= 1

\* With one slot, a call that goes on waiting gets it in the end, whoever else comes, crashes, or leaves a
\* ticket behind (ticketLive, slot.ts:1231).
TicketServed ==
    \A p \in Patient : max = 1 /\ at[p] = "write" ~> at[p] \in {"drop", "held", "dead"}
=============================================================================
