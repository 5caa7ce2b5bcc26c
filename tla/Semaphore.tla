----------------------------- MODULE Semaphore -----------------------------
(***************************************************************************)
(* What a verification slot promises (src/verify/slot.ts, acquireSlot and  *)
(* SlotHandle.release): at most MaxSlots callers run a verification command at  *)
(* any time.  The in-process fallback and the file slots both implement    *)
(* this specification, and the file lock does with one slot.               *)
(***************************************************************************)
EXTENDS Naturals, FiniteSets

CONSTANTS
  Callers,   \* whoever may call acquireSlot
  MaxSlots        \* SlotOptions.max after acquireSlot's Math.max(1, floor(max))

VARIABLE holders   \* the callers whose SlotHandle is live

Init == holders = {}

\* acquireSlot resolves with a handle: only below the bound.
Enter(c) ==
  /\ c \notin holders
  /\ Cardinality(holders) < MaxSlots
  /\ holders' = holders \cup {c}

\* The handle is released (or found lost by its heartbeat).
Leave(c) ==
  /\ c \in holders
  /\ holders' = holders \ {c}

\* A release that grants the slot to a waiter in the same step.
Pass(c, d) ==
  /\ c \in holders
  /\ d \notin holders
  /\ holders' = (holders \ {c}) \cup {d}

Next ==
  \/ \E c \in Callers : Enter(c) \/ Leave(c)
  \/ \E c, d \in Callers : Pass(c, d)

Spec == Init /\ [][Next]_holders

=============================================================================
