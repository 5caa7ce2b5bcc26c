----------------------------- MODULE CapsProofs -----------------------------
(***************************************************************************)
(* Proofs about the read caps: of HookCaps, for any number of parallel     *)
(* calls, fingerprints and messages, any cap and any settings; and of      *)
(* SessionStore, for any sessions, tiers, texts and reads and any number   *)
(* of dispatches.                                                          *)
(***************************************************************************)
EXTENDS SessionStore, HookCaps, FiniteSetTheorems, WellFoundedInduction, TLAPS

-----------------------------------------------------------------------------
(* The inductive invariant. *)

Known == {"idle", "pre", "init", "run", "post", "create", "write", "bump"}
TurnFile == [reads : Nat, old : BOOLEAN]
SlotCall == [fp : Prints \union {Nil}, pc : Known, snap : CapFile \union Nat \union {Nil},
             enforced : BOOLEAN]

\* The calls whose read has been made and is not yet counted, and the direct reads
\* begun and not yet added to the turn.
Counting == {k \in Slots : calls[k].pc \in {"post", "create", "write"}}
Bumping == {k \in Slots : calls[k].pc \in {"pre", "bump"}}

HookTypeOK ==
  /\ config \in HookScenarios
  /\ file \in CapFile \union {Nil}
  /\ turn \in TurnFile \union {Nil}
  /\ calls \in [Slots -> SlotCall]
  /\ made \in [prints : SUBSET Prints, n : Nat, turn : Nat]
  /\ message \in [present : BOOLEAN, recorded : BOOLEAN]
  /\ rounds \in Nat
  /\ \A line \in said : line.n \in Nat

\* What each process may be at, and with what it has read.
SlotsAreSound ==
  \A k \in Slots :
    /\ calls[k].pc # "idle" => calls[k].fp \in Prints
    /\ calls[k].pc = "write" => calls[k].snap \in CapFile
    /\ calls[k].pc = "bump" => calls[k].snap \in Nat
    /\ calls[k].pc \in {"init", "run", "post", "create", "write"} => isSubagent
    /\ calls[k].pc = "bump" => ~isSubagent

\* No file and no process has counted a read that was not made, and those still to be counted
\* were made as well.
CountsAreMade ==
  /\ Cardinality(Counting) <= made.n
  /\ file # Nil => file.calls + Cardinality(Counting) <= made.n /\ file.seen \subseteq made.prints
  /\ \A k \in Slots : calls[k].pc = "write" =>
       /\ calls[k].snap.calls + Cardinality(Counting) <= made.n
       /\ calls[k].snap.seen \subseteq made.prints
  /\ \A k \in Counting : calls[k].fp \in made.prints

\* The same for the direct reads of an orchestrator's turn.
TurnIsMade ==
  ~isSubagent =>
    /\ Cardinality(Bumping) <= made.turn
    /\ turn # Nil => turn.reads + Cardinality(Bumping) <= made.turn
    /\ \A k \in Slots : calls[k].pc = "bump" =>
         calls[k].snap + Cardinality(Bumping) <= made.turn

\* Each counted round is in the file, and in every copy of it that is about to be written back;
\* whoever was let through under enforcement found room for one more.
RoundsAreCounted ==
  /\ rounds <= config.cap
  /\ ~message.present => rounds = 0
  /\ message.present =>
       /\ file # Nil
       /\ file.calls >= rounds
       /\ message.recorded => file.calls >= rounds + 1 /\ rounds + 1 <= config.cap
       /\ \A k \in Slots :
            /\ calls[k].pc \notin {"init", "create"}
            /\ calls[k].pc = "write" => calls[k].snap.calls >= rounds
            /\ calls[k].enforced => rounds + 1 <= config.cap

HookInv ==
  /\ HookTypeOK /\ SlotsAreSound /\ CountsAreMade /\ TurnIsMade /\ RoundsAreCounted
  /\ AdviceIsTrue

-----------------------------------------------------------------------------
(* Lemmas about the processes of one call. *)

\* A step of the call k makes its record c and leaves the others alone.
SlotBecomes(k, c) == calls' = [calls EXCEPT ![k] = c]

\* What a step of one call does to the set of the reads still to be counted.
LEMMA CountingMoves ==
  ASSUME HookTypeOK, NEW k \in Slots, NEW c, SlotBecomes(k, c)
  PROVE  /\ Cardinality(Counting) \in Nat /\ Cardinality(Counting') \in Nat
         /\ Counting' = IF c.pc \in {"post", "create", "write"}
                        THEN Counting \cup {k} ELSE Counting \ {k}
         /\ Cardinality(Counting') =
              IF c.pc \in {"post", "create", "write"}
              THEN IF k \in Counting THEN Cardinality(Counting) ELSE Cardinality(Counting) + 1
              ELSE IF k \in Counting THEN Cardinality(Counting) - 1 ELSE Cardinality(Counting)
  <1>1. Counting' = IF c.pc \in {"post", "create", "write"}
                    THEN Counting \cup {k} ELSE Counting \ {k}
    BY DEF Counting, SlotBecomes, HookTypeOK
  <1>2. IsFiniteSet(Counting)
    BY HookAssumption, FS_Subset DEF Counting
  <1>3. Cardinality(Counting) \in Nat
    BY <1>2, FS_CardinalityType
  <1>4. IsFiniteSet(Counting \cup {k}) /\ IsFiniteSet(Counting \ {k})
    BY <1>2, FS_AddElement, FS_RemoveElement
  <1>5. Cardinality(Counting') \in Nat
    BY <1>1, <1>4, FS_CardinalityType
  <1>6. /\ Cardinality(Counting \cup {k}) =
             IF k \in Counting THEN Cardinality(Counting) ELSE Cardinality(Counting) + 1
        /\ Cardinality(Counting \ {k}) =
             IF k \in Counting THEN Cardinality(Counting) - 1 ELSE Cardinality(Counting)
    BY <1>2, FS_AddElement, FS_RemoveElement
  <1> QED
    BY <1>1, <1>3, <1>5, <1>6

\* The same for the direct reads still to be added to the turn.
LEMMA BumpingMoves ==
  ASSUME HookTypeOK, NEW k \in Slots, NEW c, SlotBecomes(k, c)
  PROVE  /\ Cardinality(Bumping) \in Nat /\ Cardinality(Bumping') \in Nat
         /\ Cardinality(Bumping') =
              IF c.pc \in {"pre", "bump"}
              THEN IF k \in Bumping THEN Cardinality(Bumping) ELSE Cardinality(Bumping) + 1
              ELSE IF k \in Bumping THEN Cardinality(Bumping) - 1 ELSE Cardinality(Bumping)
  <1>1. Bumping' = IF c.pc \in {"pre", "bump"} THEN Bumping \cup {k} ELSE Bumping \ {k}
    BY DEF Bumping, SlotBecomes, HookTypeOK
  <1>2. IsFiniteSet(Bumping)
    BY HookAssumption, FS_Subset DEF Bumping
  <1>3. Cardinality(Bumping) \in Nat
    BY <1>2, FS_CardinalityType
  <1>4. IsFiniteSet(Bumping \cup {k}) /\ IsFiniteSet(Bumping \ {k})
    BY <1>2, FS_AddElement, FS_RemoveElement
  <1>5. Cardinality(Bumping') \in Nat
    BY <1>1, <1>4, FS_CardinalityType
  <1>6. /\ Cardinality(Bumping \cup {k}) =
             IF k \in Bumping THEN Cardinality(Bumping) ELSE Cardinality(Bumping) + 1
        /\ Cardinality(Bumping \ {k}) =
             IF k \in Bumping THEN Cardinality(Bumping) - 1 ELSE Cardinality(Bumping)
    BY <1>2, FS_AddElement, FS_RemoveElement
  <1> QED
    BY <1>1, <1>3, <1>5, <1>6

-----------------------------------------------------------------------------
(* What one call's step needs to preserve each part of the invariant. *)

LEMMA SoundStep ==
  ASSUME HookTypeOK, SlotsAreSound, NEW k \in Slots, NEW c, SlotBecomes(k, c),
         UNCHANGED config,
         c.pc # "idle" => c.fp \in Prints,
         c.pc = "write" => c.snap \in CapFile,
         c.pc = "bump" => c.snap \in Nat /\ ~isSubagent,
         c.pc \in {"init", "run", "post", "create", "write"} => isSubagent
  PROVE  SlotsAreSound'
  BY DEF HookTypeOK, SlotsAreSound, SlotBecomes, isSubagent

LEMMA CountsStep ==
  ASSUME HookTypeOK, CountsAreMade, NEW k \in Slots, NEW c, SlotBecomes(k, c),
         made'.n \in Nat, made.prints \subseteq made'.prints,
         Cardinality(Counting') + made.n <= Cardinality(Counting) + made'.n,
         \/ file' = file
         \/ /\ file' \in CapFile
            /\ file'.calls + Cardinality(Counting') <= made'.n
            /\ file'.seen \subseteq made'.prints,
         c.pc = "write" =>
           /\ c.snap.calls + Cardinality(Counting') <= made'.n
           /\ c.snap.seen \subseteq made'.prints,
         SlotsAreSound,
         c.pc \in {"post", "create", "write"} => c.fp \in made'.prints
  PROVE  CountsAreMade'
  <1> DEFINE old == Cardinality(Counting)
             new == Cardinality(Counting')
  <1>1. old \in Nat /\ new \in Nat /\ made.n \in Nat /\ Counting' \subseteq Counting \cup {k}
    BY CountingMoves DEF HookTypeOK
  <1>2. calls'[k] = c /\ \A j \in Slots : j # k => calls'[j] = calls[j]
    BY DEF HookTypeOK, SlotBecomes
  <1>3. k \in Counting' => c.pc \in {"post", "create", "write"}
    BY <1>2 DEF Counting
  <1>4. file # Nil => file.calls \in Nat
    BY DEF HookTypeOK, CapFile
  <1>5. \A j \in Slots : calls[j].pc = "write" => calls[j].snap.calls \in Nat
    BY DEF SlotsAreSound, CapFile
  <1> HIDE DEF old, new
  <1>6. new <= made'.n
    BY <1>1 DEF CountsAreMade, old, new
  <1>7. file' # Nil => file'.calls + new <= made'.n /\ file'.seen \subseteq made'.prints
    BY <1>1, <1>4 DEF CountsAreMade, old, new
  <1>8. ASSUME NEW j \in Slots, calls'[j].pc = "write"
        PROVE  /\ calls'[j].snap.calls + new <= made'.n
               /\ calls'[j].snap.seen \subseteq made'.prints
    <2>1. CASE j = k
      BY <1>2, <1>8, <2>1 DEF new
    <2>2. CASE j # k
      BY <1>1, <1>2, <1>5, <1>8, <2>2 DEF CountsAreMade, old, new
    <2> QED
      BY <2>1, <2>2
  <1>9. ASSUME NEW j \in Counting' PROVE calls'[j].fp \in made'.prints
    <2>1. CASE j = k
      BY <1>2, <1>3, <1>9, <2>1
    <2>2. CASE j # k
      <3>1. j \in Counting /\ j \in Slots
        BY <1>1, <1>9, <2>2 DEF Counting
      <3> QED
        BY <1>2, <2>2, <3>1 DEF CountsAreMade
    <2> QED
      BY <2>1, <2>2
  <1> QED
    BY <1>6, <1>7, <1>8, <1>9 DEF CountsAreMade, new

LEMMA TurnStep ==
  ASSUME HookTypeOK, SlotsAreSound, TurnIsMade, NEW k \in Slots, NEW c, SlotBecomes(k, c),
         UNCHANGED config,
         made'.turn = made.turn,
         Cardinality(Bumping') <= Cardinality(Bumping),
         ~isSubagent =>
           \/ turn' = turn
           \/ /\ turn' \in TurnFile
              /\ turn'.reads + Cardinality(Bumping') <= made.turn,
         ~isSubagent /\ c.pc = "bump" => c.snap + Cardinality(Bumping') <= made.turn
  PROVE  TurnIsMade'
  <1> SUFFICES ASSUME ~isSubagent PROVE TurnIsMade'
    BY DEF TurnIsMade, isSubagent
  <1> DEFINE old == Cardinality(Bumping)
             new == Cardinality(Bumping')
  <1>1. old \in Nat /\ new \in Nat /\ made.turn \in Nat
    BY BumpingMoves DEF HookTypeOK
  <1>2. calls'[k] = c /\ \A j \in Slots : j # k => calls'[j] = calls[j]
    BY DEF HookTypeOK, SlotBecomes
  <1>3. turn # Nil => turn.reads \in Nat
    BY DEF HookTypeOK, TurnFile
  <1>4. \A j \in Slots : calls[j].pc = "bump" => calls[j].snap \in Nat
    BY DEF SlotsAreSound
  <1> HIDE DEF old, new
  <1>5. new <= made'.turn
    BY <1>1 DEF TurnIsMade, old, new
  <1>6. turn' # Nil => turn'.reads + new <= made'.turn
    BY <1>1, <1>3 DEF TurnIsMade, old, new
  <1>7. ASSUME NEW j \in Slots, calls'[j].pc = "bump"
        PROVE  calls'[j].snap + new <= made'.turn
    <2>1. CASE j = k
      BY <1>2, <1>7, <2>1 DEF new
    <2>2. CASE j # k
      BY <1>1, <1>2, <1>4, <1>7, <2>2 DEF TurnIsMade, old, new
    <2> QED
      BY <2>1, <2>2
  <1> QED
    BY <1>5, <1>6, <1>7 DEF TurnIsMade, new

LEMMA RoundsStep ==
  ASSUME HookTypeOK, RoundsAreCounted, NEW k \in Slots, NEW c, SlotBecomes(k, c),
         UNCHANGED <<config, rounds>>,
         message'.present = message.present,
         message.present =>
           /\ \/ file' = file /\ message'.recorded = message.recorded
              \/ /\ file' # Nil /\ file'.calls \in Nat /\ file'.calls >= rounds + 1
                 /\ message'.recorded => rounds + 1 <= config.cap
           /\ c.pc \notin {"init", "create"}
           /\ c.pc = "write" => c.snap.calls >= rounds
           /\ c.enforced => rounds + 1 <= config.cap
  PROVE  RoundsAreCounted'
  <1>1. calls'[k] = c /\ \A j \in Slots : j # k => calls'[j] = calls[j]
    BY DEF HookTypeOK, SlotBecomes
  <1>2. rounds \in Nat /\ config.cap \in Nat
    BY HookAssumption DEF HookTypeOK
  <1>3. message.present => file # Nil /\ file.calls \in Nat /\ file'.calls \in Nat /\ file' # Nil
    BY DEF RoundsAreCounted, HookTypeOK, CapFile
  <1>4. ~message'.present => rounds' = 0
    BY DEF RoundsAreCounted
  <1>5. rounds' <= config'.cap
    BY <1>2 DEF RoundsAreCounted
  <1>6. message'.present => file'.calls >= rounds'
    BY <1>2, <1>3 DEF RoundsAreCounted
  <1>7. message'.present /\ message'.recorded => file'.calls >= rounds' + 1 /\ rounds' + 1 <= config'.cap
    BY <1>2, <1>3 DEF RoundsAreCounted
  <1>8. ASSUME message'.present, NEW j \in Slots
        PROVE  /\ calls'[j].pc \notin {"init", "create"}
               /\ calls'[j].pc = "write" => calls'[j].snap.calls >= rounds'
               /\ calls'[j].enforced => rounds' + 1 <= config'.cap
    <2>1. CASE j = k
      BY <1>1, <1>8, <2>1
    <2>2. CASE j # k
      BY <1>1, <1>8, <2>2 DEF RoundsAreCounted
    <2> QED
      BY <2>1, <2>2
  <1> QED
    BY <1>3, <1>4, <1>5, <1>6, <1>7, <1>8 DEF RoundsAreCounted

LEMMA AdviceStep ==
  ASSUME HookTypeOK, AdviceIsTrue, UNCHANGED config, said' = said,
         made'.n \in Nat /\ made.n <= made'.n,
         made'.turn \in Nat /\ made.turn <= made'.turn,
         made.prints \subseteq made'.prints
  PROVE  AdviceIsTrue'
  <1> SUFFICES ASSUME NEW line \in said
               PROVE  /\ line.kind \in {"redundant", "ran before"} => line.fp \in made'.prints
                      /\ line.kind \in {"reached", "warning", "ran before"} => line.n <= made'.n
                      /\ line.kind = "reached" => line.n >= config.cap
                      /\ line.kind = "nudge" => line.n <= made'.turn
    BY DEF AdviceIsTrue
  <1>1. line.n \in Nat /\ made.n \in Nat /\ made.turn \in Nat
    BY DEF HookTypeOK
  <1>2. /\ line.kind \in {"redundant", "ran before"} => line.fp \in made.prints
        /\ line.kind \in {"reached", "warning", "ran before"} => line.n <= made.n
        /\ line.kind = "reached" => line.n >= config.cap
        /\ line.kind = "nudge" => line.n <= made.turn
    BY DEF AdviceIsTrue
  <1>3. line.kind \in {"redundant", "ran before"} => line.fp \in made'.prints
    BY <1>2
  <1>4. line.kind \in {"reached", "warning", "ran before"} => line.n <= made'.n
    <2>1. \A x, y, z \in Nat : x <= y /\ y <= z => x <= z
      OBVIOUS
    <2>2. made'.n \in Nat /\ made.n <= made'.n
      OBVIOUS
    <2> QED
      BY <1>1, <1>2, <2>1, <2>2, Zenon
  <1>5. line.kind = "nudge" => line.n <= made'.turn
    BY <1>1, <1>2
  <1> QED
    BY <1>2, <1>3, <1>4, <1>5


\* A step of one call that changes no file and no count.
LEMMA QuietStep ==
  ASSUME HookInv, NEW k \in Slots, NEW c \in SlotCall, SlotBecomes(k, c),
         UNCHANGED <<config, file, turn, made, message, rounds>>,
         \A line \in said' : line.n \in Nat,
         c.pc # "idle" => c.fp \in Prints,
         c.pc \in {"post", "create", "write"} =>
           calls[k].pc \in {"post", "create", "write"} /\ c.fp = calls[k].fp,
         c.pc = "write" => c.snap = file /\ file # Nil,
         c.pc \in {"pre", "bump"} => calls[k].pc \in {"pre", "bump"},
         c.pc = "bump" => ~isSubagent /\ c.snap = IF turn = Nil THEN 0 ELSE turn.reads,
         c.pc \in {"init", "run", "post", "create", "write"} => isSubagent,
         message.present => c.pc \notin {"init", "create"},
         message.present /\ c.enforced => rounds + 1 <= config.cap
  PROVE  HookTypeOK' /\ SlotsAreSound' /\ CountsAreMade' /\ TurnIsMade' /\ RoundsAreCounted'
  <1> USE DEF HookInv
  <1>1. HookTypeOK'
    BY DEF HookTypeOK, SlotBecomes
  <1>2. made.n \in Nat /\ made.turn \in Nat
    BY DEF HookTypeOK
  <1>3. file # Nil => file \in CapFile /\ file.calls \in Nat
    BY DEF HookTypeOK, CapFile
  <1>4. turn # Nil => turn.reads \in Nat
    BY DEF HookTypeOK, TurnFile
  <1>5. SlotsAreSound'
    <2>1. c.pc = "write" => c.snap \in CapFile
      BY <1>3
    <2>2. c.pc = "bump" => c.snap \in Nat /\ ~isSubagent
      BY <1>4
    <2> QED
      BY <2>1, <2>2, SoundStep
  <1>6. CountsAreMade'
    <2> DEFINE old == Cardinality(Counting)
               new == Cardinality(Counting')
    <2>1. old \in Nat /\ new \in Nat /\ new <= old
      <3>1. calls[k].pc \in {"post", "create", "write"} <=> k \in Counting
        BY DEF Counting
      <3> QED
        BY <3>1, CountingMoves
    <2>2. new + made.n <= old + made'.n
      BY <1>2, <2>1
    <2>3. c.pc = "write" =>
            /\ c.snap.calls + new <= made'.n
            /\ c.snap.seen \subseteq made'.prints
      <3> HIDE DEF old, new
      <3> SUFFICES ASSUME c.pc = "write" PROVE c.snap.calls + new <= made'.n /\ c.snap.seen \subseteq made'.prints
        OBVIOUS
      <3>1. file # Nil /\ c.snap = file
        OBVIOUS
      <3>2. file.calls + old <= made.n /\ file.seen \subseteq made.prints
        BY <3>1 DEF CountsAreMade, old
      <3> QED
        BY <1>2, <1>3, <2>1, <3>1, <3>2
    <2>4. c.pc \in {"post", "create", "write"} => c.fp \in made'.prints
      BY DEF CountsAreMade, Counting
    <2> QED
      BY <1>2, <2>2, <2>3, <2>4, CountsStep
  <1>7. TurnIsMade'
    <2> DEFINE old == Cardinality(Bumping)
               new == Cardinality(Bumping')
    <2>1. old \in Nat /\ new \in Nat /\ new <= old
      <3>1. calls[k].pc \in {"pre", "bump"} <=> k \in Bumping
        BY DEF Bumping
      <3> QED
        BY <3>1, BumpingMoves
    <2>2. ~isSubagent /\ c.pc = "bump" => c.snap + new <= made.turn
      <3> HIDE DEF old, new
      <3> SUFFICES ASSUME ~isSubagent, c.pc = "bump" PROVE c.snap + new <= made.turn
        OBVIOUS
      <3>1. old <= made.turn /\ (turn # Nil => turn.reads + old <= made.turn)
        BY DEF TurnIsMade, old
      <3>2. CASE turn = Nil
        BY <1>2, <2>1, <3>1, <3>2
      <3>3. CASE turn # Nil
        BY <1>2, <1>4, <2>1, <3>1, <3>3
      <3> QED
        BY <3>2, <3>3
    <2> QED
      BY <2>1, <2>2, TurnStep
  <1>8. RoundsAreCounted'
    <2>1. message.present /\ c.pc = "write" => c.snap.calls >= rounds
      BY DEF RoundsAreCounted
    <2> QED
      BY <2>1, RoundsStep
  <1> QED
    BY <1>1, <1>5, <1>6, <1>7, <1>8


-----------------------------------------------------------------------------
(* What the model is told. *)

\* A line that is true of the reads made so far.
TrueOf(line, m) ==
  /\ line.n \in Nat
  /\ line.kind \in {"redundant", "ran before"} => line.fp \in m.prints
  /\ line.kind \in {"reached", "warning", "ran before"} => line.n <= m.n
  /\ line.kind = "reached" => line.n >= config.cap
  /\ line.kind = "nudge" => line.n <= m.turn

LEMMA TrueLines ==
  ASSUME HookInv
  PROVE  \A line \in said : TrueOf(line, made)
  BY DEF HookInv, HookTypeOK, AdviceIsTrue, TrueOf

\* A denial or a warning from a file whose reads have been made.
LEMMA LinesAreTrue ==
  ASSUME HookInv, NEW snap \in CapFile, NEW fp, NEW line,
         snap.calls <= made.n, snap.seen \subseteq made.prints,
         \/ line \in advisoryContext(snap, fp)
         \/ line \in denyReason(snap, fp) /\ (isRedundant(snap, fp) \/ atCap(snap))
  PROVE  TrueOf(line, made)
  <1>1. /\ snap.calls \in Nat /\ made.n \in Nat
        /\ config.cap \in Nat
    BY HookAssumption DEF HookInv, HookTypeOK, CapFile
  <1>2. \/ line = Repeat("redundant", fp, snap.calls) /\ fp \in snap.seen
        \/ line = OfCap("reached", snap.calls) /\ snap.calls + 1 > config.cap
        \/ line = OfCap("warning", snap.calls)
    BY DEF advisoryContext, denyReason, isRedundant, atCap
  <1>3. CASE line = Repeat("redundant", fp, snap.calls) /\ fp \in snap.seen
    <2>1. line.kind = "redundant" /\ line.fp = fp /\ line.n = snap.calls
      BY <1>3 DEF Repeat
    <2> QED
      BY <1>1, <1>3, <2>1 DEF TrueOf
  <1>4. CASE line = OfCap("reached", snap.calls) /\ snap.calls + 1 > config.cap
    <2>1. line.kind = "reached" /\ line.n = snap.calls
      BY <1>4 DEF OfCap
    <2>2. snap.calls >= config.cap
      BY <1>1, <1>4
    <2> QED
      BY <1>1, <2>1, <2>2 DEF TrueOf
  <1>5. CASE line = OfCap("warning", snap.calls)
    <2>1. line.kind = "warning" /\ line.n = snap.calls
      BY <1>5 DEF OfCap
    <2> QED
      BY <1>1, <2>1 DEF TrueOf
  <1> QED
    BY <1>2, <1>3, <1>4, <1>5

-----------------------------------------------------------------------------
(* The actions, one lemma each. *)

LEMMA SameCalls ==
  ASSUME HookInv, NEW k \in Slots
  PROVE  /\ calls[k] \in SlotCall
         /\ calls[k].pc # "idle" => calls[k].fp \in Prints
         /\ calls[k] = [fp |-> calls[k].fp, pc |-> calls[k].pc, snap |-> calls[k].snap,
                        enforced |-> calls[k].enforced]
  BY DEF HookInv, HookTypeOK, SlotsAreSound, SlotCall

LEMMA CountsAreNumbers ==
  Cardinality(Counting) \in Nat /\ Cardinality(Bumping) \in Nat
  BY HookAssumption, FS_Subset, FS_CardinalityType DEF Counting, Bumping

LEMMA GuardKeeps ==
  ASSUME HookInv, NEW k \in Slots, Guard(k)
  PROVE  HookInv'
  <1> DEFINE At(pc, snap, enforced) ==
        [fp |-> calls[k].fp, pc |-> pc, snap |-> snap, enforced |-> enforced]
  <1>1. /\ calls[k].pc = "pre" /\ isSubagent
        /\ UNCHANGED <<config, file, turn, made, message, rounds>>
    BY DEF Guard, Held
  <1>2. /\ calls[k] \in SlotCall /\ calls[k].fp \in Prints /\ calls[k].enforced \in BOOLEAN
    BY <1>1, SameCalls DEF SlotCall
  <1>3. \A line \in said : TrueOf(line, made)
    BY TrueLines
  <1>4. ASSUME NEW c \in SlotCall, SlotBecomes(k, c),
               \A line \in said' : TrueOf(line, made),
               c.pc \in {"idle", "run", "init"}, c.pc # "idle" => c.fp = calls[k].fp,
               c.pc = "init" => file = Nil,
               message.present /\ c.enforced => rounds + 1 <= config.cap
        PROVE  HookInv'
    <2>1. message.present => file # Nil
      BY DEF HookInv, RoundsAreCounted
    <2>2. \A line \in said' : line.n \in Nat
      BY <1>4 DEF TrueOf
    <2>3. HookTypeOK' /\ SlotsAreSound' /\ CountsAreMade' /\ TurnIsMade' /\ RoundsAreCounted'
      BY <1>1, <1>2, <1>4, <2>1, <2>2, QuietStep
    <2>4. AdviceIsTrue'
      BY <1>1, <1>4 DEF AdviceIsTrue, TrueOf
    <2> QED
      BY <2>3, <2>4 DEF HookInv
  <1>5. CASE state.bypass \/ resolveEnforcementMode = "off"
    <2> DEFINE c == At("run", Nil, calls[k].enforced)
    <2>1. SlotBecomes(k, c) /\ said' = said
      BY <1>5 DEF Guard, Becomes, ReadsInto, Moves, SlotBecomes
    <2>2. c \in SlotCall
      BY <1>2 DEF SlotCall, Known
    <2>3. message.present /\ c.enforced => rounds + 1 <= config.cap
      BY DEF HookInv, RoundsAreCounted
    <2> QED
      BY <1>3, <1>4, <2>1, <2>2, <2>3
  <1>6. CASE ~(state.bypass \/ resolveEnforcementMode = "off") /\ file = Nil
    <2> DEFINE c == At("init", Nil, calls[k].enforced)
    <2>1. SlotBecomes(k, c) /\ said' = said
      BY <1>6 DEF Guard, Becomes, ReadsInto, Moves, SlotBecomes
    <2>2. c \in SlotCall
      BY <1>2 DEF SlotCall, Known
    <2>3. message.present /\ c.enforced => rounds + 1 <= config.cap
      BY DEF HookInv, RoundsAreCounted
    <2> QED
      BY <1>3, <1>4, <1>6, <2>1, <2>2, <2>3
  <1>7. CASE ~(state.bypass \/ resolveEnforcementMode = "off") /\ file # Nil
    <2>1. Decide(k, file)
      BY <1>7 DEF Guard
    <2>2. /\ file \in CapFile /\ file.calls \in Nat /\ config.cap \in Nat
          /\ file.calls <= made.n /\ file.seen \subseteq made.prints
      <3>1. file \in CapFile /\ file.calls \in Nat /\ made.n \in Nat
        BY <1>7 DEF HookInv, HookTypeOK, CapFile
      <3>2. Cardinality(Counting) \in Nat
        BY CountsAreNumbers
      <3>3. file.calls + Cardinality(Counting) <= made.n /\ file.seen \subseteq made.prints
        BY <1>7 DEF HookInv, CountsAreMade
      <3>4. config.cap \in Nat
        BY HookAssumption DEF HookInv, HookTypeOK
      <3> DEFINE n == Cardinality(Counting)
      <3> HIDE DEF n
      <3>5. file.calls <= made.n
        BY <3>1, <3>2, <3>3 DEF n
      <3> QED
        BY <3>1, <3>3, <3>4, <3>5
    <2>3. CASE (isRedundant(file, calls[k].fp) \/ atCap(file)) /\ resolveEnforcementMode = "enforced"
      <3>1. SlotBecomes(k, Idle) /\ said' = denyReason(file, calls[k].fp)
        BY <2>1, <2>3 DEF Decide, Ends, SlotBecomes
      <3>2. \A line \in said' : TrueOf(line, made)
        BY <2>2, <2>3, <3>1, LinesAreTrue
      <3>3. Idle \in SlotCall /\ Idle.pc = "idle" /\ ~Idle.enforced
        BY DEF Idle, SlotCall, Known
      <3> QED
        BY <1>4, <3>1, <3>2, <3>3
    <2>4. CASE (isRedundant(file, calls[k].fp) \/ atCap(file)) /\ resolveEnforcementMode # "enforced"
      <3> DEFINE c == At("run", Nil, FALSE)
      <3>1. SlotBecomes(k, c) /\ said' = advisoryContext(file, calls[k].fp)
        BY <2>1, <2>4 DEF Decide, Runs, Moves, SlotBecomes
      <3>2. \A line \in said' : TrueOf(line, made)
        BY <2>2, <3>1, LinesAreTrue
      <3>3. c \in SlotCall
        BY <1>2 DEF SlotCall, Known
      <3> QED
        BY <1>4, <3>1, <3>2, <3>3
    <2>5. CASE ~(isRedundant(file, calls[k].fp) \/ atCap(file))
      <3> DEFINE c == At("run", Nil, resolveEnforcementMode = "enforced")
      <3>1. SlotBecomes(k, c) /\ said' = said
        BY <2>1, <2>5 DEF Decide, Runs, Moves, SlotBecomes
      <3>2. c \in SlotCall
        BY <1>2 DEF SlotCall, Known
      <3>3. message.present => rounds + 1 <= config.cap
        <4>1. rounds \in Nat /\ (message.present => file.calls >= rounds)
          BY DEF HookInv, HookTypeOK, RoundsAreCounted
        <4>2. ~(file.calls + 1 > config.cap)
          BY <2>5 DEF atCap
        <4> QED
          BY <2>2, <4>1, <4>2
      <3> QED
        BY <1>3, <1>4, <3>1, <3>2, <3>3
    <2> QED
      BY <2>3, <2>4, <2>5
  <1> QED
    BY <1>5, <1>6, <1>7


\* What was told stays true while the counts of reads made do not go down.
LEMMA AdviceStays ==
  ASSUME HookInv, UNCHANGED <<config, made>>, \A line \in said' : TrueOf(line, made)
  PROVE  AdviceIsTrue' /\ \A line \in said' : line.n \in Nat
  BY DEF AdviceIsTrue, TrueOf

\* A step of one call that changes nothing but its own record.
LEMMA SilentKeeps ==
  ASSUME HookInv, NEW k \in Slots, NEW c \in SlotCall, SlotBecomes(k, c),
         UNCHANGED <<config, file, turn, said, made, message, rounds>>,
         c.pc # "idle" => c.fp \in Prints,
         c.pc \in {"post", "create", "write"} =>
           calls[k].pc \in {"post", "create", "write"} /\ c.fp = calls[k].fp,
         c.pc = "write" => c.snap = file /\ file # Nil,
         c.pc \in {"pre", "bump"} => calls[k].pc \in {"pre", "bump"},
         c.pc = "bump" => ~isSubagent /\ c.snap = IF turn = Nil THEN 0 ELSE turn.reads,
         c.pc \in {"init", "run", "post", "create", "write"} => isSubagent,
         message.present => c.pc \notin {"init", "create"},
         c.enforced => calls[k].enforced
  PROVE  HookInv'
  <1>1. AdviceIsTrue' /\ \A line \in said' : line.n \in Nat
    BY TrueLines, AdviceStays
  <1>2. message.present /\ c.enforced => rounds + 1 <= config.cap
    BY DEF HookInv, RoundsAreCounted
  <1> QED
    BY <1>1, <1>2, QuietStep DEF HookInv

LEMMA IdleSlot == Idle \in SlotCall /\ Idle.pc = "idle" /\ Idle.enforced = FALSE
  BY DEF Idle, SlotCall, Known

\* A call that ends without a count.
LEMMA EndsKeeps ==
  ASSUME HookInv, NEW k \in Slots, Ends(k),
         UNCHANGED <<config, file, turn, said, made, message, rounds>>
  PROVE  HookInv'
  <1>1. SlotBecomes(k, Idle)
    BY DEF Ends, SlotBecomes
  <1> QED
    BY <1>1, IdleSlot, SilentKeeps

\* A subagent's call that is let through although its guard has failed.
LEMMA PassesKeeps ==
  ASSUME HookInv, NEW k \in Slots, Becomes(k, "run"), isSubagent, calls[k].pc # "idle",
         UNCHANGED <<config, file, turn, said, made, message, rounds>>
  PROVE  HookInv'
  <1> DEFINE c == [fp |-> calls[k].fp, pc |-> "run", snap |-> Nil, enforced |-> calls[k].enforced]
  <1>1. SlotBecomes(k, c)
    BY DEF Becomes, ReadsInto, Moves, SlotBecomes
  <1>2. calls[k] \in SlotCall /\ calls[k].fp \in Prints
    BY SameCalls
  <1>3. c \in SlotCall
    BY <1>2 DEF SlotCall, Known
  <1> QED
    BY <1>1, <1>2, <1>3, SilentKeeps

LEMMA DieKeeps ==
  ASSUME HookInv, NEW k \in Slots, Die(k)
  PROVE  HookInv'
  <1>1. /\ calls[k].pc # "idle"
        /\ UNCHANGED <<config, file, turn, said, made, message, rounds>>
    BY DEF Die
  <1>2. CASE calls[k].pc \in {"pre", "init"} /\ isSubagent
    BY <1>1, <1>2, PassesKeeps DEF Die
  <1>3. CASE ~(calls[k].pc \in {"pre", "init"} /\ isSubagent)
    BY <1>1, <1>3, EndsKeeps DEF Die
  <1> QED
    BY <1>2, <1>3

LEMMA BumpReadsKeeps ==
  ASSUME HookInv, NEW k \in Slots, BumpReads(k)
  PROVE  HookInv'
  <1>1. /\ calls[k].pc = "pre" /\ ~isSubagent
        /\ UNCHANGED <<config, file, turn, said, made, message, rounds>>
    BY DEF BumpReads, Held
  <1>2. CASE state.bypass
    BY <1>1, <1>2, EndsKeeps DEF BumpReads
  <1>3. CASE ~state.bypass
    <2> DEFINE n == IF turn = Nil THEN 0 ELSE turn.reads
               c == [fp |-> calls[k].fp, pc |-> "bump", snap |-> n, enforced |-> calls[k].enforced]
    <2>1. SlotBecomes(k, c)
      BY <1>3 DEF BumpReads, ReadsInto, Moves, SlotBecomes
    <2>2. calls[k] \in SlotCall /\ calls[k].fp \in Prints
      BY <1>1, SameCalls
    <2>3. n \in Nat
      BY DEF HookInv, HookTypeOK, TurnFile
    <2>4. c \in SlotCall
      BY <2>2, <2>3 DEF SlotCall, Known
    <2> QED
      BY <1>1, <2>1, <2>2, <2>4, SilentKeeps
  <1> QED
    BY <1>2, <1>3

LEMMA CountKeeps ==
  ASSUME HookInv, NEW k \in Slots, Count(k)
  PROVE  HookInv'
  <1>1. /\ calls[k].pc = "post" /\ isSubagent
        /\ UNCHANGED <<config, file, turn, said, made, message, rounds>>
    BY DEF Count, Held, HookInv, SlotsAreSound
  <1>2. calls[k] \in SlotCall /\ calls[k].fp \in Prints
    BY <1>1, SameCalls
  <1>3. CASE state.bypass
    BY <1>1, <1>3, EndsKeeps DEF Count
  <1>4. CASE ~state.bypass /\ file = Nil
    <2> DEFINE c == [fp |-> calls[k].fp, pc |-> "create", snap |-> Nil, enforced |-> calls[k].enforced]
    <2>1. SlotBecomes(k, c)
      BY <1>4 DEF Count, Becomes, ReadsInto, Moves, SlotBecomes
    <2>2. c \in SlotCall
      BY <1>2 DEF SlotCall, Known
    <2>3. ~message.present
      BY <1>4 DEF HookInv, RoundsAreCounted
    <2> QED
      BY <1>1, <1>2, <2>1, <2>2, <2>3, SilentKeeps
  <1>5. CASE ~state.bypass /\ file # Nil
    <2> DEFINE c == [fp |-> calls[k].fp, pc |-> "write", snap |-> file, enforced |-> calls[k].enforced]
    <2>1. SlotBecomes(k, c)
      BY <1>5 DEF Count, ReadsInto, Moves, SlotBecomes
    <2>2. c \in SlotCall
      BY <1>2, <1>5 DEF SlotCall, Known, HookInv, HookTypeOK
    <2> QED
      BY <1>1, <1>2, <1>5, <2>1, <2>2, SilentKeeps
  <1> QED
    BY <1>3, <1>4, <1>5


LEMMA RunKeeps ==
  ASSUME HookInv, NEW k \in Slots, NEW ok \in BOOLEAN, Run(k, ok)
  PROVE  HookInv'
  <1>1. /\ calls[k].pc = "run" /\ isSubagent
        /\ UNCHANGED <<config, file, turn, said, message, rounds>>
    BY DEF Run, Held, HookInv, SlotsAreSound
  <1>2. calls[k] \in SlotCall /\ calls[k].fp \in Prints
    BY <1>1, SameCalls
  <1>3. CASE ~ok
    BY <1>1, <1>3, EndsKeeps DEF Run
  <1>4. CASE ok
    <2> DEFINE c == [fp |-> calls[k].fp, pc |-> "post", snap |-> Nil, enforced |-> calls[k].enforced]
    <2>1. SlotBecomes(k, c) /\ Becomes(k, "post")
      BY <1>4 DEF Run, Becomes, ReadsInto, Moves, SlotBecomes
    <2>2. /\ made.prints \in SUBSET Prints /\ made.n \in Nat /\ made.turn \in Nat
      BY DEF HookInv, HookTypeOK
    <2>3. /\ made'.prints = made.prints \union {calls[k].fp}
          /\ made'.n = made.n + 1 /\ made'.turn = made.turn
          /\ made' \in [prints : SUBSET Prints, n : Nat, turn : Nat]
      <3>1. made' = [prints |-> made.prints \union {calls[k].fp}, n |-> made.n + 1, turn |-> made.turn]
        BY <1>4 DEF Run
      <3>2. made \in [prints : SUBSET Prints, n : Nat, turn : Nat]
        BY DEF HookInv, HookTypeOK
      <3> QED
        BY <1>2, <2>2, <3>1, <3>2
    <2>4. HookTypeOK'
      BY <1>1, <1>2, <2>1, <2>3 DEF HookInv, HookTypeOK, SlotBecomes, SlotCall, Known
    <2>5. SlotsAreSound'
      BY <1>1, <1>2, <2>1, SoundStep DEF HookInv
    <2>6. CountsAreMade'
      <3>1. calls[k].pc \notin {"post", "create", "write"}
        BY <1>1
      <3>2. k \notin Counting
        BY <3>1 DEF Counting
      <3>3. Cardinality(Counting') = Cardinality(Counting) + 1 /\ Cardinality(Counting) \in Nat
        BY <2>1, <3>2, CountingMoves DEF HookInv
      <3>4. Cardinality(Counting') + made.n <= Cardinality(Counting) + made'.n
        BY <2>2, <2>3, <3>3
      <3> QED
        BY <1>1, <2>1, <2>2, <2>3, <3>4, CountsStep DEF HookInv
    <2>7. TurnIsMade'
      BY <1>1 DEF HookInv, TurnIsMade, isSubagent
    <2>8. RoundsAreCounted'
      <3>1. message.present /\ c.enforced => rounds + 1 <= config.cap
        BY DEF HookInv, RoundsAreCounted
      <3> QED
        BY <1>1, <2>1, <3>1, RoundsStep DEF HookInv
    <2>9. AdviceIsTrue'
      BY <1>1, <2>2, <2>3, AdviceStep DEF HookInv
    <2> QED
      BY <2>4, <2>5, <2>6, <2>7, <2>8, <2>9 DEF HookInv
  <1> QED
    BY <1>3, <1>4

\* A fresh file: nothing counted, and no round either, since there was none before.
LEMMA FreshFile ==
  /\ initSubagentState \in CapFile
  /\ initSubagentState.calls = 0 /\ initSubagentState.seen = {}
  BY DEF initSubagentState, CapFile

LEMMA GuardInitsKeeps ==
  ASSUME HookInv, NEW k \in Slots, GuardInits(k)
  PROVE  HookInv'
  <1> DEFINE c == [fp |-> calls[k].fp, pc |-> "run", snap |-> Nil,
                   enforced |-> resolveEnforcementMode = "enforced"]
  <1>1. /\ calls[k].pc = "init" /\ isSubagent /\ file' = initSubagentState
        /\ UNCHANGED <<config, turn, said, made, message, rounds>>
        /\ SlotBecomes(k, c)
    BY DEF GuardInits, Held, HookInv, SlotsAreSound, Runs, Moves, SlotBecomes
  <1>2. calls[k] \in SlotCall /\ calls[k].fp \in Prints
    BY <1>1, SameCalls
  <1>3. c \in SlotCall
    BY <1>2 DEF SlotCall, Known
  <1>4. HookTypeOK'
    BY <1>1, <1>3, FreshFile DEF HookInv, HookTypeOK, SlotBecomes
  <1>5. SlotsAreSound'
    BY <1>1, <1>2, SoundStep DEF HookInv
  <1>6. CountsAreMade'
    <2>1. k \notin Counting
      BY <1>1 DEF Counting
    <2>2. Cardinality(Counting') = Cardinality(Counting) /\ Cardinality(Counting) \in Nat
      BY <1>1, <2>1, CountingMoves DEF HookInv
    <2>3. made.n \in Nat /\ Cardinality(Counting) <= made.n
      BY DEF HookInv, HookTypeOK, CountsAreMade
    <2>4. file'.calls + Cardinality(Counting') <= made'.n /\ file'.seen \subseteq made'.prints
      BY <1>1, <2>2, <2>3, FreshFile
    <2> QED
      BY <1>1, <2>2, <2>3, <2>4, FreshFile, CountsStep DEF HookInv
  <1>7. TurnIsMade'
    BY <1>1 DEF HookInv, TurnIsMade, isSubagent
  <1>8. RoundsAreCounted'
    <2>1. ~message.present
      BY <1>1 DEF HookInv, RoundsAreCounted
    <2> QED
      BY <1>1, <2>1, RoundsStep DEF HookInv
  <1>9. AdviceIsTrue'
    BY <1>1 DEF HookInv, AdviceIsTrue
  <1> QED
    BY <1>4, <1>5, <1>6, <1>7, <1>8, <1>9 DEF HookInv

LEMMA CountCreatesKeeps ==
  ASSUME HookInv, NEW k \in Slots, CountCreates(k)
  PROVE  HookInv'
  <1> DEFINE c == [fp |-> calls[k].fp, pc |-> "write", snap |-> initSubagentState,
                   enforced |-> calls[k].enforced]
  <1>1. /\ calls[k].pc = "create" /\ isSubagent /\ file' = initSubagentState
        /\ UNCHANGED <<config, turn, said, made, message, rounds>>
        /\ SlotBecomes(k, c)
    BY DEF CountCreates, Held, HookInv, SlotsAreSound, ReadsInto, Moves, SlotBecomes
  <1>2. calls[k] \in SlotCall /\ calls[k].fp \in Prints
    BY <1>1, SameCalls
  <1>3. c \in SlotCall
    BY <1>2, FreshFile DEF SlotCall, Known
  <1>4. HookTypeOK'
    BY <1>1, <1>3, FreshFile DEF HookInv, HookTypeOK, SlotBecomes
  <1>5. SlotsAreSound'
    BY <1>1, <1>2, FreshFile, SoundStep DEF HookInv
  <1>6. CountsAreMade'
    <2>1. k \in Counting
      BY <1>1 DEF Counting
    <2>2. Cardinality(Counting') = Cardinality(Counting) /\ Cardinality(Counting) \in Nat
      BY <1>1, <2>1, CountingMoves DEF HookInv
    <2>3. /\ made.n \in Nat /\ Cardinality(Counting) <= made.n
          /\ calls[k].fp \in made.prints
      BY <2>1 DEF HookInv, HookTypeOK, CountsAreMade
    <2>4. /\ initSubagentState.calls + Cardinality(Counting') <= made'.n
          /\ initSubagentState.seen \subseteq made'.prints
      BY <1>1, <2>2, <2>3, FreshFile
    <2> QED
      BY <1>1, <2>2, <2>3, <2>4, FreshFile, CountsStep DEF HookInv
  <1>7. TurnIsMade'
    BY <1>1 DEF HookInv, TurnIsMade, isSubagent
  <1>8. RoundsAreCounted'
    <2>1. ~message.present
      BY <1>1 DEF HookInv, RoundsAreCounted
    <2> QED
      BY <1>1, <2>1, RoundsStep DEF HookInv
  <1>9. AdviceIsTrue'
    BY <1>1 DEF HookInv, AdviceIsTrue
  <1> QED
    BY <1>4, <1>5, <1>6, <1>7, <1>8, <1>9 DEF HookInv


LEMMA CountWritesKeeps ==
  ASSUME HookInv, NEW k \in Slots, CountWrites(k)
  PROVE  HookInv'
  <1> DEFINE snap == calls[k].snap
             fp == calls[k].fp
  <1>1. /\ calls[k].pc = "write" /\ isSubagent /\ file' = recordReadCall(snap, fp)
        /\ said' = capBanner(file'.calls, fp, isRedundant(snap, fp))
        /\ UNCHANGED <<config, turn, made, rounds>>
        /\ SlotBecomes(k, Idle)
    BY DEF CountWrites, HookInv, SlotsAreSound, Ends, SlotBecomes
  <1>2. calls[k] \in SlotCall /\ fp \in Prints /\ snap \in CapFile
    BY <1>1, SameCalls DEF HookInv, SlotsAreSound
  <1>3. /\ snap.calls \in Nat /\ made.n \in Nat /\ rounds \in Nat /\ config.cap \in Nat
        /\ snap.seen \subseteq Prints
    BY <1>2, HookAssumption DEF HookInv, HookTypeOK, CapFile
  <1>4. /\ file'.calls = snap.calls + 1 /\ file'.seen = snap.seen \union {fp}
        /\ file' \in CapFile
    BY <1>1, <1>2, <1>3 DEF recordReadCall, CapFile
  <1>5. /\ message'.present = message.present
        /\ message' \in [present : BOOLEAN, recorded : BOOLEAN]
        /\ message'.recorded => message.recorded \/ calls[k].enforced
    <2>1. message' = [message EXCEPT !.recorded = @ \/ calls[k].enforced]
      BY DEF CountWrites
    <2>2. message \in [present : BOOLEAN, recorded : BOOLEAN]
      BY DEF HookInv, HookTypeOK
    <2> QED
      BY <2>1, <2>2
  <1>6. /\ k \in Counting
        /\ Cardinality(Counting) \in Nat /\ Cardinality(Counting') \in Nat
        /\ Cardinality(Counting') = Cardinality(Counting) - 1
    <2>1. k \in Counting
      BY <1>1 DEF Counting
    <2> QED
      BY <1>1, <2>1, IdleSlot, CountingMoves DEF HookInv
  <1>7. /\ snap.calls + Cardinality(Counting) <= made.n
        /\ snap.seen \subseteq made.prints /\ fp \in made.prints
    BY <1>1, <1>6 DEF HookInv, CountsAreMade
  <1>8. /\ snap.calls + 1 + Cardinality(Counting') <= made.n
        /\ snap.calls + 1 <= made.n
    <2> DEFINE a == Cardinality(Counting)
               b == Cardinality(Counting')
    <2>1. a \in Nat /\ b \in Nat /\ b = a - 1 /\ snap.calls + a <= made.n
      BY <1>6, <1>7
    <2> HIDE DEF a, b
    <2>2. snap.calls + 1 + b <= made.n /\ snap.calls + 1 <= made.n
      BY <1>3, <2>1
    <2> QED
      BY <2>2 DEF b
  <1>9. \A line \in said' : TrueOf(line, made)
    <2> SUFFICES ASSUME NEW line \in said' PROVE TrueOf(line, made)
      OBVIOUS
    <2> DEFINE n == file'.calls
    <2>1. n \in Nat /\ n = snap.calls + 1 /\ n <= made.n
      BY <1>3, <1>4, <1>8
    <2>2. \/ line = Repeat("ran before", fp, n) /\ isRedundant(snap, fp)
          \/ line = OfCap("reached", n) /\ n >= config.cap
          \/ line = OfCap("warning", n)
      BY <1>1 DEF capBanner
    <2>3. CASE line = Repeat("ran before", fp, n) /\ isRedundant(snap, fp)
      <3>1. line.kind = "ran before" /\ line.fp = fp /\ line.n = n
        BY <2>3 DEF Repeat
      <3> QED
        BY <1>7, <2>1, <3>1 DEF TrueOf
    <2>4. CASE line = OfCap("reached", n) /\ n >= config.cap
      <3>1. line.kind = "reached" /\ line.n = n
        BY <2>4 DEF OfCap
      <3> QED
        BY <2>1, <2>4, <3>1 DEF TrueOf
    <2>5. CASE line = OfCap("warning", n)
      <3>1. line.kind = "warning" /\ line.n = n
        BY <2>5 DEF OfCap
      <3> QED
        BY <2>1, <3>1 DEF TrueOf
    <2> QED
      BY <2>2, <2>3, <2>4, <2>5
  <1>10. AdviceIsTrue' /\ \A line \in said' : line.n \in Nat
    BY <1>1, <1>9, AdviceStays
  <1>11. HookTypeOK'
    BY <1>1, <1>4, <1>5, <1>10, IdleSlot DEF HookInv, HookTypeOK, SlotBecomes
  <1>12. SlotsAreSound'
    BY <1>1, IdleSlot, SoundStep DEF HookInv
  <1>13. CountsAreMade'
    <2>1. file'.calls + Cardinality(Counting') <= made'.n /\ file'.seen \subseteq made'.prints
      BY <1>1, <1>4, <1>7, <1>8
    <2>2. Cardinality(Counting') + made.n <= Cardinality(Counting) + made'.n
      <3> DEFINE a == Cardinality(Counting)
                 b == Cardinality(Counting')
      <3>1. a \in Nat /\ b \in Nat /\ b = a - 1 /\ made'.n = made.n
        BY <1>1, <1>6
      <3> HIDE DEF a, b
      <3>2. b + made.n <= a + made'.n
        BY <1>3, <3>1
      <3> QED
        BY <3>2 DEF a, b
    <2>3. made'.n \in Nat /\ made.prints \subseteq made'.prints
      BY <1>1, <1>3
    <2> QED
      BY <1>1, <1>4, <2>1, <2>2, <2>3, IdleSlot, CountsStep DEF HookInv
  <1>14. TurnIsMade'
    BY <1>1 DEF HookInv, TurnIsMade, isSubagent
  <1>15. RoundsAreCounted'
    <2>1. message.present =>
            /\ snap.calls >= rounds
            /\ message.recorded => rounds + 1 <= config.cap
            /\ calls[k].enforced => rounds + 1 <= config.cap
      BY <1>1 DEF HookInv, RoundsAreCounted
    <2>2. message.present =>
            /\ file' # Nil /\ file'.calls \in Nat /\ file'.calls >= rounds + 1
            /\ message'.recorded => rounds + 1 <= config.cap
      BY <1>3, <1>4, <1>5, <2>1, HookAssumption
    <2> QED
      BY <1>1, <1>5, <2>2, IdleSlot, RoundsStep DEF HookInv
  <1> QED
    BY <1>10, <1>11, <1>12, <1>13, <1>14, <1>15 DEF HookInv

LEMMA BumpWritesKeeps ==
  ASSUME HookInv, NEW k \in Slots, BumpWrites(k)
  PROVE  HookInv'
  <1> DEFINE reads == calls[k].snap + 1
  <1>1. /\ calls[k].pc = "bump" /\ ~isSubagent /\ turn' = bumpTurnReads(calls[k].snap)
        /\ said' = IF turn'.reads > ORCHESTRATOR_TURN_CAP THEN {OfCap("nudge", turn'.reads)}
                   ELSE said
        /\ UNCHANGED <<config, file, made, message, rounds>>
        /\ SlotBecomes(k, Idle)
    BY DEF BumpWrites, Held, HookInv, SlotsAreSound, Ends, SlotBecomes
  <1>2. calls[k].snap \in Nat /\ made.turn \in Nat /\ made.n \in Nat
    BY <1>1 DEF HookInv, SlotsAreSound, HookTypeOK
  <1>3. turn' \in TurnFile /\ turn'.reads = reads /\ reads \in Nat
    BY <1>1, <1>2 DEF bumpTurnReads, TurnFile
  <1>4. /\ k \in Bumping
        /\ Cardinality(Bumping) \in Nat /\ Cardinality(Bumping') \in Nat
        /\ Cardinality(Bumping') = Cardinality(Bumping) - 1
    <2>1. k \in Bumping
      BY <1>1 DEF Bumping
    <2> QED
      BY <1>1, <2>1, IdleSlot, BumpingMoves DEF HookInv
  <1>5. /\ reads + Cardinality(Bumping') <= made.turn /\ reads <= made.turn
        /\ Cardinality(Bumping') <= Cardinality(Bumping)
    <2> DEFINE a == Cardinality(Bumping)
               b == Cardinality(Bumping')
    <2>1. a \in Nat /\ b \in Nat /\ b = a - 1
      BY <1>4
    <2>2. calls[k].snap + a <= made.turn
      BY <1>1 DEF HookInv, TurnIsMade
    <2> HIDE DEF a, b
    <2>3. reads + b <= made.turn /\ reads <= made.turn /\ b <= a
      BY <1>2, <2>1, <2>2
    <2> QED
      BY <2>3 DEF a, b
  <1>6. \A line \in said' : TrueOf(line, made)
    <2>1. CASE said' = said
      BY <2>1, TrueLines
    <2>2. CASE said' = {OfCap("nudge", reads)}
      <3>1. /\ OfCap("nudge", reads).kind = "nudge" /\ OfCap("nudge", reads).n = reads
        BY DEF OfCap
      <3>2. TrueOf(OfCap("nudge", reads), made)
        BY <1>3, <1>5, <3>1 DEF TrueOf
      <3> QED
        BY <2>2, <3>2
    <2> QED
      BY <1>1, <1>3, <2>1, <2>2
  <1>7. AdviceIsTrue' /\ \A line \in said' : line.n \in Nat
    BY <1>1, <1>6, AdviceStays
  <1>8. HookTypeOK'
    BY <1>1, <1>3, <1>7, IdleSlot DEF HookInv, HookTypeOK, SlotBecomes
  <1>9. SlotsAreSound'
    BY <1>1, IdleSlot, SoundStep DEF HookInv
  <1>10. CountsAreMade'
    <2>1. k \notin Counting
      BY <1>1 DEF Counting
    <2>2. Cardinality(Counting') = Cardinality(Counting) /\ Cardinality(Counting) \in Nat
      BY <1>1, <2>1, IdleSlot, CountingMoves DEF HookInv
    <2>3. Cardinality(Counting') + made.n <= Cardinality(Counting) + made'.n
      BY <1>1, <1>2, <2>2
    <2> QED
      BY <1>1, <1>2, <2>3, IdleSlot, CountsStep DEF HookInv
  <1>11. TurnIsMade'
    BY <1>1, <1>3, <1>5, IdleSlot, TurnStep DEF HookInv
  <1>12. RoundsAreCounted'
    BY <1>1, IdleSlot, RoundsStep DEF HookInv
  <1> QED
    BY <1>7, <1>8, <1>9, <1>10, <1>11, <1>12 DEF HookInv


\* All the calls of a message begin at once, when those of the one before have ended.
LEMMA MessageKeeps ==
  ASSUME HookInv, NEW fps \in [Slots -> Prints \union {Nil}], Message(fps)
  PROVE  HookInv'
  <1> DEFINE begun == {k \in Slots : fps[k] # Nil}
             n == Cardinality(begun)
  <1>1. /\ \A k \in Slots : calls[k].pc = "idle"
        /\ calls' = [k \in Slots |-> IF fps[k] = Nil THEN Idle
                                     ELSE [Idle EXCEPT !.fp = fps[k], !.pc = "pre"]]
        /\ made' = [made EXCEPT !.turn = @ + n]
        /\ UNCHANGED <<config, file, turn, said>>
    BY IdleSlot DEF Message, AllIdle
  <1>2. \A k \in Slots :
          /\ calls'[k] \in SlotCall /\ calls'[k].enforced = FALSE
          /\ calls'[k].pc = IF fps[k] = Nil THEN "idle" ELSE "pre"
          /\ fps[k] # Nil => calls'[k].fp = fps[k] /\ fps[k] \in Prints
    <2> SUFFICES ASSUME NEW k \in Slots
                 PROVE  /\ calls'[k] \in SlotCall /\ calls'[k].enforced = FALSE
                        /\ calls'[k].pc = IF fps[k] = Nil THEN "idle" ELSE "pre"
                        /\ fps[k] # Nil => calls'[k].fp = fps[k] /\ fps[k] \in Prints
      OBVIOUS
    <2>1. CASE fps[k] = Nil
      BY <1>1, <2>1, IdleSlot
    <2>2. CASE fps[k] # Nil
      <3>1. calls'[k] = [fp |-> fps[k], pc |-> "pre", snap |-> Nil, enforced |-> FALSE]
        BY <1>1, <2>2 DEF Idle
      <3>2. fps[k] \in Prints
        BY <2>2
      <3> QED
        BY <2>2, <3>1, <3>2 DEF SlotCall, Known
    <2> QED
      BY <2>1, <2>2
  <1>3. n \in Nat
    BY HookAssumption, FS_Subset, FS_CardinalityType
  <1>4. /\ made.turn \in Nat /\ made.n \in Nat /\ rounds \in Nat /\ config.cap \in Nat
        /\ file # Nil => file.calls \in Nat
        /\ turn # Nil => turn.reads \in Nat
    BY HookAssumption DEF HookInv, HookTypeOK, CapFile, TurnFile
  <1>5. /\ made'.turn = made.turn + n /\ made'.n = made.n /\ made'.prints = made.prints
        /\ made' \in [prints : SUBSET Prints, n : Nat, turn : Nat]
    <2>1. made \in [prints : SUBSET Prints, n : Nat, turn : Nat]
      BY DEF HookInv, HookTypeOK
    <2> DEFINE t == made.turn + n
    <2>2. made' = [made EXCEPT !.turn = t]
      BY <1>1
    <2>5. t \in Nat
      <3> HIDE DEF n
      <3> QED
        BY <1>3, <1>4
    <2> HIDE DEF t
    <2>3. made'.turn = t /\ made'.n = made.n /\ made'.prints = made.prints
      BY <2>1, <2>2
    <2>4. made' \in [prints : SUBSET Prints, n : Nat, turn : Nat]
      BY <2>1, <2>2, <2>5
    <2> QED
      BY <2>3, <2>4 DEF t
  <1>6. /\ Counting = {} /\ Counting' = {} /\ Bumping = {} /\ Bumping' = begun
        /\ Cardinality({}) = 0
    <2>1. Counting = {} /\ Bumping = {}
      BY <1>1 DEF Counting, Bumping
    <2>2. Counting' = {}
      BY <1>2 DEF Counting
    <2>3. Bumping' = begun
      BY <1>2 DEF Bumping
    <2>4. Cardinality({}) = 0
      BY FS_EmptySet
    <2> QED
      BY <2>1, <2>2, <2>3, <2>4
  <1>7. /\ message' \in [present : BOOLEAN, recorded : BOOLEAN]
        /\ message'.present = (file # Nil) /\ message'.recorded = FALSE
    BY Zenon DEF Message
  <1>8. /\ message.present /\ message.recorded => rounds' = rounds + 1
        /\ ~(message.present /\ message.recorded) => rounds' = rounds
    BY Zenon DEF Message
  <1>9. HookTypeOK'
    <2>1. calls' \in [Slots -> SlotCall]
      BY <1>1, <1>2
    <2>2. rounds' \in Nat
      BY <1>4, <1>8
    <2> QED
      BY <1>1, <1>5, <1>7, <2>1, <2>2 DEF HookInv, HookTypeOK
  <1>10. SlotsAreSound'
    BY <1>2 DEF SlotsAreSound
  <1>11. CountsAreMade'
    <2>1. 0 <= made'.n
      BY <1>4, <1>5
    <2>2. file # Nil => file.calls + 0 <= made.n /\ file.seen \subseteq made.prints
      BY <1>6 DEF HookInv, CountsAreMade
    <2>3. \A k \in Slots : calls'[k].pc # "write"
      BY <1>2
    <2> DEFINE m == Cardinality(Counting')
    <2>4. m = 0
      BY <1>6
    <2> HIDE DEF m
    <2>5. m <= made'.n /\ (file' # Nil => file'.calls + m <= made'.n /\ file'.seen \subseteq made'.prints)
      BY <1>1, <1>5, <2>1, <2>2, <2>4
    <2> QED
      BY <1>6, <2>3, <2>5 DEF CountsAreMade, m
  <1>12. TurnIsMade'
    <2> SUFFICES ASSUME ~isSubagent PROVE TurnIsMade'
      BY <1>1 DEF TurnIsMade, isSubagent
    <2>1. turn # Nil => turn.reads + 0 <= made.turn
      BY <1>6 DEF HookInv, TurnIsMade
    <2>2. n <= made'.turn /\ (turn # Nil => turn.reads + n <= made'.turn)
      <3> HIDE DEF n
      <3> QED
        BY <1>3, <1>4, <1>5, <2>1
    <2>3. \A k \in Slots : calls'[k].pc # "bump"
      BY <1>2
    <2> DEFINE b == Cardinality(Bumping')
    <2>4. b = n
      BY <1>6
    <2> HIDE DEF n, b
    <2>5. b <= made'.turn /\ (turn' # Nil => turn'.reads + b <= made'.turn)
      BY <1>1, <2>2, <2>4
    <2> QED
      BY <2>3, <2>5 DEF TurnIsMade, b
  <1>13. RoundsAreCounted'
    <2>1. rounds' <= config'.cap
      BY <1>1, <1>4, <1>8 DEF HookInv, RoundsAreCounted
    <2>2. ~message'.present => rounds' = 0
      BY <1>1, <1>7, <1>8 DEF HookInv, RoundsAreCounted
    <2>3. file # Nil => file.calls >= rounds'
      <3>1. CASE message.present
        BY <1>4, <1>8, <3>1 DEF HookInv, RoundsAreCounted
      <3>2. CASE ~message.present
        BY <1>4, <1>8, <3>2 DEF HookInv, RoundsAreCounted
      <3> QED
        BY <3>1, <3>2
    <2>4. message'.present => file' # Nil /\ file'.calls >= rounds'
      BY <1>1, <1>7, <2>3
    <2>5. ~message'.recorded
      BY <1>7
    <2>6. \A k \in Slots : calls'[k].pc \in {"idle", "pre"} /\ ~calls'[k].enforced
      BY <1>2
    <2> QED
      BY <2>1, <2>2, <2>4, <2>5, <2>6 DEF RoundsAreCounted
  <1>14. AdviceIsTrue'
    <2>1. made.turn <= made'.turn /\ made.n <= made'.n
      <3> HIDE DEF n
      <3> QED
        BY <1>3, <1>4, <1>5
    <2> QED
      BY <1>1, <1>4, <1>5, <2>1, AdviceStep DEF HookInv
  <1> QED
    BY <1>9, <1>10, <1>11, <1>12, <1>13, <1>14 DEF HookInv

\* The commands replace the settings, which the invariant does not mention.
LEMMA CommandKeeps ==
  ASSUME HookInv, NEW new, writeState(new)
  PROVE  HookInv'
  BY DEF writeState, HookInv, HookTypeOK, SlotsAreSound, CountsAreMade, TurnIsMade,
         RoundsAreCounted, AdviceIsTrue, Counting, Bumping, isSubagent

LEMMA LooksKeep ==
  ASSUME HookInv, CollectLooks
  PROVE  HookInv'
  BY DEF CollectLooks, HookInv, HookTypeOK, SlotsAreSound, CountsAreMade, TurnIsMade,
         RoundsAreCounted, AdviceIsTrue, Counting, Bumping, isSubagent

LEMMA PromptKeeps ==
  ASSUME HookInv, Prompt
  PROVE  HookInv'
  <1>1. /\ \A k \in Slots : calls[k].pc = "idle"
        /\ turn' = [reads |-> 0, old |-> FALSE] /\ said' = {}
        /\ made' = [made EXCEPT !.turn = 0]
        /\ UNCHANGED <<config, file, calls, message, rounds>>
    BY IdleSlot DEF Prompt, AllIdle, resetTurnReads
  <1>2. /\ made'.turn = 0 /\ made'.n = made.n /\ made'.prints = made.prints
        /\ made' \in [prints : SUBSET Prints, n : Nat, turn : Nat]
    BY <1>1 DEF HookInv, HookTypeOK
  <1>3. Counting' = Counting /\ Bumping' = {} /\ Cardinality({}) = 0
    BY <1>1, FS_EmptySet DEF Counting, Bumping
  <1>4. HookTypeOK'
    BY <1>1, <1>2 DEF HookInv, HookTypeOK, TurnFile
  <1>5. SlotsAreSound' /\ CountsAreMade' /\ RoundsAreCounted'
    BY <1>1, <1>2, <1>3 DEF HookInv, SlotsAreSound, CountsAreMade, RoundsAreCounted, isSubagent
  <1>6. TurnIsMade'
    BY <1>1, <1>2, <1>3 DEF TurnIsMade
  <1>7. AdviceIsTrue'
    BY <1>1 DEF AdviceIsTrue
  <1> QED
    BY <1>4, <1>5, <1>6, <1>7 DEF HookInv

\* A day makes the files old; it changes no count.
LEMMA DayKeeps ==
  ASSUME HookInv, Day
  PROVE  HookInv'
  <1>1. /\ file' = IF file = Nil THEN Nil ELSE [file EXCEPT !.old = TRUE]
        /\ turn' = IF turn = Nil THEN Nil ELSE [turn EXCEPT !.old = TRUE]
        /\ UNCHANGED <<config, calls, said, made, message, rounds>>
    BY DEF Day
  <1>2. /\ file' \in CapFile \union {Nil} /\ (file' = Nil <=> file = Nil)
        /\ file # Nil => file'.calls = file.calls /\ file'.seen = file.seen
    BY <1>1, HookAssumption DEF HookInv, HookTypeOK, CapFile
  <1>3. /\ turn' \in TurnFile \union {Nil} /\ (turn = Nil => turn' = Nil)
        /\ turn # Nil => turn'.reads = turn.reads
    BY <1>1 DEF HookInv, HookTypeOK, TurnFile
  <1>4. Counting' = Counting /\ Bumping' = Bumping
    BY <1>1 DEF Counting, Bumping
  <1>5. HookTypeOK'
    BY <1>1, <1>2, <1>3 DEF HookInv, HookTypeOK
  <1>6. SlotsAreSound' /\ AdviceIsTrue'
    BY <1>1 DEF HookInv, SlotsAreSound, AdviceIsTrue, isSubagent
  <1>7. CountsAreMade'
    BY <1>1, <1>2, <1>4 DEF HookInv, CountsAreMade
  <1>8. TurnIsMade'
    BY <1>1, <1>3, <1>4 DEF HookInv, TurnIsMade, isSubagent
  <1>9. RoundsAreCounted'
    BY <1>1, <1>2 DEF HookInv, RoundsAreCounted
  <1> QED
    BY <1>5, <1>6, <1>7, <1>8, <1>9 DEF HookInv

\* A collected file takes its rounds with it.
LEMMA DeletesKeep ==
  ASSUME HookInv, CollectDeletes
  PROVE  HookInv'
  <1>1. /\ file' = (IF "file" \in doomed THEN Nil ELSE file)
        /\ turn' = (IF "turn" \in doomed THEN Nil ELSE turn)
        /\ rounds' = (IF "file" \in doomed THEN 0 ELSE rounds)
        /\ message' = (IF "file" \in doomed THEN [message EXCEPT !.present = FALSE] ELSE message)
        /\ UNCHANGED <<config, calls, said, made>>
    BY DEF CollectDeletes
  <1>2. /\ message' \in [present : BOOLEAN, recorded : BOOLEAN]
        /\ "file" \in doomed => message'.present = FALSE
    BY <1>1 DEF HookInv, HookTypeOK
  <1>3. Counting' = Counting /\ Bumping' = Bumping
    BY <1>1 DEF Counting, Bumping
  <1>4. HookTypeOK'
    BY <1>1, <1>2 DEF HookInv, HookTypeOK
  <1>5. SlotsAreSound' /\ AdviceIsTrue'
    BY <1>1 DEF HookInv, SlotsAreSound, AdviceIsTrue, isSubagent
  <1>6. CountsAreMade'
    BY <1>1, <1>3 DEF HookInv, CountsAreMade
  <1>7. TurnIsMade'
    BY <1>1, <1>3 DEF HookInv, TurnIsMade, isSubagent
  <1>8. RoundsAreCounted'
    <2>1. CASE "file" \in doomed
      <3>1. config.cap \in Nat /\ 0 <= config.cap
        BY HookAssumption DEF HookInv, HookTypeOK
      <3> QED
        BY <1>1, <1>2, <2>1, <3>1 DEF RoundsAreCounted
    <2>2. CASE "file" \notin doomed
      BY <1>1, <2>2 DEF HookInv, RoundsAreCounted
    <2> QED
      BY <2>1, <2>2
  <1> QED
    BY <1>4, <1>5, <1>6, <1>7, <1>8 DEF HookInv

-----------------------------------------------------------------------------
(* The theorems. *)

LEMMA HookInvInit ==
  HookInit => HookInv
  <1> SUFFICES ASSUME HookInit PROVE HookInv
    OBVIOUS
  <1>1. /\ config \in HookScenarios /\ file = Nil /\ turn = Nil /\ said = {} /\ rounds = 0
        /\ calls = [k \in Slots |-> Idle]
        /\ made = [prints |-> {}, n |-> 0, turn |-> 0]
        /\ message = [present |-> FALSE, recorded |-> FALSE]
    BY DEF HookInit, HookState
  <1>2. HookTypeOK
    BY <1>1, IdleSlot DEF HookTypeOK
  <1>3. Counting = {} /\ Bumping = {} /\ Cardinality({}) = 0
    BY <1>1, IdleSlot, FS_EmptySet DEF Counting, Bumping
  <1>4. SlotsAreSound
    BY <1>1, IdleSlot DEF SlotsAreSound
  <1>5. CountsAreMade
    BY <1>1, <1>3, IdleSlot DEF CountsAreMade
  <1>6. TurnIsMade
    BY <1>1, <1>3, IdleSlot DEF TurnIsMade
  <1>7. RoundsAreCounted
    BY <1>1, HookAssumption DEF RoundsAreCounted
  <1>8. AdviceIsTrue
    BY <1>1 DEF AdviceIsTrue
  <1> QED
    BY <1>2, <1>4, <1>5, <1>6, <1>7, <1>8 DEF HookInv

LEMMA HookInvStep ==
  HookInv /\ [HookNext]_hvars => HookInv'
  <1> SUFFICES ASSUME HookInv, [HookNext]_hvars PROVE HookInv'
    OBVIOUS
  <1>1. ASSUME NEW fps \in [Slots -> Prints \union {Nil}], Message(fps) PROVE HookInv'
    BY <1>1, MessageKeeps
  <1>2. ASSUME NEW k \in Slots, Guard(k) PROVE HookInv'
    BY <1>2, GuardKeeps
  <1>3. ASSUME NEW k \in Slots, GuardInits(k) PROVE HookInv'
    BY <1>3, GuardInitsKeeps
  <1>4. ASSUME NEW k \in Slots, BumpReads(k) PROVE HookInv'
    BY <1>4, BumpReadsKeeps
  <1>5. ASSUME NEW k \in Slots, BumpWrites(k) PROVE HookInv'
    BY <1>5, BumpWritesKeeps
  <1>6. ASSUME NEW k \in Slots, NEW ok \in BOOLEAN, Run(k, ok) PROVE HookInv'
    BY <1>6, RunKeeps
  <1>7. ASSUME NEW k \in Slots, Count(k) PROVE HookInv'
    BY <1>7, CountKeeps
  <1>8. ASSUME NEW k \in Slots, CountCreates(k) PROVE HookInv'
    BY <1>8, CountCreatesKeeps
  <1>9. ASSUME NEW k \in Slots, CountWrites(k) PROVE HookInv'
    BY <1>9, CountWritesKeeps
  <1>10. ASSUME NEW k \in Slots, Die(k) PROVE HookInv'
    BY <1>10, DieKeeps
  <1>11. CASE Prompt
    BY <1>11, PromptKeeps
  <1>12. CASE Day
    BY <1>12, DayKeeps
  <1>13. CASE CollectLooks
    BY <1>13, LooksKeep
  <1>14. CASE CollectDeletes
    BY <1>14, DeletesKeep
  <1>15. ASSUME NEW arg, buildBypassOutput(arg) PROVE HookInv'
    BY <1>15, CommandKeeps DEF buildBypassOutput
  <1>16. ASSUME NEW mode, buildRouterOutput(mode) PROVE HookInv'
    BY <1>16, CommandKeeps DEF buildRouterOutput
  <1>17. CASE UNCHANGED hvars
    BY <1>17 DEF hvars, HookInv, HookTypeOK, SlotsAreSound, CountsAreMade, TurnIsMade,
         RoundsAreCounted, AdviceIsTrue, Counting, Bumping, isSubagent
  <1> QED
    BY <1>1, <1>2, <1>3, <1>4, <1>5, <1>6, <1>7, <1>8, <1>9, <1>10, <1>11, <1>12, <1>13,
       <1>14, <1>15, <1>16, <1>17 DEF HookNext

\* However the hook processes of parallel calls interleave, fail or are killed, and whatever is
\* collected or commanded meanwhile, no call is denied and nobody is warned of what is not so
\* (subagent-guard.mjs:46, caps.mjs:162-200).
THEOREM AdviceTrue == HookSpec => []AdviceIsTrue
  <1>1. HookInv => AdviceIsTrue
    BY DEF HookInv
  <1> QED
    BY <1>1, HookInvInit, HookInvStep, PTL DEF HookSpec

\* With any number of parallel calls losing each other's counts, the messages that find a cap
\* file and have an enforced read counted never exceed the cap (caps.mjs:185-193).
THEOREM LostCountsBounded == HookSpec => []ReadsBounded
  <1>1. HookInv => ReadsBounded
    <2> SUFFICES ASSUME HookInv PROVE ReadsBounded
      OBVIOUS
    <2>1. rounds \in Nat /\ config.cap \in Nat /\ rounds <= config.cap
      BY HookAssumption DEF HookInv, HookTypeOK, RoundsAreCounted
    <2>2. message.present /\ message.recorded => rounds + 1 <= config.cap
      BY DEF HookInv, RoundsAreCounted
    <2> QED
      BY <2>1, <2>2 DEF ReadsBounded
  <1> QED
    BY <1>1, HookInvInit, HookInvStep, PTL DEF HookSpec

\* No cap file, and no copy of one about to be written back, counts a read that was not made.
THEOREM CountsNeverInvented == HookSpec => []CountsAreMade
  <1>1. HookInv => CountsAreMade
    BY DEF HookInv
  <1> QED
    BY <1>1, HookInvInit, HookInvStep, PTL DEF HookSpec

-----------------------------------------------------------------------------
(* SessionStore: the inductive invariant. *)

Ask == [kind : Dispatches, tier : Tiers, cap : Nat, trivial : BOOLEAN]
Call == [kind : {"read"}, fp : Reads]
Banner == [session : Sessions, fp : Reads, redundant : BOOLEAN, reached : BOOLEAN,
           exceeded : BOOLEAN]
Flight == [s : Sessions, fp : Reads, watched : BOOLEAN]

Event == Ask \union Call

StoreTypeOK ==
  /\ caps \in [Sessions -> Entry \union {None}]
  /\ log \in [Sessions -> Seq(Event)]
  /\ flights \subseteq Flight
  /\ banner \in Banner \union {None}
  /\ bypassed \in BOOLEAN

\* i is the latest dispatch of the events, or where their current life began.
IsLatest(events, i) ==
  /\ i \in DOMAIN events /\ events[i].kind \in Dispatches
  /\ \A j \in i + 1..Len(events) : events[j].kind \notin Dispatches

IsLife(events, i) ==
  /\ i \in DOMAIN events /\ Begins(events, i)
  /\ \A j \in i + 1..Len(events) : ~Begins(events, j)

\* An entry is what its session's events say: the tier, the cap and the mark of the latest
\* dispatch, the reads since that dispatch, and the reads, dispatches and fingerprints of the
\* whole life.
Tells(entry, events, last, life) ==
  /\ IsLatest(events, last) /\ IsLife(events, life) /\ life <= last
  /\ <<entry.tierName, entry.cap, entry.trivial>>
        = <<events[last].tier, events[last].cap, events[last].trivial>>
  /\ entry.calls = Cardinality(After(events, last, {"read"}))
  /\ entry.totalCalls = Cardinality(After(events, life, {"read"}))
  /\ entry.dispatches = Cardinality(After(events, life, Dispatches))
  /\ entry.seen = {events[j].fp : j \in After(events, life, {"read"})}

TellAll(entries, events) ==
  \A s \in Sessions :
    IF entries[s] = None THEN events[s] = <<>>
    ELSE \E last, life : Tells(entries[s], events[s], last, life)

EntriesTell == TellAll(caps, log)

\* What a sweep takes is nobody's work.
WorkIsFresh == \A f \in flights : f.watched => caps[f.s] # None /\ f.s \notin stale

StoreInv == StoreTypeOK /\ EntriesTell /\ WorkIsFresh /\ BannerTellsTruth

-----------------------------------------------------------------------------
(* SessionStore: lemmas about a session's events. *)

LEMMA NaturalsHaveMax ==
  ASSUME NEW n \in Nat, NEW S \in SUBSET (0..n), S # {}
  PROVE  Max(S) \in S /\ \A y \in S : Max(S) >= y
<1> DEFINE T == {n - x : x \in S}
<1>1. T \in SUBSET Nat
  <2> SUFFICES ASSUME NEW x \in S PROVE n - x \in Nat
    OBVIOUS
  <2> QED BY x \in 0..n
<1>2. T # {}
  OBVIOUS
<1>3. PICK m \in T : \A k \in T : m <= k
  <2> HIDE DEF T
  <2>1. PICK m \in T : \A k \in T : ~(<<k, m>> \in OpToRel(<, Nat))
    BY <1>1, <1>2, WFMin, NatLessThanWellFounded, Zenon
  <2>2. \A k \in T : m <= k
    <3> TAKE k \in T
    <3>1. ~(k < m)
      BY <1>1, <2>1 DEF OpToRel
    <3> QED BY <1>1, <3>1
  <2> QED BY <2>2
<1>4. PICK x \in S : m = n - x
  BY <1>3
<1>5. \A y \in S : x >= y
  <2> TAKE y \in S
  <2>1. m <= n - y
    BY <1>3
  <2> QED BY <1>4, <2>1, x \in 0..n, y \in 0..n
<1> QED BY <1>5, Zenon DEF Max

LEMMA MaxIs ==
  ASSUME NEW S \in SUBSET Int, NEW m \in S, \A y \in S : m >= y
  PROVE  Max(S) = m
<1>1. Max(S) \in S /\ \A y \in S : Max(S) >= y
  BY Zenon DEF Max
<1>2. PICK x : x = Max(S)
  OBVIOUS
<1>3. x \in Int /\ m \in Int /\ x >= m /\ m >= x
  BY <1>1, <1>2
<1> QED BY <1>2, <1>3

LEMMA AppendAt ==
  ASSUME NEW events \in Seq(Event), NEW e \in Event
  PROVE  /\ Append(events, e) \in Seq(Event)
         /\ Len(events) \in Nat /\ Len(Append(events, e)) = Len(events) + 1
         /\ DOMAIN events = 1..Len(events) /\ DOMAIN Append(events, e) = 1..Len(events) + 1
         /\ \A j \in 1..Len(events) : Append(events, e)[j] = events[j]
         /\ Append(events, e)[Len(events) + 1] = e
OBVIOUS

\* The dispatch before the one at i, or 0.
Prior(events, i) == Max({0} \union {j \in 1..i - 1 : events[j].kind \in Dispatches})

LEMMA PriorIsBefore ==
  ASSUME NEW events, NEW i \in Nat, i > 0
  PROVE  Prior(events, i) \in {0} \union (1..i - 1)
<1>1. PICK S : S = {0} \union {j \in 1..i - 1 : events[j].kind \in Dispatches}
  OBVIOUS
<1>2. S \in SUBSET (0..i) /\ S # {} /\ S \subseteq {0} \union (1..i - 1)
  BY <1>1
<1>3. Max(S) \in S
  BY <1>2, NaturalsHaveMax
<1> QED BY <1>1, <1>2, <1>3 DEF Prior

LEMMA PriorIsLatest ==
  ASSUME NEW events \in Seq(Event), NEW last, IsLatest(events, last)
  PROVE  Prior(events, Len(events) + 1) = last
<1>1. PICK S : S = {0} \union {j \in 1..(Len(events) + 1) - 1 : events[j].kind \in Dispatches}
  OBVIOUS
<1>2. last \in S /\ S \in SUBSET Int
  BY <1>1 DEF IsLatest
<1>3. \A y \in S : last >= y
  <2> TAKE y \in S
  <2>1. y # 0 => y \in 1..Len(events) /\ events[y].kind \in Dispatches
    BY <1>1
  <2>2. last \in 1..Len(events) /\ \A j \in last + 1..Len(events) : events[j].kind \notin Dispatches
    BY DEF IsLatest
  <2> QED BY <2>1, <2>2
<1>4. Max(S) = last
  BY <1>2, <1>3, MaxIs
<1> QED BY <1>1, <1>4 DEF Prior

LEMMA BeginsIs ==
  ASSUME NEW events, NEW i
  PROVE  Begins(events, i) <=>
           /\ events[i].kind \in Dispatches
           /\ \/ events[i].kind = "producer"
              \/ IF Prior(events, i) = 0 THEN TRUE ELSE events[Prior(events, i)].tier # events[i].tier
BY Zenon DEF Begins, Prior

\* An event that comes later changes nothing about where a count began.
LEMMA BeginsKept ==
  ASSUME NEW events \in Seq(Event), NEW e \in Event, NEW i \in 1..Len(events)
  PROVE  Begins(Append(events, e), i) <=> Begins(events, i)
<1>1. PICK longer : longer = Append(events, e)
  OBVIOUS
<1>2. \A j \in 1..Len(events) : longer[j] = events[j]
  BY <1>1, AppendAt
<1>3. Prior(longer, i) = Prior(events, i)
  <2>1. {j \in 1..i - 1 : longer[j].kind \in Dispatches} = {j \in 1..i - 1 : events[j].kind \in Dispatches}
    <3>1. \A j \in 1..i - 1 : longer[j] = events[j]
      BY <1>2
    <3> QED BY <3>1
  <2> QED BY <2>1 DEF Prior
<1>4. longer[i] = events[i]
  BY <1>2
<1>5. Prior(events, i) # 0 => longer[Prior(events, i)] = events[Prior(events, i)]
  BY <1>2, PriorIsBefore
<1>6. Begins(longer, i) <=> Begins(events, i)
  BY <1>3, <1>4, <1>5, BeginsIs, Zenon
<1> QED BY <1>1, <1>6

LEMMA LatestIs ==
  ASSUME NEW events \in Seq(Event), NEW last, IsLatest(events, last)
  PROVE  Latest(events) = last
<1>1. PICK S : S = {i \in DOMAIN events : events[i].kind \in Dispatches}
  OBVIOUS
<1>2. last \in S /\ S \in SUBSET Int
  BY <1>1 DEF IsLatest
<1>3. \A y \in S : last >= y
  <2> TAKE y \in S
  <2>1. y \in 1..Len(events) /\ events[y].kind \in Dispatches
    BY <1>1
  <2>2. last \in 1..Len(events) /\ \A j \in last + 1..Len(events) : events[j].kind \notin Dispatches
    BY DEF IsLatest
  <2> QED BY <2>1, <2>2
<1>4. Max(S) = last
  BY <1>2, <1>3, MaxIs
<1> QED BY <1>1, <1>4 DEF Latest

LEMMA LifeIs ==
  ASSUME NEW events \in Seq(Event), NEW life, IsLife(events, life)
  PROVE  Life(events) = life
<1>1. /\ Life(events) \in DOMAIN events /\ Begins(events, Life(events))
      /\ \A j \in Life(events) + 1..Len(events) : ~Begins(events, j)
  BY Zenon DEF Life, IsLife
<1>2. /\ life \in DOMAIN events /\ Begins(events, life)
      /\ \A j \in life + 1..Len(events) : ~Begins(events, j)
  BY DEF IsLife
<1>3. DOMAIN events = 1..Len(events) /\ Len(events) \in Nat
  OBVIOUS
<1>4. ~(Life(events) < life)
  <2> SUFFICES ASSUME Life(events) < life PROVE FALSE
    OBVIOUS
  <2>1. life \in Life(events) + 1..Len(events)
    BY <1>1, <1>2, <1>3
  <2> QED BY <1>1, <1>2, <2>1, Zenon
<1>5. ~(life < Life(events))
  <2> SUFFICES ASSUME life < Life(events) PROVE FALSE
    OBVIOUS
  <2>1. Life(events) \in life + 1..Len(events)
    BY <1>1, <1>2, <1>3
  <2> QED BY <1>1, <1>2, <2>1, Zenon
<1> QED BY <1>1, <1>2, <1>3, <1>4, <1>5

\* What an event adds to a count of the events since i.
LEMMA AfterAppend ==
  ASSUME NEW events \in Seq(Event), NEW e \in Event, NEW i \in 1..Len(events), NEW kinds
  PROVE  /\ IsFiniteSet(After(events, i, kinds))
         /\ Len(events) + 1 \notin After(events, i, kinds)
         /\ e.kind \in kinds => After(Append(events, e), i, kinds)
                                 = After(events, i, kinds) \union {Len(events) + 1}
         /\ e.kind \notin kinds => After(Append(events, e), i, kinds) = After(events, i, kinds)
<1>1. PICK longer : longer = Append(events, e)
  OBVIOUS
<1>2. /\ Len(events) \in Nat /\ Len(longer) = Len(events) + 1
      /\ \A j \in 1..Len(events) : longer[j] = events[j]
      /\ longer[Len(events) + 1] = e
  BY <1>1, AppendAt
<1>3. IsFiniteSet(After(events, i, kinds))
  <2>1. IsFiniteSet(i..Len(events))
    BY <1>2, FS_Interval
  <2> QED BY <2>1, FS_Subset DEF After
<1>4. /\ e.kind \in kinds => After(longer, i, kinds) = After(events, i, kinds) \union {Len(events) + 1}
      /\ e.kind \notin kinds => After(longer, i, kinds) = After(events, i, kinds)
  BY <1>2 DEF After
<1> QED BY <1>1, <1>2, <1>3, <1>4 DEF After

LEMMA CountAppend ==
  ASSUME NEW events \in Seq(Event), NEW e \in Event, NEW i \in 1..Len(events), NEW kinds
  PROVE  Cardinality(After(Append(events, e), i, kinds)) =
           Cardinality(After(events, i, kinds)) + (IF e.kind \in kinds THEN 1 ELSE 0)
<1>1. PICK S : S = After(events, i, kinds)
  OBVIOUS
<1>2. IsFiniteSet(S) /\ Len(events) + 1 \notin S
  BY <1>1, AfterAppend
<1>3. Cardinality(S) \in Nat /\ Cardinality(S \union {Len(events) + 1}) = Cardinality(S) + 1
  BY <1>2, FS_CardinalityType, FS_AddElement
<1>5. CASE e.kind \in kinds
  <2>1. After(Append(events, e), i, kinds) = S \union {Len(events) + 1}
    BY <1>1, <1>5, AfterAppend
  <2> QED BY <1>1, <1>3, <1>5, <2>1
<1>6. CASE e.kind \notin kinds
  <2>1. After(Append(events, e), i, kinds) = S
    BY <1>1, <1>6, AfterAppend
  <2> QED BY <1>1, <1>3, <1>6, <2>1
<1> QED BY <1>5, <1>6

\* What is counted from the event that was just added.
LEMMA AfterItself ==
  ASSUME NEW events \in Seq(Event), NEW e \in Event, NEW kinds
  PROVE  /\ After(Append(events, e), Len(events) + 1, kinds) =
              IF e.kind \in kinds THEN {Len(events) + 1} ELSE {}
         /\ Cardinality(After(Append(events, e), Len(events) + 1, kinds)) =
              IF e.kind \in kinds THEN 1 ELSE 0
<1>1. PICK longer : longer = Append(events, e)
  OBVIOUS
<1>2. Len(events) \in Nat /\ Len(longer) = Len(events) + 1 /\ longer[Len(events) + 1] = e
  BY <1>1, AppendAt
<1>3. After(longer, Len(events) + 1, kinds) = IF e.kind \in kinds THEN {Len(events) + 1} ELSE {}
  BY <1>2 DEF After
<1>4. Cardinality({}) = 0 /\ Cardinality({Len(events) + 1}) = 1
  BY FS_EmptySet, FS_Singleton
<1> QED BY <1>1, <1>3, <1>4, Zenon

-----------------------------------------------------------------------------
(* SessionStore: what an event makes of the entry. *)

LEMMA NewestIsLatest ==
  ASSUME NEW events \in Seq(Event), NEW e \in Ask
  PROVE  IsLatest(Append(events, e), Len(events) + 1)
<1>1. PICK longer : longer = Append(events, e)
  OBVIOUS
<1>2. /\ Len(events) \in Nat /\ Len(longer) = Len(events) + 1 /\ longer[Len(events) + 1] = e
      /\ DOMAIN longer = 1..Len(events) + 1
  BY <1>1, AppendAt DEF Event
<1>3. e.kind \in Dispatches
  BY DEF Ask
<1>4. IsLatest(longer, Len(events) + 1)
  BY <1>2, <1>3 DEF IsLatest
<1> QED BY <1>1, <1>4

LEMMA ReadKeepsLatest ==
  ASSUME NEW events \in Seq(Event), NEW e \in Call, NEW last, IsLatest(events, last)
  PROVE  IsLatest(Append(events, e), last)
<1>1. PICK longer : longer = Append(events, e)
  OBVIOUS
<1>2. /\ Len(events) \in Nat /\ Len(longer) = Len(events) + 1 /\ longer[Len(events) + 1] = e
      /\ \A j \in 1..Len(events) : longer[j] = events[j]
      /\ DOMAIN longer = 1..Len(events) + 1 /\ DOMAIN events = 1..Len(events)
  BY <1>1, AppendAt DEF Event
<1>3. e.kind \notin Dispatches
  BY DEF Call, Dispatches
<1>4. last \in 1..Len(events) /\ longer[last].kind \in Dispatches
  BY <1>2 DEF IsLatest
<1>5. \A j \in last + 1..Len(events) + 1 : longer[j].kind \notin Dispatches
  <2> TAKE j \in last + 1..Len(events) + 1
  <2>1. CASE j = Len(events) + 1
    BY <1>2, <1>3, <2>1
  <2>2. CASE j # Len(events) + 1
    <3>1. j \in last + 1..Len(events) /\ j \in 1..Len(events)
      BY <1>2, <1>4, <2>2
    <3>2. longer[j] = events[j]
      BY <1>2, <3>1
    <3> QED BY <3>1, <3>2 DEF IsLatest
  <2> QED BY <2>1, <2>2
<1>6. IsLatest(longer, last)
  BY <1>2, <1>4, <1>5 DEF IsLatest
<1> QED BY <1>1, <1>6

\* A count goes on unless the event begins a new one, and then it began at that event.
LEMMA LifeAfterAppend ==
  ASSUME NEW events \in Seq(Event), NEW e \in Event
  PROVE  /\ \A life : IsLife(events, life) /\ ~Begins(Append(events, e), Len(events) + 1)
                        => IsLife(Append(events, e), life)
         /\ Begins(Append(events, e), Len(events) + 1) => IsLife(Append(events, e), Len(events) + 1)
<1>1. PICK longer : longer = Append(events, e)
  OBVIOUS
<1>2. /\ Len(events) \in Nat /\ Len(longer) = Len(events) + 1
      /\ DOMAIN longer = 1..Len(events) + 1 /\ DOMAIN events = 1..Len(events)
  BY <1>1, AppendAt
<1>3. \A j \in 1..Len(events) : Begins(longer, j) <=> Begins(events, j)
  BY <1>1, BeginsKept
<1>4. ASSUME NEW life, IsLife(events, life), ~Begins(longer, Len(events) + 1)
      PROVE  IsLife(longer, life)
  <2>1. life \in 1..Len(events) /\ Begins(longer, life)
    BY <1>2, <1>3, <1>4 DEF IsLife
  <2>2. \A j \in life + 1..Len(events) + 1 : ~Begins(longer, j)
    <3> TAKE j \in life + 1..Len(events) + 1
    <3>1. CASE j = Len(events) + 1
      BY <1>4, <3>1
    <3>2. CASE j # Len(events) + 1
      <4>1. j \in life + 1..Len(events) /\ j \in 1..Len(events)
        BY <1>2, <2>1, <3>2
      <4>2. ~Begins(events, j)
        BY <1>4, <4>1 DEF IsLife
      <4> QED BY <1>3, <4>1, <4>2
    <3> QED BY <3>1, <3>2
  <2>3. life \in DOMAIN longer
    BY <1>2, <2>1
  <2> QED BY <1>2, <2>1, <2>2, <2>3, Zenon DEF IsLife
<1>5. ASSUME Begins(longer, Len(events) + 1) PROVE IsLife(longer, Len(events) + 1)
  <2>1. Len(events) + 1 \in DOMAIN longer
    BY <1>2
  <2>2. (Len(events) + 1) + 1..Len(longer) = {}
    BY <1>2
  <2> QED BY <1>5, <2>1, <2>2 DEF IsLife
<1> QED BY <1>1, <1>4, <1>5, Zenon

\* A dispatch begins a new count exactly when it is a producer's, the session's first, or at
\* another tier than the one before it.
LEMMA NewCount ==
  ASSUME NEW events \in Seq(Event), NEW e \in Ask
  PROVE  /\ events = <<>> => Begins(Append(events, e), Len(events) + 1)
         /\ \A last : IsLatest(events, last) =>
              (Begins(Append(events, e), Len(events) + 1)
                 <=> e.kind = "producer" \/ events[last].tier # e.tier)
<1>1. PICK longer : longer = Append(events, e)
  OBVIOUS
<1>2. PICK n \in Nat : n = Len(events)
  OBVIOUS
<1>3. /\ longer \in Seq(Event) /\ Len(longer) = n + 1 /\ longer[n + 1] = e
      /\ \A j \in 1..n : longer[j] = events[j]
  BY <1>1, <1>2, AppendAt DEF Event
<1>4. e.kind \in Dispatches
  BY DEF Ask
<1>5. ASSUME events = <<>> PROVE Begins(longer, n + 1)
  <2>1. n = 0
    BY <1>2, <1>5
  <2>2. {j \in 1..(n + 1) - 1 : longer[j].kind \in Dispatches} = {}
    BY <2>1
  <2>3. PICK S : S = {0} \union {j \in 1..(n + 1) - 1 : longer[j].kind \in Dispatches}
    OBVIOUS
  <2>4. S = {0}
    BY <2>2, <2>3
  <2>5. Max(S) = 0
    BY <2>4, MaxIs
  <2>6. Prior(longer, n + 1) = 0
    BY <2>3, <2>5 DEF Prior
  <2> QED BY <1>3, <1>4, <2>6, BeginsIs, Zenon
<1>6. ASSUME NEW last, IsLatest(events, last)
      PROVE  Begins(longer, n + 1) <=> e.kind = "producer" \/ events[last].tier # e.tier
  <2>1. last \in 1..n /\ last # 0
    BY <1>2, <1>6 DEF IsLatest
  <2>2. {j \in 1..(n + 1) - 1 : longer[j].kind \in Dispatches} = {j \in 1..(n + 1) - 1 : events[j].kind \in Dispatches}
    <3>1. (n + 1) - 1 = n
      BY <1>2
    <3> QED BY <1>3, <3>1
  <2>3. Prior(longer, n + 1) = Prior(events, n + 1)
    BY <2>2 DEF Prior
  <2>4. Prior(longer, n + 1) = last
    BY <1>2, <1>6, <2>3, PriorIsLatest
  <2>5. longer[last] = events[last]
    BY <1>3, <2>1
  <2> QED BY <1>3, <1>4, <2>1, <2>4, <2>5, BeginsIs, Zenon
<1> QED BY <1>1, <1>2, <1>5, <1>6, Zenon

\* A read is counted in the dispatch and in the life, and its fingerprint is seen.
LEMMA ReadTells ==
  ASSUME NEW c \in Entry, NEW events \in Seq(Event), NEW last, NEW life,
         Tells(c, events, last, life), NEW fp \in Reads
  PROVE  /\ Counted(c, fp) \in Entry
         /\ Tells(Counted(c, fp), Append(events, [kind |-> "read", fp |-> fp]), last, life)
<1>1. PICK e : e = [kind |-> "read", fp |-> fp]
  OBVIOUS
<1>2. PICK longer : longer = Append(events, e)
  OBVIOUS
<1>3. PICK d : d = Counted(c, fp)
  OBVIOUS
<1>4. /\ d \in Entry /\ d.tierName = c.tierName /\ d.cap = c.cap /\ d.trivial = c.trivial
      /\ d.calls = c.calls + 1 /\ d.totalCalls = c.totalCalls + 1 /\ d.dispatches = c.dispatches
      /\ d.seen = c.seen \union {fp}
  <2>1. d = [tierName |-> c.tierName, cap |-> c.cap, calls |-> c.calls + 1,
             dispatches |-> c.dispatches, totalCalls |-> c.totalCalls + 1,
             seen |-> c.seen \union {fp}, trivial |-> c.trivial]
    BY <1>3 DEF Counted, Entry
  <2> QED BY <2>1 DEF Entry
<1>5. e \in Call /\ e \in Event /\ e.kind = "read" /\ e.fp = fp /\ e.kind \notin Dispatches
  BY <1>1 DEF Call, Event, Dispatches
<1>6. IsLatest(longer, last)
  BY <1>2, <1>5, ReadKeepsLatest DEF Tells
<1>7. ~Begins(longer, Len(events) + 1)
  BY <1>2, <1>5, AppendAt, BeginsIs
<1>8. IsLife(longer, life)
  BY <1>2, <1>5, <1>7, LifeAfterAppend DEF Tells
<1>9. last \in 1..Len(events) /\ life \in 1..Len(events)
  BY DEF Tells, IsLatest, IsLife
<1>10. longer[last] = events[last]
  BY <1>2, <1>5, <1>9, AppendAt
<1>11. /\ Cardinality(After(longer, last, {"read"})) = Cardinality(After(events, last, {"read"})) + 1
       /\ Cardinality(After(longer, life, {"read"})) = Cardinality(After(events, life, {"read"})) + 1
  <2>1. e.kind \in {"read"}
    BY <1>5
  <2>2. Cardinality(After(longer, last, {"read"})) = Cardinality(After(events, last, {"read"})) + 1
    BY <1>2, <1>5, <1>9, <2>1, CountAppend
  <2>3. Cardinality(After(longer, life, {"read"})) = Cardinality(After(events, life, {"read"})) + 1
    BY <1>2, <1>5, <1>9, <2>1, CountAppend
  <2> QED BY <2>2, <2>3
<1>12. Cardinality(After(longer, life, Dispatches)) = Cardinality(After(events, life, Dispatches))
  <2>1. After(longer, life, Dispatches) = After(events, life, Dispatches)
    BY <1>2, <1>5, <1>9, AfterAppend
  <2> QED BY <2>1
<1>13. {longer[j].fp : j \in After(longer, life, {"read"})} = c.seen \union {fp}
  <2>1. After(longer, life, {"read"}) = After(events, life, {"read"}) \union {Len(events) + 1}
    BY <1>2, <1>5, <1>9, AfterAppend
  <2>2. \A j \in After(events, life, {"read"}) : longer[j] = events[j]
    <3> TAKE j \in After(events, life, {"read"})
    <3>1. j \in 1..Len(events)
      BY <1>9 DEF After
    <3> QED BY <1>2, <1>5, <3>1, AppendAt
  <2>3. longer[Len(events) + 1] = e
    BY <1>2, <1>5, AppendAt
  <2>4. c.seen = {events[j].fp : j \in After(events, life, {"read"})}
    BY DEF Tells
  <2>5. PICK S : S = After(events, life, {"read"})
    OBVIOUS
  <2> QED BY <1>5, <2>1, <2>2, <2>3, <2>4, <2>5
<1>14. life <= last
  BY DEF Tells
<1>15. Tells(d, longer, last, life)
  BY <1>4, <1>6, <1>8, <1>10, <1>11, <1>12, <1>13, <1>14 DEF Tells
<1> QED BY <1>1, <1>2, <1>3, <1>4, <1>15

\* A resume at the same tier begins a new round of the same life.
LEMMA ResumeTells ==
  ASSUME NEW c \in Entry, NEW events \in Seq(Event), NEW last, NEW life,
         Tells(c, events, last, life),
         NEW e \in Ask, e.kind # "producer", e.tier = c.tierName
  PROVE  /\ Resumed(c, e.cap, e.trivial) \in Entry
         /\ Tells(Resumed(c, e.cap, e.trivial), Append(events, e), Len(events) + 1, life)
<1>2. PICK longer : longer = Append(events, e)
  OBVIOUS
<1>3. PICK d : d = Resumed(c, e.cap, e.trivial)
  OBVIOUS
<1>4. /\ d \in Entry /\ d.tierName = c.tierName /\ d.cap = e.cap /\ d.trivial = e.trivial
      /\ d.calls = 0 /\ d.totalCalls = c.totalCalls /\ d.dispatches = c.dispatches + 1
      /\ d.seen = c.seen
  <2>1. d = [tierName |-> c.tierName, cap |-> e.cap, calls |-> 0,
             dispatches |-> c.dispatches + 1, totalCalls |-> c.totalCalls,
             seen |-> c.seen, trivial |-> e.trivial]
    BY <1>3 DEF Resumed, Entry
  <2> QED BY <2>1 DEF Entry, Ask
<1>5. e \in Event /\ e.kind \in Dispatches /\ e.kind \notin {"read"}
  BY DEF Ask, Event, Dispatches
<1>6. IsLatest(longer, Len(events) + 1)
  BY <1>2, NewestIsLatest
<1>9. /\ last \in 1..Len(events) /\ life \in 1..Len(events) /\ Len(events) \in Nat
      /\ IsLatest(events, last) /\ IsLife(events, life)
  BY DEF Tells, IsLatest, IsLife
<1>7. ~Begins(longer, Len(events) + 1)
  <2>1. events[last].tier = e.tier
    BY DEF Tells
  <2> QED BY <1>2, <1>9, <2>1, NewCount
<1>8. IsLife(longer, life)
  BY <1>2, <1>5, <1>7, <1>9, LifeAfterAppend
<1>10. longer[Len(events) + 1] = e
  BY <1>2, <1>5, AppendAt
<1>11. /\ Cardinality(After(longer, Len(events) + 1, {"read"})) = 0
       /\ Cardinality(After(longer, life, {"read"})) = Cardinality(After(events, life, {"read"}))
       /\ Cardinality(After(longer, life, Dispatches)) = Cardinality(After(events, life, Dispatches)) + 1
  <2>1. Cardinality(After(longer, Len(events) + 1, {"read"})) = 0
    BY <1>2, <1>5, AfterItself
  <2>2. After(longer, life, {"read"}) = After(events, life, {"read"})
    BY <1>2, <1>5, <1>9, AfterAppend
  <2>3. Cardinality(After(longer, life, Dispatches)) = Cardinality(After(events, life, Dispatches)) + 1
    BY <1>2, <1>5, <1>9, CountAppend
  <2> QED BY <2>1, <2>2, <2>3
<1>13. {longer[j].fp : j \in After(longer, life, {"read"})} = c.seen
  <2>1. After(longer, life, {"read"}) = After(events, life, {"read"})
    BY <1>2, <1>5, <1>9, AfterAppend
  <2>2. \A j \in After(events, life, {"read"}) : longer[j] = events[j]
    <3> TAKE j \in After(events, life, {"read"})
    <3>1. j \in 1..Len(events)
      BY <1>9 DEF After
    <3> QED BY <1>2, <1>5, <3>1, AppendAt
  <2>4. c.seen = {events[j].fp : j \in After(events, life, {"read"})}
    BY DEF Tells
  <2>5. PICK S : S = After(events, life, {"read"})
    OBVIOUS
  <2> QED BY <2>1, <2>2, <2>4, <2>5
<1>14. life <= Len(events) + 1
  BY <1>9
<1>15. Tells(d, longer, Len(events) + 1, life)
  <2>1. c.totalCalls = Cardinality(After(events, life, {"read"})) /\ c.dispatches = Cardinality(After(events, life, Dispatches))
    BY DEF Tells
  <2> QED BY <1>4, <1>6, <1>8, <1>10, <1>11, <1>13, <1>14, <2>1 DEF Tells
<1> QED BY <1>2, <1>3, <1>4, <1>15

\* Any other dispatch begins a new life.
LEMMA FreshTells ==
  ASSUME NEW events \in Seq(Event), NEW e \in Ask,
         \/ events = <<>>
         \/ \E last : IsLatest(events, last) /\ (e.kind = "producer" \/ events[last].tier # e.tier)
  PROVE  /\ Fresh(e.tier, e.cap, e.trivial) \in Entry
         /\ Tells(Fresh(e.tier, e.cap, e.trivial), Append(events, e),
                  Len(events) + 1, Len(events) + 1)
<1>2. PICK longer : longer = Append(events, e)
  OBVIOUS
<1>3. PICK d : d = Fresh(e.tier, e.cap, e.trivial)
  OBVIOUS
<1>4. /\ d \in Entry /\ d.tierName = e.tier /\ d.cap = e.cap /\ d.trivial = e.trivial
      /\ d.calls = 0 /\ d.totalCalls = 0 /\ d.dispatches = 1 /\ d.seen = {}
  BY <1>3 DEF Fresh, Entry, Ask
<1>5. e \in Event /\ e.kind \in Dispatches /\ e.kind \notin {"read"}
  BY DEF Ask, Event, Dispatches
<1>6. IsLatest(longer, Len(events) + 1)
  BY <1>2, NewestIsLatest
<1>7. Begins(longer, Len(events) + 1)
  BY <1>2, NewCount
<1>8. IsLife(longer, Len(events) + 1)
  BY <1>2, <1>5, <1>7, LifeAfterAppend
<1>10. longer[Len(events) + 1] = e
  BY <1>2, <1>5, AppendAt
<1>11. /\ Cardinality(After(longer, Len(events) + 1, {"read"})) = 0
       /\ After(longer, Len(events) + 1, {"read"}) = {}
       /\ Cardinality(After(longer, Len(events) + 1, Dispatches)) = 1
  BY <1>2, <1>5, AfterItself
<1>14. Len(events) + 1 <= Len(events) + 1
  OBVIOUS
<1>15. Tells(d, longer, Len(events) + 1, Len(events) + 1)
  <2>1. d.seen = {longer[j].fp : j \in After(longer, Len(events) + 1, {"read"})}
    BY <1>4, <1>11
  <2> QED BY <1>4, <1>6, <1>8, <1>10, <1>11, <1>14, <2>1 DEF Tells
<1> QED BY <1>2, <1>3, <1>4, <1>15

-----------------------------------------------------------------------------
(* SessionStore: what the hooks do to all the entries. *)

LEMMA CapIsNat ==
  ASSUME NEW text \in Texts
  PROVE  /\ override(text) \in Nat \union {None}
         /\ \A tier \in DOMAIN TierCaps : dispatchCap(text, tier) \in Nat
<1>1. text.n \in Nat /\ \A tier \in DOMAIN TierCaps : TierCaps[tier] \in Nat
  BY CapsAssumption
<1>2. parseCapDirective(text) \in Nat \union {None}
  <2>1. CASE text.asks = "none"
    BY <2>1 DEF parseCapDirective, Uncapped
  <2>2. CASE text.asks = "number" /\ text.n > 0
    BY <1>1, <2>2 DEF parseCapDirective
  <2>3. CASE text.asks # "none" /\ ~(text.asks = "number" /\ text.n > 0)
    BY <2>3 DEF parseCapDirective
  <2> QED BY <2>1, <2>2, <2>3
<1>3. override(text) \in Nat \union {None}
  BY <1>2 DEF override
<1> QED BY <1>1, <1>3 DEF dispatchCap, baseline

\* A sweep takes entries together with what is remembered of their sessions.
LEMMA EvictTells ==
  ASSUME StoreTypeOK, EntriesTell, NEW gone
  PROVE  /\ evict(caps, gone, None) \in [Sessions -> Entry \union {None}]
         /\ evict(log, gone, <<>>) \in [Sessions -> Seq(Event)]
         /\ TellAll(evict(caps, gone, None), evict(log, gone, <<>>))
<1>1. <<>> \in Seq(Event)
  OBVIOUS
<1>2. PICK c : c = evict(caps, gone, None)
  OBVIOUS
<1>3. PICK l : l = evict(log, gone, <<>>)
  OBVIOUS
<1>4. c \in [Sessions -> Entry \union {None}] /\ l \in [Sessions -> Seq(Event)]
  BY <1>1, <1>2, <1>3 DEF evict, StoreTypeOK
<1>5. \A s \in Sessions : \/ c[s] = caps[s] /\ l[s] = log[s]
                          \/ c[s] = None /\ l[s] = <<>>
  <2> TAKE s \in Sessions
  <2>1. CASE s \in gone
    BY <1>2, <1>3, <2>1 DEF evict
  <2>2. CASE s \notin gone
    BY <1>2, <1>3, <2>2 DEF evict
  <2> QED BY <2>1, <2>2
<1>6. TellAll(c, l)
  <2>1. \A s \in Sessions : IF c[s] = None THEN l[s] = <<>>
                           ELSE \E last, life : Tells(c[s], l[s], last, life)
    <3> TAKE s \in Sessions
    <3>1. CASE c[s] = None /\ l[s] = <<>>
      BY <3>1, Zenon
    <3>2. CASE c[s] = caps[s] /\ l[s] = log[s]
      <4>1. IF caps[s] = None THEN log[s] = <<>>
            ELSE \E last, life : Tells(caps[s], log[s], last, life)
        BY Zenon DEF EntriesTell, TellAll
      <4> QED BY <3>2, <4>1
    <3> QED BY <1>5, <3>1, <3>2, Zenon
  <2> QED BY <2>1, Zenon DEF TellAll
<1> QED BY <1>2, <1>3, <1>4, <1>6

LEMMA UpdateTells ==
  ASSUME NEW c \in [Sessions -> Entry \union {None}], NEW l \in [Sessions -> Seq(Event)],
         TellAll(c, l), NEW s \in Sessions, NEW d \in Entry, NEW events \in Seq(Event),
         \E last, life : Tells(d, events, last, life)
  PROVE  /\ [c EXCEPT ![s] = d] \in [Sessions -> Entry \union {None}]
         /\ [l EXCEPT ![s] = events] \in [Sessions -> Seq(Event)]
         /\ TellAll([c EXCEPT ![s] = d], [l EXCEPT ![s] = events])
<1>1. PICK c1 : c1 = [c EXCEPT ![s] = d]
  OBVIOUS
<1>2. PICK l1 : l1 = [l EXCEPT ![s] = events]
  OBVIOUS
<1>3. c1 \in [Sessions -> Entry \union {None}] /\ l1 \in [Sessions -> Seq(Event)]
  BY <1>1, <1>2
<1>4. d # None
  BY CapsAssumption
<1>5. /\ c1[s] = d /\ l1[s] = events
      /\ \A x \in Sessions : x # s => c1[x] = c[x] /\ l1[x] = l[x]
  BY <1>1, <1>2
<1>6. TellAll(c1, l1)
  BY <1>4, <1>5, Zenon DEF TellAll
<1> QED BY <1>1, <1>2, <1>3, <1>6

LEMMA SomeLatest ==
  ASSUME NEW c, NEW l, TellAll(c, l), NEW s \in Sessions
  PROVE  IF c[s] = None THEN l[s] = <<>> ELSE \E last : IsLatest(l[s], last) /\ c[s].tierName = l[s][last].tier
<1>1. CASE c[s] = None
  BY <1>1, Zenon DEF TellAll
<1>2. CASE c[s] # None
  <2>1. PICK last, life : Tells(c[s], l[s], last, life)
    BY <1>2, Zenon DEF TellAll
  <2>2. IsLatest(l[s], last) /\ c[s].tierName = l[s][last].tier
    BY <2>1 DEF Tells
  <2> QED BY <1>2, <2>2, Zenon
<1> QED BY <1>1, <1>2

\* The banner stays right until its session reads again.
LEMMA BannerKept ==
  ASSUME StoreTypeOK, BannerTellsTruth, UNCHANGED banner,
         \A s \in Sessions : \/ log'[s] = log[s] \/ log'[s] = <<>> \/ Last(log'[s]).kind # "read"
  PROVE  BannerTellsTruth'
<1>1. CASE banner = None
  BY <1>1 DEF BannerTellsTruth
<1>2. CASE banner # None
  <2>1. PICK s \in Sessions : s = banner.session
    BY <1>2 DEF StoreTypeOK, Banner
  <2>2. CASE log'[s] = <<>> \/ Last(log'[s]).kind # "read"
    BY <2>1, <2>2, Zenon DEF BannerTellsTruth
  <2>3. CASE log'[s] = log[s]
    <3>1. log'[banner'.session] = log[banner.session]
      BY <2>1, <2>3
    <3> QED BY <3>1, Zenon DEF BannerTellsTruth
  <2> QED BY <2>1, <2>2, <2>3
<1> QED BY <1>1, <1>2

LEMMA SaysWhether ==
  ASSUME NEW x, NEW S, NEW p, p = (x \in S)
  PROVE  p \in BOOLEAN /\ (p <=> x \in S)
<1>1. p \in BOOLEAN
  OBVIOUS
<1>2. p <=> x \in S
  OBVIOUS
<1> QED BY <1>1, <1>2

\* The banner of a read, of the entry and of the events before it.
LEMMA ReadBanner ==
  ASSUME NEW c \in Entry, NEW events \in Seq(Event), NEW last, NEW life,
         Tells(c, events, last, life), NEW fp \in Reads, NEW s \in Sessions,
         banner' = buildCapBanner(s, fp, repeats(c, fp), Counted(c, fp)),
         log'[s] = Append(events, [kind |-> "read", fp |-> fp])
  PROVE  BannerTellsTruth' /\ banner' \in Banner
<1>1. PICK e : e = [kind |-> "read", fp |-> fp]
  OBVIOUS
<1>2. PICK longer : longer = Append(events, e)
  OBVIOUS
<1>3. PICK d : d = Counted(c, fp)
  OBVIOUS
<1>4. d \in Entry /\ Tells(d, longer, last, life)
  BY <1>1, <1>2, <1>3, ReadTells
<1>5. e \in Event /\ e.fp = fp /\ e.kind = "read"
  BY <1>1 DEF Event, Call
<1>6. longer \in Seq(Event) /\ Len(longer) = Len(events) + 1 /\ longer[Len(events) + 1] = e
  BY <1>2, <1>5, AppendAt
<1>7. Latest(longer) = last /\ Life(longer) = life
  BY <1>4, <1>6, LatestIs, LifeIs DEF Tells
<1>8. PICK b : b = banner'
  OBVIOUS
<1>9. /\ b \in Banner /\ b.session = s /\ b.fp = fp /\ (b.redundant <=> fp \in c.seen)
      /\ (b.reached <=> d.cap # Uncapped /\ d.calls >= d.cap)
      /\ (b.exceeded <=> /\ d.cap # Uncapped /\ d.dispatches > 1
                         /\ d.totalCalls > d.cap * CUMULATIVE_CAP_MULTIPLIER)
  <2>1. PICK p : p = (fp \in c.seen)
    OBVIOUS
  <2>2. PICK q : q = (d.cap # Uncapped /\ d.calls >= d.cap)
    OBVIOUS
  <2>6. PICK r : r = (/\ d.cap # Uncapped /\ d.dispatches > 1
                      /\ d.totalCalls > d.cap * CUMULATIVE_CAP_MULTIPLIER)
    OBVIOUS
  <2>7. p \in BOOLEAN /\ (p <=> fp \in c.seen)
    BY <2>1, SaysWhether
  <2>8. q \in BOOLEAN /\ (q <=> d.cap # Uncapped /\ d.calls >= d.cap)
    BY <2>2
  <2>9. r \in BOOLEAN /\ (r <=> /\ d.cap # Uncapped /\ d.dispatches > 1
                               /\ d.totalCalls > d.cap * CUMULATIVE_CAP_MULTIPLIER)
    BY <2>6
  <2>3. b = buildCapBanner(s, fp, repeats(c, fp), d)
    BY <1>3, <1>8
  <2>4. b = [session |-> s, fp |-> fp, redundant |-> p, reached |-> q, exceeded |-> r]
    BY <2>1, <2>2, <2>3, <2>6, Zenon DEF buildCapBanner, repeats, readCapReached
  <2>5. /\ b.session = s /\ b.fp = fp /\ b.redundant = p /\ b.reached = q /\ b.exceeded = r
        /\ b \in Banner
    BY <2>4, <2>7, <2>8, <2>9 DEF Banner
  <2> QED BY <2>5, <2>7, <2>8, <2>9, Zenon
<1>10. PICK all : all = After(longer, life, {"read"})
  OBVIOUS
<1>11. fp \in c.seen <=> \E j \in all \ {Len(longer)} : longer[j].fp = fp
  <2>1. life \in 1..Len(events)
    BY DEF Tells, IsLife
  <2>2. PICK S : S = After(events, life, {"read"})
    OBVIOUS
  <2>3. all = S \union {Len(events) + 1} /\ Len(events) + 1 \notin S
    BY <1>2, <1>5, <1>10, <2>1, <2>2, AfterAppend
  <2>4. \A j \in S : longer[j] = events[j]
    <3> TAKE j \in S
    <3>1. j \in 1..Len(events)
      BY <2>1, <2>2 DEF After
    <3> QED BY <1>2, <1>5, <3>1, AppendAt
  <2>5. c.seen = {events[j].fp : j \in S}
    BY <2>2 DEF Tells
  <2> QED BY <1>6, <2>3, <2>4, <2>5
<1>12. /\ d.cap = longer[last].cap
       /\ d.calls = Cardinality(After(longer, last, {"read"}))
       /\ d.totalCalls = Cardinality(all)
       /\ d.dispatches = Cardinality(After(longer, life, Dispatches))
  BY <1>4, <1>10 DEF Tells
<1>13. log'[b.session] = longer
  BY <1>1, <1>2, <1>9
<1>14. /\ b.redundant <=> \E j \in all \ {Len(longer)} : longer[j].fp = b.fp
       /\ b.reached <=> /\ longer[last].cap # Uncapped
                        /\ Cardinality(After(longer, last, {"read"})) >= longer[last].cap
       /\ b.exceeded <=> /\ longer[last].cap # Uncapped
                         /\ Cardinality(After(longer, life, Dispatches)) > 1
                         /\ Cardinality(all) > longer[last].cap * CUMULATIVE_CAP_MULTIPLIER
  BY <1>9, <1>11, <1>12
<1>15. BannerTellsTruth'
  BY <1>7, <1>8, <1>10, <1>13, <1>14, Zenon DEF BannerTellsTruth
<1> QED BY <1>8, <1>9, <1>15

-----------------------------------------------------------------------------
(* SessionStore: every hook keeps the invariant. *)

LEMMA UnwatchedIs ==
  ASSUME flights \subseteq Flight, NEW gone
  PROVE  /\ Unwatched(gone) \subseteq Flight
         /\ \A f \in Unwatched(gone) : f.watched => f \in flights /\ f.s \notin gone
<1> SUFFICES ASSUME NEW f \in flights,
                    NEW g, g = IF f.s \in gone THEN [f EXCEPT !.watched = FALSE] ELSE f
             PROVE  g \in Flight /\ (g.watched => g \in flights /\ g.s \notin gone)
  BY DEF Unwatched
<1>1. CASE f.s \in gone
  <2>1. g = [s |-> f.s, fp |-> f.fp, watched |-> FALSE]
    BY <1>1 DEF Flight
  <2> QED BY <2>1 DEF Flight
<1>2. CASE f.s \notin gone
  BY <1>2
<1> QED BY <1>1, <1>2

LEMMA EvictNothing ==
  ASSUME StoreTypeOK
  PROVE  evict(caps, {}, None) = caps /\ evict(log, {}, <<>>) = log
BY DEF evict, StoreTypeOK

\* A dispatch, after a sweep: the entry it registers is told by the longer history.
LEMMA AskKeeps ==
  ASSUME StoreInv, NEW gone, gone \subseteq stale, NEW s \in Sessions, NEW d \in Entry,
         NEW e \in Ask, NEW events, events = evict(log, gone, <<>>)[s],
         \E last, life : Tells(d, Append(events, e), last, life),
         caps' = [evict(caps, gone, None) EXCEPT ![s] = d],
         log' = [evict(log, gone, <<>>) EXCEPT ![s] = Append(events, e)],
         stale' \subseteq stale, UNCHANGED <<flights, banner, bypassed>>
  PROVE  StoreInv'
<1>1. StoreTypeOK /\ EntriesTell /\ WorkIsFresh /\ BannerTellsTruth
  BY DEF StoreInv
<1>2. PICK c : c = evict(caps, gone, None)
  OBVIOUS
<1>3. PICK l : l = evict(log, gone, <<>>)
  OBVIOUS
<1>4. /\ c \in [Sessions -> Entry \union {None}] /\ l \in [Sessions -> Seq(Event)]
      /\ TellAll(c, l)
  BY <1>1, <1>2, <1>3, EvictTells
<1>5. PICK longer : longer = Append(events, e)
  OBVIOUS
<1>6. events \in Seq(Event) /\ e \in Event
  BY <1>3, <1>4 DEF Event
<1>7. longer \in Seq(Event) /\ Len(longer) = Len(events) + 1 /\ longer[Len(events) + 1] = e
  BY <1>5, <1>6, AppendAt
<1>8. /\ caps' = [c EXCEPT ![s] = d] /\ log' = [l EXCEPT ![s] = longer]
      /\ \E last, life : Tells(d, longer, last, life)
  BY <1>2, <1>3, <1>5
<1>9. /\ caps' \in [Sessions -> Entry \union {None}] /\ log' \in [Sessions -> Seq(Event)]
      /\ TellAll(caps', log')
  <2>1. /\ [c EXCEPT ![s] = d] \in [Sessions -> Entry \union {None}]
        /\ [l EXCEPT ![s] = longer] \in [Sessions -> Seq(Event)]
        /\ TellAll([c EXCEPT ![s] = d], [l EXCEPT ![s] = longer])
    BY <1>4, <1>7, <1>8, UpdateTells
  <2> QED BY <1>8, <2>1
<1>10. StoreTypeOK'
  BY <1>1, <1>9 DEF StoreTypeOK
<1>11. EntriesTell'
  BY <1>9 DEF EntriesTell
<1>12. WorkIsFresh'
  <2> SUFFICES ASSUME NEW f \in flights, f.watched
               PROVE  caps'[f.s] # None /\ f.s \notin stale'
    BY DEF WorkIsFresh
  <2>1. caps[f.s] # None /\ f.s \notin stale /\ f.s \notin gone /\ f.s \in Sessions
    BY <1>1 DEF WorkIsFresh, StoreTypeOK, Flight
  <2>2. c[f.s] # None
    BY <1>2, <2>1 DEF evict
  <2>3. d # None
    BY CapsAssumption
  <2> QED BY <1>4, <1>8, <2>1, <2>2, <2>3
<1>13. BannerTellsTruth'
  <2>1. Last(longer).kind # "read"
    BY <1>7 DEF Last, Ask, Dispatches
  <2>2. \A x \in Sessions : log'[x] = log[x] \/ log'[x] = <<>> \/ Last(log'[x]).kind # "read"
    <3> TAKE x \in Sessions
    <3>1. CASE x = s
      BY <1>4, <1>8, <2>1, <3>1
    <3>2. CASE x # s /\ x \in gone
      BY <1>3, <1>4, <1>8, <3>2 DEF evict
    <3>3. CASE x # s /\ x \notin gone
      BY <1>3, <1>4, <1>8, <3>3 DEF evict
    <3> QED BY <3>1, <3>2, <3>3
  <2> QED BY <1>1, <2>2, BannerKept
<1> QED BY <1>10, <1>11, <1>12, <1>13 DEF StoreInv

LEMMA ChatKeeps ==
  ASSUME StoreInv, Chat
  PROVE  StoreInv'
<1>1. StoreTypeOK /\ EntriesTell /\ WorkIsFresh /\ BannerTellsTruth
  BY DEF StoreInv
<1>2. /\ caps' = evict(caps, stale, None) /\ log' = evict(log, stale, <<>>)
      /\ stale' = {} /\ UNCHANGED <<flights, banner, bypassed>>
  BY DEF Chat
<1>3. /\ caps' \in [Sessions -> Entry \union {None}] /\ log' \in [Sessions -> Seq(Event)]
      /\ TellAll(caps', log')
  BY <1>1, <1>2, EvictTells
<1>4. StoreTypeOK' /\ EntriesTell'
  BY <1>1, <1>2, <1>3 DEF StoreTypeOK, EntriesTell
<1>5. WorkIsFresh'
  BY <1>1, <1>2 DEF WorkIsFresh, evict, StoreTypeOK, Flight
<1>6. \A x \in Sessions : log'[x] = log[x] \/ log'[x] = <<>> \/ Last(log'[x]).kind # "read"
  BY <1>2 DEF evict
<1>7. BannerTellsTruth'
  BY <1>1, <1>2, <1>6, BannerKept
<1> QED BY <1>4, <1>5, <1>7 DEF StoreInv

LEMMA DispatchKeeps ==
  ASSUME StoreInv, NEW s \in Sessions, NEW agent \in DOMAIN AgentTier, NEW text \in Texts,
         Dispatch(s, agent, text)
  PROVE  StoreInv'
<1>1. StoreTypeOK /\ EntriesTell
  BY DEF StoreInv
<1>2. PICK gone \in Swept, tier \in {AgentTier[agent]} :
        /\ stale' = stale \ (gone \union {s})
        /\ caps' = [evict(caps, gone, None) EXCEPT ![s] = registered(@, tier, text)]
        /\ log' = [evict(log, gone, <<>>) EXCEPT ![s] =
                      Append(@, [kind |-> "dispatch", tier |-> tier,
                                 cap |-> dispatchCap(text, tier),
                                 trivial |-> classifyTrivial(text, tier)])]
  BY DEF Dispatch
<1>3. gone \subseteq stale /\ stale' \subseteq stale /\ UNCHANGED <<flights, banner, bypassed>>
  BY <1>2 DEF Swept, Dispatch
<1>4. tier \in DOMAIN TierCaps /\ tier \in Tiers
  BY <1>2, CapsAssumption DEF Dispatch, Tiers
<1>5. PICK e : e = [kind |-> "dispatch", tier |-> tier, cap |-> dispatchCap(text, tier),
                    trivial |-> classifyTrivial(text, tier)]
  OBVIOUS
<1>6. e \in Ask /\ e.kind = "dispatch" /\ e.tier = tier
      /\ e.cap = dispatchCap(text, tier) /\ e.trivial = classifyTrivial(text, tier)
  <2>1. dispatchCap(text, tier) \in Nat
    BY <1>4, CapIsNat
  <2>2. classifyTrivial(text, tier) \in BOOLEAN
    BY DEF classifyTrivial
  <2> QED BY <1>4, <1>5, <2>1, <2>2 DEF Ask, Dispatches
<1>7. PICK c : c = evict(caps, gone, None)
  OBVIOUS
<1>8. PICK l : l = evict(log, gone, <<>>)
  OBVIOUS
<1>9. /\ c \in [Sessions -> Entry \union {None}] /\ l \in [Sessions -> Seq(Event)]
      /\ TellAll(c, l)
  BY <1>1, <1>7, <1>8, EvictTells
<1>10. PICK d : d = registered(c[s], tier, text)
  OBVIOUS
<1>11. /\ caps' = [c EXCEPT ![s] = d] /\ log' = [l EXCEPT ![s] = Append(l[s], e)]
  BY <1>2, <1>5, <1>7, <1>8, <1>9, <1>10
<1>12. d \in Entry /\ \E last, life : Tells(d, Append(l[s], e), last, life)
  <2>1. CASE c[s] = None
    <3>1. l[s] = <<>> /\ l[s] \in Seq(Event)
      BY <1>9, <2>1, SomeLatest
    <3>2. d = Fresh(e.tier, e.cap, e.trivial)
      BY <1>6, <1>10, <2>1 DEF registered
    <3> QED BY <1>6, <3>1, <3>2, FreshTells
  <2>2. CASE c[s] # None /\ c[s].tierName # tier
    <3>1. \E last : IsLatest(l[s], last) /\ (e.kind = "producer" \/ l[s][last].tier # e.tier)
      BY <1>6, <1>9, <2>2, SomeLatest
    <3>2. d = Fresh(e.tier, e.cap, e.trivial) /\ l[s] \in Seq(Event)
      BY <1>6, <1>9, <1>10, <2>2 DEF registered
    <3> QED BY <1>6, <3>1, <3>2, FreshTells
  <2>3. CASE c[s] # None /\ c[s].tierName = tier
    <3>1. PICK last, life : Tells(c[s], l[s], last, life)
      BY <1>9, <2>3, Zenon DEF TellAll
    <3>2. d = Resumed(c[s], e.cap, e.trivial)
      BY <1>6, <1>10, <2>3 DEF registered
    <3>3. c[s] \in Entry /\ l[s] \in Seq(Event)
      BY <1>9, <2>3
    <3>4. /\ Resumed(c[s], e.cap, e.trivial) \in Entry
          /\ Tells(Resumed(c[s], e.cap, e.trivial), Append(l[s], e), Len(l[s]) + 1, life)
      BY <1>6, <2>3, <3>1, <3>3, ResumeTells
    <3> QED BY <3>2, <3>4
  <2> QED BY <2>1, <2>2, <2>3
<1> QED BY <1>3, <1>6, <1>7, <1>8, <1>11, <1>12, AskKeeps

LEMMA ProducerKeeps ==
  ASSUME StoreInv, NEW s \in Sessions, NEW tier \in Tiers, NEW cap \in Nat,
         registerProducerSession(s, tier, cap)
  PROVE  StoreInv'
<1>1. StoreTypeOK /\ EntriesTell
  BY DEF StoreInv
<1>2. PICK e : e = [kind |-> "producer", tier |-> tier, cap |-> cap, trivial |-> FALSE]
  OBVIOUS
<1>3. e \in Ask /\ e.kind = "producer" /\ e.tier = tier /\ e.cap = cap /\ e.trivial = FALSE
  BY <1>2 DEF Ask, Dispatches
<1>4. PICK d : d = Fresh(e.tier, e.cap, e.trivial)
  OBVIOUS
<1>5. /\ caps' = [caps EXCEPT ![s] = d] /\ log' = [log EXCEPT ![s] = Append(log[s], e)]
      /\ stale' \subseteq stale /\ UNCHANGED <<flights, banner, bypassed>>
  BY <1>1, <1>2, <1>3, <1>4 DEF registerProducerSession, Note, touch, StoreTypeOK
<1>6. log[s] \in Seq(Event)
  BY <1>1 DEF StoreTypeOK
<1>7. \/ log[s] = <<>>
      \/ \E last : IsLatest(log[s], last) /\ (e.kind = "producer" \/ log[s][last].tier # e.tier)
  BY <1>1, <1>3, SomeLatest DEF EntriesTell
<1>8. d \in Entry /\ \E last, life : Tells(d, Append(log[s], e), last, life)
  BY <1>3, <1>4, <1>6, <1>7, FreshTells
<1>9. evict(caps, {}, None) = caps /\ evict(log, {}, <<>>) = log
  BY <1>1, EvictNothing
<1> QED BY <1>3, <1>5, <1>8, <1>9, AskKeeps

LEMMA ResumeKeeps ==
  ASSUME StoreInv, NEW s \in Sessions, NEW cap \in Nat \union {None}, resumeRoleSession(s, cap)
  PROVE  StoreInv'
<1>1. StoreTypeOK /\ EntriesTell
  BY DEF StoreInv
<1>2. PICK now : now = IF cap = None THEN caps[s].cap ELSE cap
  OBVIOUS
<1>3. caps[s] \in Entry /\ log[s] \in Seq(Event)
  BY <1>1 DEF StoreTypeOK, resumeRoleSession
<1>4. PICK e : e = [kind |-> "resume", tier |-> caps[s].tierName, cap |-> now,
                    trivial |-> caps[s].trivial]
  OBVIOUS
<1>5. now \in Nat
  BY <1>2, <1>3 DEF Entry
<1>6. /\ e \in Ask /\ e.kind = "resume" /\ e.tier = caps[s].tierName
      /\ e.cap = now /\ e.trivial = caps[s].trivial
  BY <1>3, <1>4, <1>5 DEF Ask, Dispatches, Entry
<1>7. PICK d : d = Resumed(caps[s], e.cap, e.trivial)
  OBVIOUS
<1>8. /\ caps' = [caps EXCEPT ![s] = d] /\ log' = [log EXCEPT ![s] = Append(log[s], e)]
      /\ stale' \subseteq stale /\ UNCHANGED <<flights, banner, bypassed>>
  BY <1>1, <1>2, <1>4, <1>6, <1>7 DEF resumeRoleSession, Note, touch, StoreTypeOK
<1>9. PICK last, life : Tells(caps[s], log[s], last, life)
  <2>1. caps[s] # None
    BY <1>3, CapsAssumption
  <2> QED BY <1>1, <2>1, Zenon DEF EntriesTell, TellAll
<1>10. d \in Entry /\ Tells(d, Append(log[s], e), Len(log[s]) + 1, life)
  BY <1>3, <1>6, <1>7, <1>9, ResumeTells
<1>11. evict(caps, {}, None) = caps /\ evict(log, {}, <<>>) = log
  BY <1>1, EvictNothing
<1> QED BY <1>6, <1>8, <1>10, <1>11, AskKeeps

LEMMA StartKeeps ==
  ASSUME StoreInv, NEW s \in Sessions, NEW fp \in Reads, Start(s, fp)
  PROVE  StoreInv'
<1>1. StoreTypeOK /\ EntriesTell /\ WorkIsFresh /\ BannerTellsTruth
  BY DEF StoreInv
<1>2. PICK g : g = [s |-> s, fp |-> fp, watched |-> ~bypassed /\ caps[s] # None]
  OBVIOUS
<1>3. flights' = flights \union {g} /\ UNCHANGED <<caps, banner, bypassed, log>>
  BY <1>2 DEF Start
<1>4. g \in Flight /\ g.s = s /\ (g.watched <=> ~bypassed /\ caps[s] # None)
  BY <1>1, <1>2 DEF Flight, StoreTypeOK
<1>5. stale' \subseteq stale /\ (~bypassed /\ caps[s] # None => s \notin stale')
  BY DEF Start, touchIfTracked, touch
<1>6. StoreTypeOK' /\ EntriesTell'
  BY <1>1, <1>3, <1>4 DEF StoreTypeOK, EntriesTell
<1>7. WorkIsFresh'
  BY <1>1, <1>3, <1>4, <1>5 DEF WorkIsFresh
<1>8. BannerTellsTruth'
  BY <1>1, <1>3, BannerKept
<1> QED BY <1>6, <1>7, <1>8 DEF StoreInv

LEMMA FinishKeeps ==
  ASSUME StoreInv, NEW f \in flights, Finish(f)
  PROVE  StoreInv'
<1>1. StoreTypeOK /\ EntriesTell /\ WorkIsFresh /\ BannerTellsTruth
  BY DEF StoreInv
<1>2. flights' \subseteq flights /\ UNCHANGED bypassed /\ f.s \in Sessions /\ f.fp \in Reads
  BY <1>1 DEF Finish, StoreTypeOK, Flight
<1>3. CASE bypassed \/ caps[f.s] = None
  <2>1. UNCHANGED <<caps, stale, banner, log>>
    BY <1>3 DEF Finish
  <2>2. StoreTypeOK' /\ EntriesTell' /\ WorkIsFresh'
    BY <1>1, <1>2, <2>1 DEF StoreTypeOK, EntriesTell, WorkIsFresh
  <2>3. BannerTellsTruth'
    BY <1>1, <2>1, BannerKept
  <2> QED BY <2>2, <2>3 DEF StoreInv
<1>4. CASE ~(bypassed \/ caps[f.s] = None)
  <2>1. PICK c : c = caps[f.s]
    OBVIOUS
  <2>2. PICK events : events = log[f.s]
    OBVIOUS
  <2>3. c \in Entry /\ events \in Seq(Event)
    BY <1>1, <1>2, <1>4, <2>1, <2>2 DEF StoreTypeOK
  <2>4. PICK last, life : Tells(c, events, last, life)
    BY <1>1, <1>2, <1>4, <2>1, <2>2, Zenon DEF EntriesTell, TellAll
  <2>5. PICK longer : longer = Append(events, [kind |-> "read", fp |-> f.fp])
    OBVIOUS
  <2>6. Counted(c, f.fp) \in Entry /\ Tells(Counted(c, f.fp), longer, last, life)
    BY <1>2, <2>3, <2>4, <2>5, ReadTells
  <2>7. caps' = [caps EXCEPT ![f.s] = Counted(c, f.fp)] /\ caps'[f.s] = Counted(c, f.fp)
    BY <1>1, <1>2, <1>4, <2>1 DEF Finish, StoreTypeOK
  <2>8. log' = [log EXCEPT ![f.s] = longer] /\ log'[f.s] = longer
    BY <1>1, <1>2, <1>4, <2>2, <2>5 DEF Finish, Note, StoreTypeOK
  <2>9. banner' = buildCapBanner(f.s, f.fp, repeats(c, f.fp), Counted(c, f.fp))
    BY <1>4, <2>1, <2>7 DEF Finish
  <2>10. stale' \subseteq stale
    BY <1>4 DEF Finish, touch
  <2>11. [kind |-> "read", fp |-> f.fp] \in Event
    BY <1>2 DEF Event, Call
  <2>12. longer \in Seq(Event)
    BY <2>3, <2>5, <2>11, AppendAt
  <2>13. /\ caps' \in [Sessions -> Entry \union {None}] /\ log' \in [Sessions -> Seq(Event)]
         /\ TellAll(caps', log')
    BY <1>1, <1>2, <2>6, <2>7, <2>8, <2>12, UpdateTells DEF StoreTypeOK, EntriesTell
  <2>14. BannerTellsTruth' /\ banner' \in Banner
    BY <1>2, <2>3, <2>4, <2>5, <2>8, <2>9, ReadBanner
  <2>15. StoreTypeOK' /\ EntriesTell'
    BY <1>1, <1>2, <2>13, <2>14 DEF StoreTypeOK, EntriesTell
  <2>16. WorkIsFresh'
    <3> SUFFICES ASSUME NEW g \in flights, g.watched
                 PROVE  caps'[g.s] # None /\ g.s \notin stale'
      BY <1>2 DEF WorkIsFresh
    <3>1. caps[g.s] # None /\ g.s \notin stale /\ g.s \in Sessions
      BY <1>1 DEF WorkIsFresh, StoreTypeOK, Flight
    <3>2. Counted(c, f.fp) # None
      BY <2>6, CapsAssumption
    <3> QED BY <1>1, <2>7, <2>10, <3>1, <3>2 DEF StoreTypeOK
  <2> QED BY <2>14, <2>15, <2>16 DEF StoreInv
<1> QED BY <1>3, <1>4

LEMMA UnregisterKeeps ==
  ASSUME StoreInv, NEW s \in Sessions, unregister(s)
  PROVE  StoreInv'
<1>1. StoreTypeOK /\ EntriesTell /\ WorkIsFresh /\ BannerTellsTruth
  BY DEF StoreInv
<1>2. /\ caps' = evict(caps, {s}, None) /\ log' = evict(log, {s}, <<>>)
      /\ stale' \subseteq stale /\ flights' = Unwatched({s}) /\ UNCHANGED <<banner, bypassed>>
  BY <1>1 DEF unregister, evict, StoreTypeOK
<1>3. /\ caps' \in [Sessions -> Entry \union {None}] /\ log' \in [Sessions -> Seq(Event)]
      /\ TellAll(caps', log')
  BY <1>1, <1>2, EvictTells
<1>4. /\ flights' \subseteq Flight
      /\ \A f \in flights' : f.watched => f \in flights /\ f.s \notin {s}
  BY <1>1, <1>2, UnwatchedIs DEF StoreTypeOK
<1>5. StoreTypeOK' /\ EntriesTell'
  BY <1>1, <1>2, <1>3, <1>4 DEF StoreTypeOK, EntriesTell
<1>6. WorkIsFresh'
  BY <1>1, <1>2, <1>4 DEF WorkIsFresh, evict, Flight
<1>7. \A x \in Sessions : log'[x] = log[x] \/ log'[x] = <<>> \/ Last(log'[x]).kind # "read"
  BY <1>2 DEF evict
<1>8. BannerTellsTruth'
  BY <1>1, <1>2, <1>7, BannerKept
<1> QED BY <1>5, <1>6, <1>8 DEF StoreInv

\* An hour and the switch leave nobody's work watched.
LEMMA PauseKeeps ==
  ASSUME StoreInv, Hour \/ Bypass
  PROVE  StoreInv'
<1>1. StoreTypeOK /\ EntriesTell /\ BannerTellsTruth
  BY DEF StoreInv
<1>2. flights' = Unwatched(Sessions) /\ bypassed' \in BOOLEAN /\ UNCHANGED <<caps, banner, log>>
  BY <1>1 DEF Hour, Bypass, StoreTypeOK
<1>3. flights' \subseteq Flight /\ \A f \in flights' : ~f.watched
  BY <1>1, <1>2, UnwatchedIs DEF StoreTypeOK, Flight
<1>4. StoreTypeOK' /\ EntriesTell' /\ WorkIsFresh'
  BY <1>1, <1>2, <1>3 DEF StoreTypeOK, EntriesTell, WorkIsFresh
<1>5. BannerTellsTruth'
  BY <1>1, <1>2, BannerKept
<1> QED BY <1>4, <1>5 DEF StoreInv

LEMMA MarkKeeps ==
  ASSUME StoreInv, NEW s \in Sessions, markChildSession(s)
  PROVE  StoreInv'
<1>1. StoreTypeOK /\ EntriesTell /\ WorkIsFresh /\ BannerTellsTruth
  BY DEF StoreInv
<1>2. stale' \subseteq stale /\ UNCHANGED <<caps, flights, banner, bypassed, log>>
  BY DEF markChildSession, touch
<1>3. StoreTypeOK' /\ EntriesTell' /\ WorkIsFresh'
  BY <1>1, <1>2 DEF StoreTypeOK, EntriesTell, WorkIsFresh
<1>4. BannerTellsTruth'
  BY <1>1, <1>2, BannerKept
<1> QED BY <1>3, <1>4 DEF StoreInv

LEMMA StoreInvInit == Init => StoreInv
<1> SUFFICES ASSUME Init PROVE StoreInv
  OBVIOUS
<1>1. /\ \A s \in Sessions : caps[s] = None /\ log[s] = <<>>
      /\ flights = {} /\ banner = None /\ bypassed = FALSE
  BY DEF Init
<1>2. StoreTypeOK
  <2>1. <<>> \in Seq(Event)
    OBVIOUS
  <2> QED BY <1>1, <2>1 DEF Init, StoreTypeOK
<1>3. EntriesTell
  BY <1>1, Zenon DEF EntriesTell, TellAll
<1> QED BY <1>1, <1>2, <1>3 DEF StoreInv, WorkIsFresh, BannerTellsTruth

LEMMA StoreInvStep ==
  ASSUME StoreInv, [Next]_vars
  PROVE  StoreInv'
<1>1. CASE Chat
  BY <1>1, ChatKeeps
<1>2. CASE Hour \/ Bypass
  BY <1>2, PauseKeeps
<1>3. ASSUME NEW s \in Sessions, NEW agent \in DOMAIN AgentTier, NEW text \in Texts,
             Dispatch(s, agent, text)
      PROVE  StoreInv'
  BY <1>3, DispatchKeeps
<1>4. ASSUME NEW s \in Sessions, NEW fp \in Reads, Start(s, fp)
      PROVE  StoreInv'
  BY <1>4, StartKeeps
<1>5. ASSUME NEW s \in Sessions, NEW tier \in DOMAIN TierCaps,
             registerProducerSession(s, tier, baseline(tier))
      PROVE  StoreInv'
  <2>1. tier \in Tiers /\ baseline(tier) \in Nat
    BY CapsAssumption DEF Tiers, baseline
  <2> QED BY <1>5, <2>1, ProducerKeeps
<1>6. ASSUME NEW s \in Sessions, NEW text \in Texts, RoleDispatch(s, override(text))
      PROVE  StoreInv'
  <2>1. override(text) \in Nat \union {None}
    BY CapIsNat
  <2>2. CASE resumeRoleSession(s, override(text))
    BY <2>1, <2>2, ResumeKeeps
  <2>3. CASE override(text) # None /\ registerProducerSession(s, "role", override(text))
    <3>1. "role" \in Tiers /\ override(text) \in Nat
      BY <2>1, <2>3 DEF Tiers
    <3> QED BY <2>3, <3>1, ProducerKeeps
  <2> QED BY <1>6, <2>2, <2>3 DEF RoleDispatch
<1>7. ASSUME NEW s \in Sessions, markChildSession(s) \/ unregister(s)
      PROVE  StoreInv'
  BY <1>7, MarkKeeps, UnregisterKeeps
<1>8. ASSUME NEW f \in flights, Finish(f)
      PROVE  StoreInv'
  BY <1>8, FinishKeeps
<1>9. CASE UNCHANGED vars
  <2>1. UNCHANGED <<caps, stale, flights, banner, bypassed, log>>
    BY <1>9 DEF vars
  <2>2. BannerTellsTruth'
    BY <2>1, BannerKept DEF StoreInv
  <2> QED BY <2>1, <2>2 DEF StoreInv, StoreTypeOK, EntriesTell, WorkIsFresh
<1> QED BY <1>1, <1>2, <1>3, <1>4, <1>5, <1>6, <1>7, <1>8, <1>9 DEF Next

\* The caps of a store follow the history of its sessions, whatever the dispatches, resumes,
\* overlapping calls, sweeps and deletions: a banner is right about the reads of the dispatch and
\* of the whole life it speaks of, no entry of a working session is swept, and an entry's tier, cap
\* and mark are the latest dispatch's (sessions.ts:103-150, 455-478, 541-555).
THEOREM CapsFollowSession == Spec => []StoreFollowsSession
<1>1. StoreInv => StoreFollowsSession
  <2> SUFFICES ASSUME StoreInv PROVE StoreFollowsSession
    OBVIOUS
  <2>1. \A f \in flights : f.watched => caps[f.s] # None
    BY DEF StoreInv, WorkIsFresh
  <2>2. ASSUME NEW s \in Sessions, caps[s] # None
        PROVE  LET dispatch == log[s][Latest(log[s])]
               IN <<caps[s].tierName, caps[s].cap, caps[s].trivial>>
                     = <<dispatch.tier, dispatch.cap, dispatch.trivial>>
    <3>1. PICK last, life : Tells(caps[s], log[s], last, life)
      BY <2>2, Zenon DEF StoreInv, EntriesTell, TellAll
    <3>2. log[s] \in Seq(Event)
      BY DEF StoreInv, StoreTypeOK
    <3>3. Latest(log[s]) = last
      BY <3>1, <3>2, LatestIs DEF Tells
    <3>4. <<caps[s].tierName, caps[s].cap, caps[s].trivial>>
             = <<log[s][last].tier, log[s][last].cap, log[s][last].trivial>>
      BY <3>1, Zenon DEF Tells
    <3> QED BY <3>3, <3>4
  <2>3. WorkIsJudgedByLatest
    BY <2>1, <2>2 DEF WorkIsJudgedByLatest
  <2> QED BY <2>3 DEF StoreInv, StoreFollowsSession
<1> QED BY <1>1, StoreInvInit, StoreInvStep, PTL DEF Spec
=============================================================================
