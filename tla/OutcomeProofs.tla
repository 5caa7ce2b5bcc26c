---------------------------- MODULE OutcomeProofs ----------------------------
(***************************************************************************)
(* Proofs about the outcome store: the shared file of OutcomeSync, for any *)
(* number of processes and attempts, the flusher of one process of         *)
(* OutcomeFlusher, for any number of callers, rows and failures, and the   *)
(* ingestion of Ingest, for any number of instances, directories and runs. *)
(***************************************************************************)
EXTENDS OutcomeSync, OutcomeFlusher, Ingest, SequenceTheorems, FiniteSetTheorems, TLAPS

-----------------------------------------------------------------------------
(* The shared file (OutcomeSync). *)

IntEntry == [Counters -> Int]

-----------------------------------------------------------------------------
(* Entries. *)

\* The arithmetic of entries stays within entries.
LEMMA EntryTypes ==
  /\ Zero \in NatEntry
  /\ Converted \in IntEntry
  /\ \A c0 : One(c0) \in IntEntry
  /\ \A x, y \in IntEntry : Add(x, y) \in IntEntry /\ Sub(x, y) \in IntEntry
  /\ \A x, y \in NatEntry : Add(x, y) \in NatEntry
  /\ \A x \in IntEntry : Floor(x) \in NatEntry
  /\ NatEntry \subseteq IntEntry
  BY DEF Zero, NatEntry, IntEntry, Converted, One, Add, Sub, Floor

\* mergeForeign returns counters.
LEMMA MergeType ==
  ASSUME NEW l \in NatEntry, NEW d \in NatEntry, NEW b \in NatEntry
  PROVE  MergeForeign(l, d, b) \in NatEntry
  BY EntryTypes DEF MergeForeign, absorb, mergeDescendant

\* mergeForeign never lowers a counter: the guard descendsFrom is what makes
\* the subtraction of the baseline safe.
LEMMA MergeKeeps ==
  ASSUME NEW l \in NatEntry, NEW d \in NatEntry, NEW b \in NatEntry,
         NEW c \in Counters
  PROVE  MergeForeign(l, d, b)[c] >= l[c]
  <1>1. CASE DescendsFrom(d, b)
    <2>1. d[c] >= b[c] /\ l[c] \in Nat /\ d[c] \in Nat /\ b[c] \in Nat
      BY <1>1 DEF DescendsFrom, NatEntry
    <2>2. Floor(Sub(Add(l, d), b))[c] = l[c] + d[c] - b[c]
      BY <2>1 DEF Floor, Sub, Add
    <2> QED
      BY <1>1, <2>1, <2>2 DEF MergeForeign, absorb, mergeDescendant
  <1>2. CASE ~DescendsFrom(d, b)
    BY <1>2 DEF MergeForeign, absorb, mergeDescendant, Add, NatEntry
  <1> QED
    BY <1>1, <1>2

-----------------------------------------------------------------------------
(* Type correctness. *)

\* What one action of the store does to the types.
LEMMA RecordType ==
  ASSUME SyncTypeOK, NEW p \in Procs, NEW d \in IntEntry, Record(p, d),
         scored' \in [Procs -> [AttemptIds -> {"none", "pass", "fail", "refusal"}]],
         intact' \in BOOLEAN
  PROVE  SyncTypeOK'
  <1>1. Floor(Add(live[p], d)) \in NatEntry /\ Add(mine[p], d) \in IntEntry
    BY EntryTypes DEF SyncTypeOK, IntEntry
  <1> QED
    BY <1>1 DEF SyncTypeOK, Record, file, flush, IntEntry

\* Every step preserves the type invariant.
LEMMA TypeStep == SyncTypeOK /\ [SyncNext]_syncVars => SyncTypeOK'
  <1> SUFFICES ASSUME SyncTypeOK, [SyncNext]_syncVars PROVE SyncTypeOK'
    OBVIOUS
  <1> USE SyncAssumption DEF story
  <1>1. CASE UNCHANGED syncVars
    BY <1>1 DEF SyncTypeOK, syncVars, store, file, flush
  <1>2. ASSUME NEW p \in Procs, Records(p) PROVE SyncTypeOK'
    <2> PICK a \in AttemptIds :
          \/ \E verdict \in Verdicts : RecordVerdict(p, a, verdict)
          \/ RecordRefusal(p, a)
          \/ ConvertPass(p, a)
      BY <1>2 DEF Records
    <2>0. \A k \in {"none", "pass", "fail", "refusal"} :
            [scored EXCEPT ![p][a] = k]
              \in [Procs -> [AttemptIds -> {"none", "pass", "fail", "refusal"}]]
      BY DEF SyncTypeOK
    <2>1. ASSUME NEW verdict \in Verdicts, RecordVerdict(p, a, verdict)
          PROVE  SyncTypeOK'
      <3>1. verdict \in {"pass", "fail"} /\ Record(p, One(verdict)) /\ Score(p, a, verdict)
        BY <2>1 DEF RecordVerdict
      <3>2. intact' \in BOOLEAN
        BY <2>1 DEF RecordVerdict, SyncTypeOK
      <3> QED
        BY <2>0, <3>1, <3>2, RecordType, EntryTypes DEF Score
    <2>2. CASE RecordRefusal(p, a)
      <3>1. Record(p, One("falseRefusals")) /\ (Score(p, a, "refusal") \/ UNCHANGED scored)
        BY <2>2 DEF RecordRefusal
      <3>2. scored' \in [Procs -> [AttemptIds -> {"none", "pass", "fail", "refusal"}]]
        BY <2>0, <3>1 DEF Score, SyncTypeOK
      <3>3. intact' \in BOOLEAN
        BY <2>2 DEF RecordRefusal, SyncTypeOK
      <3> QED
        BY <3>1, <3>2, <3>3, RecordType, EntryTypes
    <2>3. CASE ConvertPass(p, a)
      <3>1. intact' \in BOOLEAN
        BY <2>3 DEF ConvertPass
      <3>2. Record(p, Converted) /\ Score(p, a, "refusal")
        BY <2>3 DEF ConvertPass
      <3> QED
        BY <2>0, <3>1, <3>2, RecordType, EntryTypes DEF Score
    <2> QED
      BY <2>1, <2>2, <2>3
  <1>3. ASSUME NEW p \in Procs, Flushes(p) PROVE SyncTypeOK'
    <2>1. CASE LoadFile(p)
      <3>1. Add(live[p], disk.entry) \in NatEntry
        BY EntryTypes DEF SyncTypeOK
      <3> QED
        BY <2>1, <3>1 DEF SyncTypeOK, LoadFile, absorb, Goes, file, PC
    <2>2. CASE LoadNothing(p)
      BY <2>2, EntryTypes DEF SyncTypeOK, LoadNothing, Goes, store, flush, Missing, States, PC
    <2>3. CASE LoadNewer(p)
      BY <2>3 DEF SyncTypeOK, LoadNewer, Goes, store, file, flush, PC
    <2>4. CASE LockFile(p)
      BY <2>4 DEF SyncTypeOK, LockFile, Goes, store, flush, PC
    <2>5. CASE ReadForeign(p)
      <3>1. PICK m \in NatEntry : m = MergeForeign(live[p], disk.entry, base[p])
        BY MergeType DEF SyncTypeOK
      <3>2. CASE disk.state = "ok"
        <4>1. live' = [live EXCEPT ![p] = m] /\ base' = [base EXCEPT ![p] = disk.entry]
          BY <2>5, <3>1, <3>2, Zenon DEF ReadForeign
        <4>2. disk' = disk /\ pc' = [pc EXCEPT ![p] = "snapshot"]
          BY <2>5, <3>2 DEF ReadForeign, Goes
        <4>3. UNCHANGED <<scored, mine, dirty, lock, snap, inSnap, inFile, intact, fileMishaps>>
          BY <2>5 DEF ReadForeign
        <4> QED
          BY <4>1, <4>2, <4>3 DEF SyncTypeOK, PC
      <3>3. CASE disk.state # "ok"
        <4>1. Missing \in [state : States, entry : NatEntry]
          BY EntryTypes DEF Missing, States
        <4> QED
          BY <2>5, <3>3, <4>1 DEF SyncTypeOK, ReadForeign, Goes, PC
      <3> QED
        BY <3>2, <3>3
    <2>6. CASE ReadForeignNewer(p)
      BY <2>6 DEF SyncTypeOK, ReadForeignNewer, Goes, store, flush, PC
    <2>7. CASE TakeSnapshot(p)
      BY <2>7 DEF SyncTypeOK, TakeSnapshot, Goes, file, PC
    <2>8. CASE SaveSnapshot(p)
      BY <2>8 DEF SyncTypeOK, SaveSnapshot, Goes, store, Holds, States, PC
    <2>9. CASE Unlock(p)
      BY <2>9 DEF SyncTypeOK, Unlock, Goes, store, flush, PC
    <2> QED
      BY <1>3, <2>1, <2>2, <2>3, <2>4, <2>5, <2>6, <2>7, <2>8, <2>9 DEF Flushes
  <1>4. ASSUME NEW p \in Procs, Failures(p) PROVE SyncTypeOK'
    <2>1. CASE LoadFails(p)
      BY <2>1 DEF SyncTypeOK, LoadFails, FileTrouble, Goes, store, file, flush, PC
    <2>2. CASE ReadForeignFails(p)
      BY <2>2 DEF SyncTypeOK, ReadForeignFails, FileTrouble, Goes, store, file, flush, PC
    <2>3. CASE SaveSnapshotFails(p)
      BY <2>3 DEF SyncTypeOK, SaveSnapshotFails, FileTrouble, Goes, file, flush, PC
    <2>4. CASE Crash(p)
      BY <2>4 DEF SyncTypeOK, Crash, Goes, store, file, flush, PC
    <2> QED
      BY <1>4, <2>1, <2>2, <2>3, <2>4 DEF Failures
  <1>5. CASE RecoverLock
    BY <1>5 DEF SyncTypeOK, RecoverLock, store, flush
  <1>6. CASE FileRemoved \/ FileCorrupted \/ FileUpgraded
    <2>1. intact' \in BOOLEAN
      BY <1>6, Zenon DEF FileRemoved, FileCorrupted, FileUpgraded, Tampered
    <2>2. fileMishaps' \in 0..MaxFileMishaps
      BY <1>6 DEF SyncTypeOK, FileRemoved, FileCorrupted, FileUpgraded, Tampered
    <2>3. disk' \in [state : States, entry : NatEntry]
      BY <1>6, EntryTypes
         DEF FileRemoved, FileCorrupted, FileUpgraded, Missing, Corrupt, Newer, States
    <2> QED
      BY <1>6, <2>1, <2>2, <2>3
         DEF SyncTypeOK, FileRemoved, FileCorrupted, FileUpgraded, store, flush
  <1> QED
    BY <1>1, <1>2, <1>3, <1>4, <1>5, <1>6 DEF SyncNext

\* The initial state has its types.
LEMMA TypeInit == SyncInit => SyncTypeOK
  BY SyncAssumption, EntryTypes
     DEF SyncInit, SyncTypeOK, Missing, States, PC, IntEntry

\* Type correctness of the store, the file and the flush transaction.
THEOREM SyncTypeCorrect == SyncSpec => []SyncTypeOK
  BY TypeInit, TypeStep, PTL DEF SyncSpec

-----------------------------------------------------------------------------
(* A process never loses its own observations. *)

\* One step: only the store's own operations lower `mine` or `live`.
LEMMA KeepsOwnStep == SyncTypeOK /\ MemoryKeepsOwn /\ [SyncNext]_syncVars => MemoryKeepsOwn'
  <1> SUFFICES ASSUME SyncTypeOK, MemoryKeepsOwn, [SyncNext]_syncVars PROVE MemoryKeepsOwn'
    OBVIOUS
  <1>0. \A q \in Procs : \A c \in Counters :
          /\ live[q][c] \in Nat /\ mine[q][c] \in Int
          /\ disk.entry[c] \in Nat /\ base[q][c] \in Nat
          /\ live[q][c] >= mine[q][c]
    BY DEF SyncTypeOK, MemoryKeepsOwn, NatEntry
  <1>1. ASSUME NEW p \in Procs, NEW d \in IntEntry, Record(p, d)
        PROVE  MemoryKeepsOwn'
    <2>1. \A c \in Counters :
            /\ d[c] \in Int
            /\ Floor(Add(live[p], d))[c] >= live[p][c] + d[c]
            /\ Add(mine[p], d)[c] = mine[p][c] + d[c]
            /\ Floor(Add(live[p], d))[c] \in Int
      BY <1>0 DEF Floor, Add, IntEntry
    <2>2. \A c \in Counters : live'[p][c] >= mine'[p][c]
      <3>1. live'[p] = Floor(Add(live[p], d)) /\ mine'[p] = Add(mine[p], d)
        BY <1>1 DEF Record, SyncTypeOK
      <3> QED
        BY <1>0, <2>1, <3>1
    <2>3. \A q \in Procs : q # p => live'[q] = live[q] /\ mine'[q] = mine[q]
      BY <1>1 DEF Record, SyncTypeOK
    <2> QED
      BY <1>0, <2>2, <2>3 DEF MemoryKeepsOwn
  <1>2. ASSUME NEW p \in Procs, Records(p) PROVE MemoryKeepsOwn'
    BY <1>1, <1>2, EntryTypes DEF Records, RecordVerdict, RecordRefusal, ConvertPass
  <1>3. ASSUME NEW p \in Procs, LoadFile(p) PROVE MemoryKeepsOwn'
    <2>1. live' = [live EXCEPT ![p] = Add(@, disk.entry)] /\ mine' = mine
      BY <1>3 DEF LoadFile, absorb
    <2> QED
      BY <1>0, <2>1 DEF MemoryKeepsOwn, Add, SyncTypeOK
  <1>4. ASSUME NEW p \in Procs, ReadForeign(p) PROVE MemoryKeepsOwn'
    <2>1. CASE disk.state = "ok"
      <3>1. PICK m \in NatEntry : m = MergeForeign(live[p], disk.entry, base[p])
        BY MergeType DEF SyncTypeOK
      <3>2. live' = [live EXCEPT ![p] = m] /\ mine' = mine
        BY <1>4, <2>1, <3>1, Zenon DEF ReadForeign
      <3>3. \A c \in Counters : m[c] >= live[p][c] /\ m[c] \in Nat
        BY <3>1, MergeKeeps DEF SyncTypeOK, NatEntry
      <3> QED
        BY <1>0, <3>2, <3>3 DEF MemoryKeepsOwn, SyncTypeOK
    <2>2. CASE disk.state # "ok"
      BY <1>4, <2>2 DEF ReadForeign, MemoryKeepsOwn
    <2> QED
      BY <2>1, <2>2
  <1>5. CASE UNCHANGED <<live, mine>>
    BY <1>5 DEF MemoryKeepsOwn
  <1> QED
    BY <1>2, <1>3, <1>4, <1>5
       DEF SyncNext, Flushes, Failures, LoadNothing, LoadNewer, LockFile,
           ReadForeignNewer, TakeSnapshot, SaveSnapshot, Unlock, LoadFails,
           ReadForeignFails, SaveSnapshotFails, Crash, RecoverLock, FileRemoved,
           FileCorrupted, FileUpgraded, syncVars, store

\* mergeForeign never drops what this process recorded, whatever happens to
\* the file: removed, corrupted, replaced by a fresh process, refusals late or
\* not.
THEOREM OwnNeverLost == SyncSpec => []MemoryKeepsOwn
  <1>1. SyncInit => MemoryKeepsOwn
    BY DEF SyncInit, MemoryKeepsOwn, Zero
  <1> QED
    BY <1>1, TypeInit, TypeStep, KeepsOwnStep, PTL DEF SyncSpec

-----------------------------------------------------------------------------
(* Exact merging, while the file is only touched by the processes and no
   refusal has converted a pass that a snapshot already holds: as long as
   `intact` holds, so does ExactBody.                                      *)

\* Whoever is inside the transaction holds the lock.
LockHeld ==
  \A p \in Procs : pc[p] \in {"read", "snapshot", "write", "unlock"} => lock = p

\* No refusal takes back a pass that a snapshot holds.
HistoryGrows ==
  \A p \in Procs : \A c \in Counters :
    inFile[p][c] <= inSnap[p][c] /\ inSnap[p][c] <= mine[p][c]

\* The file is a later state of every baseline, which is what descendsFrom
\* tests.
FileDescends ==
  /\ disk.state \in {"missing", "ok"}
  /\ disk.state = "missing" => disk.entry = Zero
  /\ \A p \in Procs : \A c \in Counters : base[p][c] <= disk.entry[c]

MemoryExact ==
  \A p \in Procs : \A c \in Counters :
    live[p][c] = base[p][c] + mine[p][c] - inFile[p][c]

\* From the merge to the save the baseline is the file, and the snapshot adds
\* this process's own records to it.
SnapshotExact ==
  \A p \in Procs :
    /\ pc[p] \in {"snapshot", "write"} => base[p] = disk.entry
    /\ pc[p] = "write" =>
         \A c \in Counters : snap[p][c] = base[p][c] + inSnap[p][c] - inFile[p][c]

\* A process that has not loaded the file has an empty baseline.
StartsEmpty == \A p \in Procs : pc[p] = "start" => base[p] = Zero

ExactBody ==
  /\ LockHeld /\ HistoryGrows /\ FileDescends /\ MemoryExact /\ SnapshotExact
  /\ StartsEmpty

ExactInv == intact => ExactBody

\* All counters are integers; the stored ones are not negative.
LEMMA CounterTypes ==
  ASSUME SyncTypeOK, NEW q \in Procs, NEW c \in Counters
  PROVE  /\ live[q][c] \in Nat /\ base[q][c] \in Nat /\ snap[q][c] \in Nat
         /\ disk.entry[c] \in Nat
         /\ mine[q][c] \in Int /\ inSnap[q][c] \in Int /\ inFile[q][c] \in Int
  BY DEF SyncTypeOK, NatEntry

\* Recording keeps memory exact as long as it takes nothing back that a
\* snapshot holds.
LEMMA RecordExact ==
  ASSUME SyncTypeOK, ExactBody, NEW p \in Procs, NEW d \in IntEntry, Record(p, d),
         \A c \in Counters : mine[p][c] + d[c] >= inSnap[p][c]
  PROVE  ExactBody'
  <1>1. live'[p] = Floor(Add(live[p], d)) /\ mine'[p] = Add(mine[p], d)
    BY DEF Record, SyncTypeOK
  <1>2. \A q \in Procs : q # p => live'[q] = live[q] /\ mine'[q] = mine[q]
    BY DEF Record, SyncTypeOK
  <1>3. UNCHANGED <<disk, lock, base, snap, inSnap, inFile, pc>>
    BY DEF Record, file, flush
  <1>4. \A c \in Counters :
          /\ Floor(Add(live[p], d))[c] = live[p][c] + d[c]
          /\ Add(mine[p], d)[c] = mine[p][c] + d[c]
    <2> SUFFICES ASSUME NEW c \in Counters
                 PROVE  /\ Floor(Add(live[p], d))[c] = live[p][c] + d[c]
                        /\ Add(mine[p], d)[c] = mine[p][c] + d[c]
      OBVIOUS
    <2>1. d[c] \in Int
      BY DEF IntEntry
    <2>2. live[p][c] + d[c] >= 0
      BY <2>1, CounterTypes DEF ExactBody, MemoryExact, HistoryGrows
    <2> QED
      BY <2>1, <2>2, CounterTypes DEF Floor, Add
  <1>5. \A c \in Counters : d[c] \in Int
    BY DEF IntEntry
  <1>6. HistoryGrows'
    BY <1>1, <1>2, <1>3, <1>4, <1>5, CounterTypes DEF ExactBody, HistoryGrows
  <1>7. MemoryExact'
    BY <1>1, <1>2, <1>3, <1>4, <1>5, CounterTypes DEF ExactBody, MemoryExact
  <1>8. LockHeld' /\ FileDescends' /\ SnapshotExact' /\ StartsEmpty'
    BY <1>3 DEF ExactBody, LockHeld, FileDescends, SnapshotExact, StartsEmpty
  <1> QED
    BY <1>6, <1>7, <1>8 DEF ExactBody

\* Merging a file that descends from the baseline adds exactly the difference.
LEMMA MergeExact ==
  ASSUME SyncTypeOK, ExactBody, NEW p \in Procs, NEW c \in Counters
  PROVE  MergeForeign(live[p], disk.entry, base[p])[c]
           = live[p][c] + disk.entry[c] - base[p][c]
  <1>1. DescendsFrom(disk.entry, base[p])
    BY CounterTypes DEF DescendsFrom, ExactBody, FileDescends
  <1>2. live[p][c] + disk.entry[c] - base[p][c] >= 0
    BY CounterTypes DEF ExactBody, FileDescends
  <1> QED
    BY <1>1, <1>2, CounterTypes DEF MergeForeign, absorb, mergeDescendant, Floor, Sub, Add

\* What was touched by a foreign hand stays so.
LEMMA IntactStep == [SyncNext]_syncVars /\ intact' => intact
  BY DEF SyncNext, Records, RecordVerdict, RecordRefusal, ConvertPass, Flushes,
     Failures, LoadFile, LoadNothing, LoadNewer, LockFile, ReadForeign,
     ReadForeignNewer, TakeSnapshot, SaveSnapshot, Unlock, LoadFails,
     ReadForeignFails, SaveSnapshotFails, Crash, RecoverLock, FileRemoved,
     FileCorrupted, FileUpgraded, FileTrouble, Tampered, syncVars, story

\* Every step that leaves the system intact (no foreign hand on the file, no
\* pass taken back after it was saved) preserves the invariant.
LEMMA ExactStep ==
  ASSUME SyncTypeOK, ExactInv, [SyncNext]_syncVars
  PROVE  ExactInv'
  <1> SUFFICES ASSUME intact' PROVE ExactBody'
    BY DEF ExactInv
  <1>0. intact /\ ExactBody
    BY IntactStep DEF ExactInv
  <1> USE <1>0 DEF ExactBody
  <1>1. CASE UNCHANGED syncVars
    BY <1>1 DEF syncVars, store, file, flush, LockHeld, HistoryGrows, FileDescends,
       MemoryExact, SnapshotExact, StartsEmpty
  <1>2. ASSUME NEW p \in Procs, Records(p) PROVE ExactBody'
    <2> PICK a \in AttemptIds :
          \/ \E verdict \in Verdicts : RecordVerdict(p, a, verdict)
          \/ RecordRefusal(p, a)
          \/ ConvertPass(p, a)
      BY <1>2 DEF Records
    <2>1. ASSUME NEW c0, Record(p, One(c0)) PROVE ExactBody'
      <3>1. \A c \in Counters : mine[p][c] + One(c0)[c] >= inSnap[p][c]
        BY CounterTypes DEF One, HistoryGrows
      <3> QED
        BY <2>1, <3>1, RecordExact, EntryTypes
    <2>2. CASE ConvertPass(p, a)
      <3>0. mine[p]["pass"] > inSnap[p]["pass"]
        BY <2>2, Zenon DEF ConvertPass
      <3>1. \A c \in Counters : mine[p][c] + Converted[c] >= inSnap[p][c]
        BY <3>0, CounterTypes DEF Converted, HistoryGrows
      <3> QED
        BY <2>2, <3>1, RecordExact, EntryTypes DEF ConvertPass
    <2> QED
      BY <2>1, <2>2 DEF RecordVerdict, RecordRefusal
  <1>3. ASSUME NEW p \in Procs, LoadFile(p) PROVE ExactBody'
    <2>1. /\ live' = [live EXCEPT ![p] = Add(@, disk.entry)]
          /\ base' = [base EXCEPT ![p] = disk.entry]
          /\ pc' = [pc EXCEPT ![p] = "up"]
          /\ pc[p] = "start"
          /\ UNCHANGED <<mine, disk, lock, snap, inSnap, inFile>>
      BY <1>3 DEF LoadFile, absorb, Goes, file
    <2>2. \A c \in Counters : live'[p][c] = live[p][c] + disk.entry[c] /\ base[p][c] = 0
      BY <2>1 DEF Add, SyncTypeOK, StartsEmpty, Zero
    <2>3. MemoryExact'
      BY <2>1, <2>2, CounterTypes DEF MemoryExact, SyncTypeOK
    <2>4. FileDescends'
      BY <2>1, CounterTypes DEF FileDescends, SyncTypeOK
    <2>5. LockHeld' /\ HistoryGrows' /\ SnapshotExact' /\ StartsEmpty'
      BY <2>1 DEF LockHeld, HistoryGrows, SnapshotExact, StartsEmpty, SyncTypeOK
    <2> QED
      BY <2>3, <2>4, <2>5
  <1>4. ASSUME NEW p \in Procs, ReadForeign(p) PROVE ExactBody'
    <2>0. /\ pc' = [pc EXCEPT ![p] = "snapshot"]
          /\ pc[p] = "read" /\ lock = p
          /\ UNCHANGED <<mine, lock, snap, inSnap, inFile>>
      BY <1>4 DEF ReadForeign, Goes, LockHeld
    <2>1. CASE disk.state = "ok"
      <3>1. PICK m : m = MergeForeign(live[p], disk.entry, base[p])
        OBVIOUS
      <3>2. /\ live' = [live EXCEPT ![p] = m]
            /\ base' = [base EXCEPT ![p] = disk.entry]
            /\ disk' = disk
        BY <1>4, <2>1, <3>1, Zenon DEF ReadForeign
      <3>3. \A c \in Counters : m[c] = live[p][c] + disk.entry[c] - base[p][c]
        BY <3>1, MergeExact
      <3>4. MemoryExact'
        BY <2>0, <3>2, <3>3, CounterTypes DEF MemoryExact, SyncTypeOK
      <3>5. FileDescends'
        BY <3>2, CounterTypes DEF FileDescends, SyncTypeOK
      <3>6. SnapshotExact'
        BY <2>0, <3>2 DEF SnapshotExact, LockHeld, SyncTypeOK
      <3>7. LockHeld' /\ HistoryGrows' /\ StartsEmpty'
        BY <2>0, <3>2 DEF LockHeld, HistoryGrows, StartsEmpty, SyncTypeOK
      <3> QED
        BY <3>4, <3>5, <3>6, <3>7
    <2>2. CASE disk.state # "ok"
      <3>1. disk' = Missing /\ live' = live /\ base' = base
        BY <1>4, <2>2 DEF ReadForeign
      <3>2. disk.state = "missing" /\ disk.entry = Zero
        BY <2>2 DEF FileDescends
      <3>3. disk'.state = "missing" /\ disk'.entry = Zero
        BY <3>1 DEF Missing
      <3>4. base[p] = Zero
        <4>1. \A c \in Counters : base[p][c] = 0
          BY <3>2, CounterTypes DEF FileDescends, Zero
        <4> QED
          BY <4>1 DEF Zero, SyncTypeOK, NatEntry
      <3>5. FileDescends'
        BY <3>1, <3>2, <3>3 DEF FileDescends
      <3>6. SnapshotExact'
        BY <2>0, <3>1, <3>3, <3>4 DEF SnapshotExact, LockHeld, SyncTypeOK
      <3>7. LockHeld' /\ HistoryGrows' /\ StartsEmpty' /\ MemoryExact'
        BY <2>0, <3>1 DEF LockHeld, HistoryGrows, StartsEmpty, MemoryExact, SyncTypeOK
      <3> QED
        BY <3>5, <3>6, <3>7
    <2> QED
      BY <2>1, <2>2
  <1>5. ASSUME NEW p \in Procs, TakeSnapshot(p) PROVE ExactBody'
    <2>1. /\ snap' = [snap EXCEPT ![p] = live[p]]
          /\ inSnap' = [inSnap EXCEPT ![p] = mine[p]]
          /\ pc' = [pc EXCEPT ![p] = "write"] /\ pc[p] = "snapshot"
          /\ UNCHANGED <<live, mine, disk, lock, base, inFile>>
      BY <1>5 DEF TakeSnapshot, Goes, file
    <2>2. HistoryGrows'
      <3>1. \A c \in Counters : inFile[p][c] <= mine[p][c]
        BY CounterTypes DEF HistoryGrows
      <3> QED
        BY <2>1, <3>1, CounterTypes DEF HistoryGrows, SyncTypeOK
    <2>3. SnapshotExact'
      BY <2>1 DEF SnapshotExact, MemoryExact, SyncTypeOK
    <2>4. LockHeld' /\ FileDescends' /\ MemoryExact' /\ StartsEmpty'
      BY <2>1 DEF LockHeld, FileDescends, MemoryExact, StartsEmpty, SyncTypeOK
    <2> QED
      BY <2>2, <2>3, <2>4
  <1>6. ASSUME NEW p \in Procs, SaveSnapshot(p) PROVE ExactBody'
    <2>1. /\ disk'.state = "ok" /\ disk'.entry = snap[p]
          /\ base' = [base EXCEPT ![p] = snap[p]]
          /\ inFile' = [inFile EXCEPT ![p] = inSnap[p]]
          /\ pc' = [pc EXCEPT ![p] = "unlock"] /\ pc[p] = "write" /\ lock = p
          /\ UNCHANGED <<live, mine, lock, snap, inSnap>>
      BY <1>6 DEF SaveSnapshot, Goes, store, Holds, LockHeld
    <2>2. \A c \in Counters :
            /\ snap[p][c] = base[p][c] + inSnap[p][c] - inFile[p][c]
            /\ base[p][c] = disk.entry[c]
            /\ snap[p][c] >= disk.entry[c]
      BY <2>1, CounterTypes DEF SnapshotExact, HistoryGrows
    <2>3. FileDescends'
      <3>1. \A q \in Procs : \A c \in Counters : base[q][c] <= snap[p][c]
        BY <2>2, CounterTypes DEF FileDescends
      <3> QED
        BY <2>1, <3>1, CounterTypes DEF FileDescends, SyncTypeOK
    <2>4. MemoryExact'
      BY <2>1, <2>2, CounterTypes DEF MemoryExact, SyncTypeOK
    <2>5. HistoryGrows'
      BY <2>1, CounterTypes DEF HistoryGrows, SyncTypeOK
    <2>6. SnapshotExact'
      BY <2>1 DEF SnapshotExact, LockHeld, SyncTypeOK
    <2>7. LockHeld' /\ StartsEmpty'
      BY <2>1 DEF LockHeld, StartsEmpty, SyncTypeOK
    <2> QED
      BY <2>3, <2>4, <2>5, <2>6, <2>7
  <1>7. ASSUME NEW p \in Procs, LoadNothing(p) PROVE ExactBody'
    <2>1. /\ disk'.state = "missing" /\ disk'.entry = Zero
          /\ pc' = [pc EXCEPT ![p] = "up"] /\ pc[p] = "start"
          /\ UNCHANGED <<live, mine, lock, base, snap, inSnap, inFile>>
      BY <1>7 DEF LoadNothing, Missing, Goes, store, flush
    <2>2. disk.entry = Zero
      BY <1>7 DEF LoadNothing, FileDescends
    <2>3. FileDescends' /\ SnapshotExact'
      BY <2>1, <2>2 DEF FileDescends, SnapshotExact, SyncTypeOK
    <2>4. LockHeld' /\ HistoryGrows' /\ MemoryExact' /\ StartsEmpty'
      BY <2>1 DEF LockHeld, HistoryGrows, MemoryExact, StartsEmpty, SyncTypeOK
    <2> QED
      BY <2>3, <2>4
  <1>8. ASSUME NEW p \in Procs, NEW q \in PC \ {"start", "snapshot", "write"},
               pc' = [pc EXCEPT ![p] = q],
               UNCHANGED <<live, mine, disk, base, snap, inSnap, inFile>>,
               LockHeld'
        PROVE  ExactBody'
    <2>1. HistoryGrows' /\ FileDescends' /\ MemoryExact'
      BY <1>8 DEF HistoryGrows, FileDescends, MemoryExact
    <2>2. SnapshotExact' /\ StartsEmpty'
      BY <1>8 DEF SnapshotExact, StartsEmpty, SyncTypeOK
    <2> QED
      BY <1>8, <2>1, <2>2
  <1>9. ASSUME NEW p \in Procs,
               \/ LockFile(p) \/ Unlock(p) \/ ReadForeignFails(p) \/ SaveSnapshotFails(p)
               \/ LoadFails(p) \/ Crash(p) \/ LoadNewer(p) \/ ReadForeignNewer(p)
        PROVE  ExactBody'
    <2>1. \E q \in PC \ {"start", "snapshot", "write"} : pc' = [pc EXCEPT ![p] = q]
      BY <1>9 DEF LockFile, Unlock, ReadForeignFails, SaveSnapshotFails, LoadFails,
         Crash, LoadNewer, ReadForeignNewer, Goes, PC
    <2>2. UNCHANGED <<live, mine, disk, base, snap, inSnap, inFile>>
      BY <1>9 DEF LockFile, Unlock, ReadForeignFails, SaveSnapshotFails, LoadFails,
         Crash, LoadNewer, ReadForeignNewer, store, file, flush
    <2>3. LockHeld'
      <3>1. CASE LockFile(p)
        BY <3>1, SyncAssumption DEF LockFile, Goes, LockHeld, SyncTypeOK
      <3>2. CASE Unlock(p) \/ ReadForeignNewer(p)
        BY <3>2 DEF Unlock, ReadForeignNewer, Goes, LockHeld, SyncTypeOK, FileDescends
      <3>3. CASE ReadForeignFails(p) \/ SaveSnapshotFails(p)
        BY <3>3 DEF ReadForeignFails, SaveSnapshotFails, Goes, file, LockHeld, SyncTypeOK
      <3>4. CASE LoadFails(p) \/ Crash(p) \/ LoadNewer(p)
        BY <3>4 DEF LoadFails, Crash, LoadNewer, Goes, file, LockHeld, SyncTypeOK
      <3> QED
        BY <1>9, <3>1, <3>2, <3>3, <3>4
    <2> QED
      BY <1>8, <2>1, <2>2, <2>3
  <1>10. CASE RecoverLock
    <2>1. UNCHANGED <<live, mine, disk, base, snap, inSnap, inFile, pc>>
      BY <1>10 DEF RecoverLock, store, flush
    <2>2. LockHeld'
      BY <1>10 DEF RecoverLock, LockHeld
    <2> QED
      BY <2>1, <2>2 DEF HistoryGrows, FileDescends, MemoryExact, SnapshotExact,
         StartsEmpty
  <1>11. ~FileRemoved /\ ~FileCorrupted /\ ~FileUpgraded
    BY DEF FileRemoved, FileCorrupted, FileUpgraded, Tampered
  <1> HIDE DEF ExactBody
  <1> QED
    BY <1>1, <1>2, <1>3, <1>4, <1>5, <1>6, <1>7, <1>9, <1>10, <1>11
       DEF SyncNext, Flushes, Failures

\* With nothing on disk and nothing recorded, everything is exact.
LEMMA ExactInit == SyncInit => ExactInv
  <1> SUFFICES ASSUME SyncInit PROVE ExactInv
    OBVIOUS
  <1>1. LockHeld /\ StartsEmpty
    BY DEF SyncInit, LockHeld, StartsEmpty
  <1>2. HistoryGrows /\ MemoryExact
    BY DEF SyncInit, HistoryGrows, MemoryExact, Zero
  <1>3. FileDescends /\ SnapshotExact
    BY DEF SyncInit, FileDescends, SnapshotExact, Missing, Zero
  <1> QED
    BY <1>1, <1>2, <1>3 DEF ExactInv, ExactBody

\* The invariant holds throughout.
LEMMA ExactAlways == SyncSpec => [](SyncTypeOK /\ ExactInv)
  <1>1. SyncTypeOK /\ ExactInv /\ [SyncNext]_syncVars => (SyncTypeOK /\ ExactInv)'
    BY TypeStep, ExactStep
  <1> QED
    BY <1>1, TypeInit, ExactInit, PTL DEF SyncSpec

\* Between two saves the memory of every process is its baseline plus its own
\* unsaved records: nothing merged is merged twice.
THEOREM MergedOnce == SyncSpec => []MemoryIsBasePlusOwn
  <1>1. SyncTypeOK /\ ExactInv => MemoryIsBasePlusOwn
    <2> SUFFICES ASSUME SyncTypeOK, ExactInv, intact, NEW p \in Procs
                 PROVE  live[p] = Add(base[p], Sub(mine[p], inFile[p]))
      BY DEF MemoryIsBasePlusOwn
    <2>1. \A c \in Counters :
            live[p][c] = Add(base[p], Sub(mine[p], inFile[p]))[c]
      BY CounterTypes DEF ExactInv, ExactBody, MemoryExact, Add, Sub
    <2>2. live[p] = [c \in Counters |-> live[p][c]]
      BY DEF SyncTypeOK, NatEntry
    <2> QED
      BY <2>1, <2>2 DEF Add
  <1> QED
    BY <1>1, ExactAlways, PTL

\* Each save adds to outcomes.json exactly what its process recorded since its
\* last save: with any number of processes no update is lost and none is
\* counted twice, through failed reads, failed saves and crashes.
THEOREM SavesExact == SyncSpec => SaveAddsOwn
  <1>1. ASSUME SyncTypeOK, ExactInv, [SyncNext]_syncVars PROVE SavesOwn
    <2> SUFFICES ASSUME intact, NEW p \in Procs, pc[p] = "write", pc'[p] = "unlock", disk' # disk
                 PROVE  disk'.entry = Add(disk.entry, Sub(inSnap[p], inFile[p]))
      BY DEF SavesOwn
    <2>1. SaveSnapshot(p)
      <3>1. PICK q \in Procs : SaveSnapshot(q)
        <4>1. ~FileRemoved /\ ~FileCorrupted /\ ~FileUpgraded
          BY DEF FileRemoved, FileCorrupted, FileUpgraded
        <4>2. ASSUME NEW q \in Procs, LoadNothing(q) \/ ReadForeign(q) PROVE FALSE
          <5>1. pc'[p] = pc[p] \/ p = q
            BY <1>1, <4>2 DEF LoadNothing, ReadForeign, Goes, SyncTypeOK
          <5> QED
            BY <4>2, <5>1 DEF LoadNothing, ReadForeign
        <4>3. ASSUME NEW q \in Procs, Records(q) PROVE FALSE
          BY <4>3 DEF Records, RecordVerdict, RecordRefusal, ConvertPass, Record
        <4>4. ASSUME NEW q \in Procs, Flushes(q) PROVE SaveSnapshot(q)
          <5>1. ASSUME \/ LoadFile(q) \/ LoadNewer(q) \/ LockFile(q) \/ ReadForeignNewer(q)
                       \/ TakeSnapshot(q) \/ Unlock(q)
                PROVE  FALSE
            <6>1. pc'[p] = pc[p] \/ p = q
              BY <1>1, <5>1 DEF LoadFile, LoadNewer, LockFile, ReadForeignNewer, TakeSnapshot, Unlock,
                                Goes, SyncTypeOK
            <6>2. p = q /\ pc[q] = "write"
              BY <6>1
            <6> QED
              BY <5>1, <6>2 DEF LoadFile, LoadNewer, LockFile, ReadForeignNewer, TakeSnapshot, Unlock
          <5> QED
            BY <4>2, <4>4, <5>1 DEF Flushes
        <4>5. ASSUME NEW q \in Procs, Failures(q) PROVE FALSE
          <5>1. \/ LoadFails(q) \/ ReadForeignFails(q) \/ Crash(q) \/ SaveSnapshotFails(q)
            BY <4>5 DEF Failures
          <5>2. ~SaveSnapshotFails(q)
            BY DEF SaveSnapshotFails, file
          <5>3. ASSUME LoadFails(q) \/ ReadForeignFails(q) \/ Crash(q) PROVE FALSE
            <6>1. pc[q] # "write" \/ pc'[q] # "unlock"
              BY <1>1, <5>3 DEF LoadFails, ReadForeignFails, Crash, Goes, SyncTypeOK
            <6>2. pc'[p] = pc[p] \/ p = q
              BY <1>1, <5>3 DEF LoadFails, ReadForeignFails, Crash, Goes, SyncTypeOK
            <6> QED
              BY <6>1, <6>2
          <5> QED
            BY <5>1, <5>2, <5>3
        <4>6. ~RecoverLock /\ ~(UNCHANGED syncVars)
          BY DEF RecoverLock, syncVars
        <4> QED
          BY <1>1, <4>1, <4>3, <4>4, <4>5, <4>6 DEF SyncNext
      <3>2. p = q
        BY <1>1, <3>1 DEF SaveSnapshot, Goes, SyncTypeOK
      <3> QED
        BY <3>1, <3>2
    <2>2. disk'.entry = snap[p]
      BY <2>1 DEF SaveSnapshot, Holds
    <2>3. \A c \in Counters :
            snap[p][c] = Add(disk.entry, Sub(inSnap[p], inFile[p]))[c]
      BY <1>1, CounterTypes DEF ExactInv, ExactBody, SnapshotExact, Add, Sub
    <2>4. snap[p] = [c \in Counters |-> snap[p][c]]
      BY <1>1 DEF SyncTypeOK, NatEntry
    <2> QED
      BY <2>2, <2>3, <2>4 DEF Add
  <1>2. SyncTypeOK /\ ExactInv /\ [SyncNext]_syncVars => [SavesOwn]_syncVars
    BY <1>1
  <1>3. SyncSpec => [][SavesOwn]_syncVars
    BY <1>2, ExactAlways, PTL DEF SyncSpec
  <1> QED
    BY <1>3 DEF SaveAddsOwn

-----------------------------------------------------------------------------
(* The flusher runs one flush at a time and leaves no requestFlush promise   *)
(* behind (OutcomeFlusher).                                                  *)

USE DEF Armed

Flight == [pc : FlightPC, batch : Seq(Nat), covers : SUBSET Requesters, revision : Nat]

\* The part of TypeOK the argument needs.
Shape ==
  /\ queue \in Seq(Nat)
  /\ enqueued \in Nat
  /\ revision \in Nat
  /\ inFlight \in Flights \cup {None}
  /\ flight \in [Flights -> Flight]
  /\ waiters \subseteq Requesters
  /\ request \in [Requesters -> {"idle", "waiting", "done"}]

\* inFlight names the one run there is.
InFlightIsActive == \A f \in Flights : flight[f].pc # "idle" <=> inFlight = f

\* A timer is never armed while a flush runs: this is why neither the timer's
\* callback nor kick has to look for one.
TimerOnlyWhenIdle == Armed => inFlight = None

FlightInv == Shape /\ InFlightIsActive /\ TimerOnlyWhenIdle /\ WaitersCovered

\* A part of a sequence of rows is one.
LEMMA SubSeqType ==
  ASSUME NEW q \in Seq(Nat), NEW m \in Nat \ {0}, NEW n \in Nat, n <= Len(q)
  PROVE  SubSeq(q, m, n) \in Seq(Nat)
<1>1. \A i \in m..n : q[i] \in Nat
  OBVIOUS
<1> QED
  BY <1>1

\* A run as startFlush makes it.
LEMMA RunType ==
  ASSUME NEW at \in FlightPC, NEW ws \in SUBSET Requesters
  PROVE  Run(at, ws) \in Flight /\ Run(at, ws).pc = at /\ Run(at, ws).covers = ws
  BY DEF Run, Flight

\* Trimming a queue of rows gives a queue of rows.
LEMMA TrimmedType ==
  ASSUME NEW q \in Seq(Nat)
  PROVE  Trimmed(q) \in Seq(Nat)
<1>1. Over(q) \in Nat /\ Over(q) <= Len(q)
  BY FlusherAssumption DEF Over
<1> QED
  BY <1>1, SubSeqType, Len(q) \in Nat, Over(q) + 1 \in Nat \ {0} DEF Trimmed

\* kick never disarms: it leaves the timer alone, or sets it while no timer is
\* armed and nothing runs.
LEMMA KickTimer ==
  ASSUME NEW q, Kick(q)
  PROVE  Armed' # Armed => Armed' /\ inFlight = None
  BY DEF Kick, Schedule

\* The initial state.
LEMMA FlightInit == Init => FlightInv
<1> SUFFICES ASSUME Init PROVE FlightInv
  OBVIOUS
<1>1. Idle \in Flight /\ Idle.pc = "idle"
  BY RunType DEF Idle, FlightPC
<1>2. Shape
  <2>1. flight \in [Flights -> Flight]
    BY <1>1 DEF Init
  <2>2. <<>> \in Seq(Nat)
    OBVIOUS
  <2> QED
    BY <2>1, <2>2 DEF Init, Shape
<1>3. InFlightIsActive /\ TimerOnlyWhenIdle /\ WaitersCovered
  BY <1>1, FlusherAssumption DEF Init, InFlightIsActive, TimerOnlyWhenIdle, WaitersCovered
<1> QED
  BY <1>2, <1>3 DEF FlightInv

\* Steps of a running flush that keep its pc off "idle" and leave timer,
\* inFlight and the promises alone.
LEMMA InsideStep ==
  ASSUME FlightInv, NEW f \in Flights, At(f, "idle") = FALSE, Stays,
         NEW r \in Flight, r.pc # "idle", r.covers = flight[f].covers,
         flight' = [flight EXCEPT ![f] = r],
         queue' \in Seq(Nat), enqueued' \in Nat, revision' \in Nat
  PROVE  FlightInv'
<1> USE DEF FlightInv
<1>1. Shape'
  BY DEF Shape, Stays, promises
<1>2. /\ inFlight' = inFlight /\ timer' = timer
      /\ waiters' = waiters /\ request' = request
  BY DEF Stays, promises
<1>3. \A g \in Flights : /\ flight'[g].pc # "idle" <=> flight[g].pc # "idle"
                         /\ flight'[g].covers = flight[g].covers
  BY DEF Shape, At
<1>4. InFlightIsActive' /\ TimerOnlyWhenIdle'
  BY <1>2, <1>3 DEF InFlightIsActive, TimerOnlyWhenIdle
<1>5. Active' = Active
  BY <1>3 DEF Active
<1>6. Active \subseteq Flights
  BY DEF Active
<1>7. WaitersCovered'
  BY <1>2, <1>3, <1>5, <1>6 DEF WaitersCovered
<1> QED
  BY <1>1, <1>4, <1>7

\* A flush is started while none runs.
LEMMA StartStep ==
  ASSUME FlightInv, NEW f \in Flights, StartFlush(f), inFlight = None,
         timer' = "off", request' = request,
         queue' = queue, enqueued' = enqueued, revision' = revision
  PROVE  FlightInv'
<1> USE DEF FlightInv
<1> DEFINE new == Run("ready", waiters)
<1>1. new \in Flight /\ new.pc = "ready" /\ new.covers = waiters
  BY RunType DEF FlightPC, Shape
<1>2. flight' = [flight EXCEPT ![f] = new] /\ inFlight' = f /\ waiters' = {}
  BY DEF StartFlush
<1> HIDE DEF new
<1>3. Shape'
  BY <1>1, <1>2 DEF Shape
<1>4. /\ flight'[f] = new
      /\ \A g \in Flights : g # f => flight'[g] = flight[g]
  BY <1>2 DEF Shape
<1>5. InFlightIsActive' /\ TimerOnlyWhenIdle'
  BY <1>1, <1>2, <1>4, FlusherAssumption DEF InFlightIsActive, TimerOnlyWhenIdle
<1>6. Active = {} /\ f \in Active'
  BY <1>1, <1>4, FlusherAssumption DEF Active, InFlightIsActive
<1>7. WaitersCovered'
  BY <1>1, <1>2, <1>4, <1>6 DEF WaitersCovered
<1> QED
  BY <1>3, <1>5, <1>7

\* The timer, and nothing else the invariant depends on, changes as kick does.
LEMMA KickStep ==
  ASSUME FlightInv, NEW q, Kick(q), UNCHANGED <<inFlight, flight, waiters, request>>,
         queue' \in Seq(Nat), enqueued' \in Nat, revision' \in Nat
  PROVE  FlightInv'
<1> USE DEF FlightInv
<1>1. Armed' # Armed => Armed' /\ inFlight = None
  BY KickTimer DEF Shape
<1>2. Shape'
  BY <1>1 DEF Shape
<1>3. InFlightIsActive' /\ TimerOnlyWhenIdle'
  BY <1>1 DEF InFlightIsActive, TimerOnlyWhenIdle, Shape
<1>4. WaitersCovered'
  BY <1>1 DEF WaitersCovered, Active, Shape
<1> QED
  BY <1>2, <1>3, <1>4

\* Every step preserves the invariant.
LEMMA FlightStep == FlightInv /\ [Next]_vars => FlightInv'
<1> SUFFICES ASSUME FlightInv, [Next]_vars PROVE FlightInv'
  OBVIOUS
<1> USE DEF FlightInv
<1>1. CASE UNCHANGED vars
  BY <1>1 DEF vars, rows, snapshot, promises, running, Shape, InFlightIsActive,
     TimerOnlyWhenIdle, WaitersCovered, Active
<1>2. CASE StoreChanges \/ Load
  <2>1. revision' \in Nat
    BY <1>2 DEF StoreChanges, Load, Shape
  <2>2. UNCHANGED <<queue, enqueued, timer, inFlight, flight, waiters, request>>
    BY <1>2 DEF StoreChanges, Load, rows, running, promises
  <2> QED
    BY <2>1, <2>2 DEF Shape, InFlightIsActive, TimerOnlyWhenIdle, WaitersCovered, Active
<1>3. CASE Enqueue
  <2>1. Append(queue, enqueued') \in Seq(Nat) /\ enqueued' \in Nat
    BY <1>3 DEF Enqueue, Shape
  <2>2. queue' \in Seq(Nat)
    BY <1>3, <2>1, TrimmedType DEF Enqueue, TrimQueue
  <2>3. Kick(queue') /\ UNCHANGED <<inFlight, flight, waiters, request>> /\ revision' = revision
    BY <1>3 DEF Enqueue, promises, snapshot
  <2> QED
    BY <2>1, <2>2, <2>3, KickStep DEF Shape
<1>4. CASE TimerFires
  <2>1. PICK f \in Flights : StartFlush(f)
    BY <1>4 DEF TimerFires
  <2>2. inFlight = None
    BY <1>4 DEF TimerFires, TimerOnlyWhenIdle
  <2> QED
    BY <1>4, <2>1, <2>2, StartStep DEF TimerFires, rows, snapshot
<1>5. CASE FinishDispose
  <2>1. /\ timer' = "off" /\ waiters' = {} /\ Release(waiters)
        /\ UNCHANGED <<queue, enqueued, revision, inFlight, flight>>
    BY <1>5 DEF FinishDispose, rows, snapshot
  <2>2. Shape'
    BY <2>1 DEF Shape, Release
  <2>3. InFlightIsActive' /\ TimerOnlyWhenIdle'
    BY <2>1 DEF InFlightIsActive, TimerOnlyWhenIdle
  <2>4. Active' = Active
    BY <2>1 DEF Active
  <2>5. WaitersCovered'
    BY <2>1, <2>4 DEF WaitersCovered, Release
  <2> QED
    BY <2>2, <2>3, <2>5
<1>6. ASSUME NEW r \in Requesters, RequestFlush(r) PROVE FlightInv'
  <2>1. Kick(queue) /\ UNCHANGED <<queue, enqueued, revision, inFlight, flight>>
    BY <1>6 DEF RequestFlush, rows, snapshot
  <2>2. Armed' # Armed => Armed' /\ inFlight = None
    BY <2>1, KickTimer DEF Shape
  <2>3. \/ request' = [request EXCEPT ![r] = "done"] /\ waiters' = waiters
        \/ /\ request' = [request EXCEPT ![r] = "waiting"]
           /\ waiters' = waiters \cup {r}
           /\ Armed' \/ inFlight # None
    BY <1>6 DEF RequestFlush
  <2>4. Shape'
    BY <2>1, <2>2, <2>3 DEF Shape
  <2>5. InFlightIsActive' /\ TimerOnlyWhenIdle'
    BY <2>1, <2>2 DEF InFlightIsActive, TimerOnlyWhenIdle, Shape
  <2>6. Active' = Active
    BY <2>1 DEF Active
  <2>7. \A x \in Requesters : x # r => request'[x] = request[x]
    BY <2>3 DEF Shape
  <2>8. request'[r] = "waiting" => r \in waiters' /\ (Armed' \/ inFlight # None)
    BY <2>3 DEF Shape
  <2>9. waiters \subseteq waiters'
    BY <2>3
  <2>10. WaitersCovered'
    BY <2>1, <2>2, <2>6, <2>7, <2>8, <2>9 DEF WaitersCovered
  <2> QED
    BY <2>4, <2>5, <2>10
<1>7. ASSUME NEW c \in AllCallers, FlushNow(c) PROVE FlightInv'
  <2>1. FlushNowLoop(c) /\ UNCHANGED <<queue, enqueued, revision, request>>
    BY <1>7 DEF FlushNow, rows, snapshot
  <2>2. CASE inFlight # None
    BY <2>1, <2>2 DEF FlushNowLoop, running, Shape, InFlightIsActive,
       TimerOnlyWhenIdle, WaitersCovered, Active
  <2>3. CASE inFlight = None
    <3>1. timer' = "off" /\ \E f \in Flights : StartFlush(f)
      BY <2>1, <2>3 DEF FlushNowLoop
    <3> QED
      BY <2>1, <2>3, <3>1, StartStep
  <2> QED
    BY <2>2, <2>3
<1>8. ASSUME NEW f \in Flights, EndFlush(f) PROVE FlightInv'
  <2>1. /\ At(f, "end") /\ flight' = [flight EXCEPT ![f] = Idle]
        /\ inFlight' = IF inFlight = f THEN None ELSE inFlight
        /\ ReleaseAfter(f)
        /\ UNCHANGED <<queue, enqueued, revision>>
    BY <1>8 DEF EndFlush, rows, snapshot
  <2>2. inFlight = f /\ inFlight' = None /\ Active = {f} /\ ~Armed
    BY <2>1, FlusherAssumption DEF At, InFlightIsActive, Active, TimerOnlyWhenIdle, Shape
  <2>3. Armed' \in BOOLEAN
    BY <1>8 DEF EndFlush, Schedule, Shape
  <2>4. /\ request' \in [Requesters -> {"idle", "waiting", "done"}]
        /\ waiters' \subseteq Requesters
        /\ \A r \in Requesters : request'[r] = "waiting" =>
             request[r] = "waiting" /\ r \notin flight[f].covers /\ (Armed' \/ r \notin waiters)
        /\ Armed' => waiters' = waiters
    BY <2>1 DEF ReleaseAfter, Release, Shape
  <2>5. Idle \in Flight /\ Idle.pc = "idle"
    BY RunType DEF Idle, FlightPC
  <2>6. Shape'
    BY <2>1, <2>2, <2>3, <2>4, <2>5 DEF Shape
  <2>7. InFlightIsActive' /\ TimerOnlyWhenIdle'
    BY <2>1, <2>2, <2>5, FlusherAssumption DEF InFlightIsActive, TimerOnlyWhenIdle, Shape
  <2>8. WaitersCovered'
    BY <2>2, <2>4 DEF WaitersCovered
  <2> QED
    BY <2>6, <2>7, <2>8
<1>9. ASSUME NEW f \in Flights,
             BeginFlush(f) \/ GetLock(f) \/ LockBusy(f) \/ AbsorbSkips(f) \/ Save(f)
               \/ SaveFails(f) \/ NoMoreRows(f)
      PROVE  FlightInv'
  <2>1. /\ Stays /\ flight[f].pc # "idle"
        /\ UNCHANGED <<queue, enqueued, revision>>
    BY <1>9 DEF BeginFlush, GetLock, LockBusy, AbsorbSkips, Save, SaveFails, NoMoreRows,
       At, rows, snapshot
  <2>2. PICK at \in FlightPC \ {"idle"} : Goto(f, at)
    BY <1>9 DEF BeginFlush, GetLock, LockBusy, AbsorbSkips, Save, SaveFails, NoMoreRows,
       FlightPC
  <2>3. PICK r \in Flight : r = [flight[f] EXCEPT !.pc = at]
    BY DEF Shape, Flight
  <2>4. r.pc # "idle" /\ r.covers = flight[f].covers
    BY <2>3 DEF Shape, Flight
  <2>5. flight' = [flight EXCEPT ![f] = r]
    BY <2>2, <2>3 DEF Goto
  <2> QED
    BY <2>1, <2>4, <2>5, InsideStep DEF At, Shape
<1>10. ASSUME NEW f \in Flights, Absorb(f) PROVE FlightInv'
  <2>1. Stays /\ flight[f].pc # "idle" /\ UNCHANGED <<queue, enqueued>> /\ revision' \in Nat
    BY <1>10 DEF Absorb, At, rows, Shape
  <2>2. PICK r \in Flight : r = [flight[f] EXCEPT !.pc = "save", !.revision = revision']
    BY <2>1 DEF Shape, Flight, FlightPC
  <2>3. r.pc # "idle" /\ r.covers = flight[f].covers
    BY <2>2 DEF Shape, Flight
  <2>4. flight' = [flight EXCEPT ![f] = r]
    BY <1>10, <2>2 DEF Absorb
  <2> QED
    BY <2>1, <2>3, <2>4, InsideStep DEF At, Shape
<1>11. ASSUME NEW f \in Flights, TakeBatch(f) PROVE FlightInv'
  <2>1. Stays /\ flight[f].pc # "idle" /\ UNCHANGED <<enqueued, revision>>
    BY <1>11 DEF TakeBatch, At, snapshot
  <2> DEFINE n == BatchSize
  <2>2. /\ flight' = [flight EXCEPT ![f].pc = "append", ![f].batch = SubSeq(queue, 1, n)]
        /\ queue' = SubSeq(queue, n + 1, Len(queue))
    BY <1>11 DEF TakeBatch
  <2> n \in Nat /\ n <= Len(queue) /\ Len(queue) \in Nat
    BY FlusherAssumption DEF Shape, BatchSize
  <2> HIDE DEF n
  <2>a. SubSeq(queue, 1, n) \in Seq(Nat) /\ SubSeq(queue, n + 1, Len(queue)) \in Seq(Nat)
    BY SubSeqType DEF Shape
  <2>3. PICK b \in Seq(Nat) : b = SubSeq(queue, 1, n)
    BY <2>a, Zenon
  <2>4. queue' \in Seq(Nat)
    BY <2>2, <2>a
  <2>5. PICK r \in Flight : r = [flight[f] EXCEPT !.pc = "append", !.batch = b]
    BY DEF Shape, Flight, FlightPC
  <2>6. r.pc # "idle" /\ r.covers = flight[f].covers
    BY <2>5 DEF Shape, Flight
  <2>7. flight' = [flight EXCEPT ![f] = r]
    BY <2>2, <2>3, <2>5
  <2> QED
    BY <2>1, <2>4, <2>6, <2>7, InsideStep DEF At, Shape
<1>12. ASSUME NEW f \in Flights, AppendRows(f) \/ AppendFails(f) PROVE FlightInv'
  <2>1. Stays /\ flight[f].pc # "idle" /\ UNCHANGED <<enqueued, revision>>
    BY <1>12 DEF AppendRows, AppendFails, At, snapshot
  <2>2. flight[f].batch \o queue \in Seq(Nat)
    BY DEF Shape, Flight
  <2>3. queue' \in Seq(Nat)
    BY <1>12, <2>2, TrimmedType DEF AppendRows, AppendFails, TrimQueue, Shape
  <2>4. PICK at \in FlightPC \ {"idle"} :
          flight' = [flight EXCEPT ![f].pc = at, ![f].batch = <<>>]
    BY <1>12 DEF AppendRows, AppendFails, FlightPC
  <2>a. <<>> \in Seq(Nat)
    OBVIOUS
  <2>5. PICK b \in Seq(Nat) : b = <<>>
    BY <2>a, Zenon
  <2>6. PICK r \in Flight : r = [flight[f] EXCEPT !.pc = at, !.batch = b]
    BY DEF Shape, Flight, FlightPC
  <2>7. r.pc # "idle" /\ r.covers = flight[f].covers
    BY <2>6 DEF Shape, Flight
  <2>8. flight' = [flight EXCEPT ![f] = r]
    BY <2>4, <2>5, <2>6
  <2> QED
    BY <2>1, <2>3, <2>7, <2>8, InsideStep DEF At, Shape
<1> QED
  BY <1>1, <1>2, <1>3, <1>4, <1>5, <1>6, <1>7, <1>8, <1>9, <1>10, <1>11, <1>12
     DEF Next, FlushSteps, FlushFailures

\* The invariant holds throughout.
LEMMA FlightAlways == Spec => []FlightInv
  BY FlightInit, FlightStep, PTL DEF Spec

\* At most one flush of a process runs at a time, for any number of flushNow
\* callers and whatever fails.
THEOREM FlushesSerialized == Spec => []OneFlush
<1>1. FlightInv => OneFlush
  BY DEF FlightInv, InFlightIsActive, OneFlush, Active
<1> QED
  BY <1>1, FlightAlways, PTL

\* No requestFlush promise is left without a run or a timer that ends it.
THEOREM NoRequestForgotten == Spec => []WaitersCovered
<1>1. FlightInv => WaitersCovered
  BY DEF FlightInv
<1> QED
  BY <1>1, FlightAlways, PTL
-----------------------------------------------------------------------------
(* The rows of the decision log keep their order and none is lost           *)
(* (OutcomeFlusher).                                                        *)

Unwritten == InHand \cup Range(queue)
Rising(q) == \A k, j \in DOMAIN q : k < j => q[k] < q[j]

\* A row x that comes after place k of the log, though it is not above what stands there, was
\* written before by an append that failed half-way.
Repeated(x, k) == x <= log[k] => mishaps > 0 /\ \E n \in 1..k : log[n] = x

RowsShape ==
  /\ log \in Seq(Nat) /\ mishaps \in Nat
  /\ \A f \in Flights : flight[f].batch # <<>> => flight[f].pc = "append"
  /\ Range(log) \cup Unwritten \subseteq 1..enqueued

\* What is not written yet rises, the batch in hand before the queue.
UnwrittenRises ==
  /\ Rising(queue)
  /\ \A f \in Flights : Rising(flight[f].batch)
  /\ \A x \in InHand, y \in Range(queue) : x < y

LogInOrder ==
  /\ \A k, j \in DOMAIN log : k < j => Repeated(log[j], k)
  /\ \A k \in DOMAIN log, x \in Unwritten : Repeated(x, k)

RowsInv == FlightInv /\ RowsShape /\ UnwrittenRises /\ LogInOrder /\ NoRowLost

\* Who waits has asked, and what was asked for is not ahead of the flusher.
AskedInv ==
  /\ saved = written /\ saved \in Nat /\ saved <= revision
  /\ asked \in [Requesters -> [rows : SUBSET Nat, revision : Nat]]
  /\ \A r \in Requesters : asked[r].revision <= revision /\ asked[r].rows \subseteq 1..enqueued
  /\ \A r \in waiters : request[r] # "idle"
  /\ \A f \in Flights : \A r \in flight[f].covers : request[r] # "idle"
  /\ \A f \in Flights : flight[f].pc = "save" => saved <= flight[f].revision /\ flight[f].revision <= revision
  /\ snapshotBlocked => mishaps > 0

\* As long as nothing failed a run has saved what its waiters asked for before it writes rows,
\* and has written their rows when it ends.
RunServes(f, r) ==
  /\ flight[f].pc = "save" => asked[r].revision <= flight[f].revision
  /\ flight[f].pc \in {"rows", "append", "end"} => asked[r].revision <= saved
  /\ flight[f].pc = "end" => asked[r].rows \subseteq Range(log) \cup dropped
RunsServe == mishaps = 0 => \A f \in Flights : \A r \in flight[f].covers : RunServes(f, r)

HonourInv == RowsInv /\ AskedInv /\ RunsServe /\ RequestHonoured
-----------------------------------------------------------------------------
(* Lemmas about sequences of rows. *)

\* The two parts of a sequence.
LEMMA PartsOf ==
  ASSUME NEW q \in Seq(Nat), NEW k \in 0..Len(q)
  PROVE  /\ SubSeq(q, 1, k) \in Seq(Nat) /\ Len(SubSeq(q, 1, k)) = k
         /\ \A n \in 1..k : SubSeq(q, 1, k)[n] = q[n]
         /\ SubSeq(q, k + 1, Len(q)) \in Seq(Nat) /\ Len(SubSeq(q, k + 1, Len(q))) = Len(q) - k
         /\ \A n \in 1..(Len(q) - k) : SubSeq(q, k + 1, Len(q))[n] = q[k + n]
<1>1. Len(q) \in Nat /\ \A n \in 1..Len(q) : q[n] \in Nat
  BY LenProperties, ElementOfSeq
<1>2. /\ SubSeq(q, 1, k) \in Seq(Nat)
      /\ Len(SubSeq(q, 1, k)) = IF 1 <= k THEN k - 1 + 1 ELSE 0
      /\ \A n \in 1..(k - 1 + 1) : SubSeq(q, 1, k)[n] = q[1 + n - 1]
  <2>1. \A n \in 1..k : q[n] \in Nat
    BY <1>1
  <2> QED BY <2>1, SubSeqProperties
<1>3. /\ SubSeq(q, k + 1, Len(q)) \in Seq(Nat)
      /\ Len(SubSeq(q, k + 1, Len(q))) = IF k + 1 <= Len(q) THEN Len(q) - (k + 1) + 1 ELSE 0
      /\ \A n \in 1..(Len(q) - (k + 1) + 1) : SubSeq(q, k + 1, Len(q))[n] = q[(k + 1) + n - 1]
  <2>1. \A n \in (k + 1)..Len(q) : q[n] \in Nat
    BY <1>1
  <2>2. k + 1 \in Int /\ Len(q) \in Int
    BY <1>1
  <2> QED BY <2>1, <2>2, SubSeqProperties
<1>4. Len(SubSeq(q, 1, k)) = k /\ Len(SubSeq(q, k + 1, Len(q))) = Len(q) - k
  BY <1>1, <1>2, <1>3
<1>5. \A n \in 1..k : SubSeq(q, 1, k)[n] = q[n]
  <2> TAKE n \in 1..k
  <2>1. n \in 1..(k - 1 + 1) /\ 1 + n - 1 = n
    OBVIOUS
  <2> QED BY <1>2, <2>1
<1>6. \A n \in 1..(Len(q) - k) : SubSeq(q, k + 1, Len(q))[n] = q[k + n]
  <2> TAKE n \in 1..(Len(q) - k)
  <2>1. n \in 1..(Len(q) - (k + 1) + 1) /\ (k + 1) + n - 1 = k + n
    BY <1>1
  <2> QED BY <1>3, <2>1
<1> QED BY <1>2, <1>3, <1>4, <1>5, <1>6

\* The elements of a sequence of rows.
LEMMA RangeIs ==
  ASSUME NEW q \in Seq(Nat)
  PROVE  /\ Len(q) \in Nat /\ DOMAIN q = 1..Len(q) /\ Range(q) \subseteq Nat
         /\ \A x : x \in Range(q) <=> \E n \in 1..Len(q) : x = q[n]
<1>1. Len(q) \in Nat /\ DOMAIN q = 1..Len(q)
  BY LenProperties
<1>2. Range(q) \in SUBSET Nat
  BY RangeOfSeq
<1> QED BY <1>1, <1>2 DEF Range

\* What the parts of a rising sequence hold, and their order.
LEMMA PartsRise ==
  ASSUME NEW q \in Seq(Nat), NEW k \in 0..Len(q)
  PROVE  /\ Range(q) = Range(SubSeq(q, 1, k)) \cup Range(SubSeq(q, k + 1, Len(q)))
         /\ Rising(q) => /\ Rising(SubSeq(q, 1, k)) /\ Rising(SubSeq(q, k + 1, Len(q)))
                         /\ \A x \in Range(SubSeq(q, 1, k)), y \in Range(SubSeq(q, k + 1, Len(q))) : x < y
<1> DEFINE a == SubSeq(q, 1, k)
           b == SubSeq(q, k + 1, Len(q))
<1>1. /\ a \in Seq(Nat) /\ Len(a) = k /\ \A n \in 1..k : a[n] = q[n]
      /\ b \in Seq(Nat) /\ Len(b) = Len(q) - k /\ \A n \in 1..(Len(q) - k) : b[n] = q[k + n]
  BY PartsOf
<1> HIDE DEF a, b
<1>2. /\ Len(q) \in Nat /\ DOMAIN q = 1..Len(q) /\ DOMAIN a = 1..k /\ DOMAIN b = 1..(Len(q) - k)
      /\ \A x : x \in Range(q) <=> \E n \in 1..Len(q) : x = q[n]
      /\ \A x : x \in Range(a) <=> \E n \in 1..k : x = a[n]
      /\ \A x : x \in Range(b) <=> \E n \in 1..(Len(q) - k) : x = b[n]
  <2>1. /\ Len(q) \in Nat /\ DOMAIN q = 1..Len(q)
        /\ \A x : x \in Range(q) <=> \E n \in 1..Len(q) : x = q[n]
    BY RangeIs
  <2>2. /\ DOMAIN a = 1..Len(a)
        /\ \A x : x \in Range(a) <=> \E n \in 1..Len(a) : x = a[n]
    BY <1>1, RangeIs
  <2>3. /\ DOMAIN b = 1..Len(b)
        /\ \A x : x \in Range(b) <=> \E n \in 1..Len(b) : x = b[n]
    BY <1>1, RangeIs
  <2> QED BY <1>1, <2>1, <2>2, <2>3
<1>3. ASSUME NEW x PROVE x \in Range(q) <=> x \in Range(a) \/ x \in Range(b)
  <2>1. ASSUME NEW n \in 1..Len(q) PROVE q[n] \in Range(a) \/ q[n] \in Range(b)
    <3>1. CASE n <= k
      <4>1. n \in 1..k /\ q[n] = a[n]
        BY <1>1, <1>2, <3>1
      <4> QED BY <1>2, <4>1
    <3>2. CASE n > k
      <4>1. n - k \in 1..(Len(q) - k) /\ k + (n - k) = n
        BY <1>2, <3>2
      <4>2. b[n - k] = q[n]
        BY <1>1, <4>1
      <4> QED BY <1>2, <4>1, <4>2
    <3> QED BY <1>2, <3>1, <3>2
  <2>2. ASSUME NEW n \in 1..k PROVE a[n] \in Range(q)
    <3>1. n \in 1..Len(q) /\ a[n] = q[n]
      BY <1>1, <1>2
    <3> QED BY <1>2, <3>1
  <2>3. ASSUME NEW n \in 1..(Len(q) - k) PROVE b[n] \in Range(q)
    <3>1. k + n \in 1..Len(q) /\ b[n] = q[k + n]
      BY <1>1, <1>2
    <3> QED BY <1>2, <3>1
  <2> QED BY <1>2, <2>1, <2>2, <2>3
<1>4. ASSUME Rising(q)
      PROVE  Rising(a) /\ Rising(b) /\ \A x \in Range(a), y \in Range(b) : x < y
  <2>1. \A n, m \in 1..Len(q) : n < m => q[n] < q[m]
    BY <1>2, <1>4 DEF Rising
  <2>2. Rising(a)
    <3> SUFFICES ASSUME NEW n \in 1..k, NEW m \in 1..k, n < m PROVE a[n] < a[m]
      BY <1>2 DEF Rising
    <3>1. n \in 1..Len(q) /\ m \in 1..Len(q) /\ a[n] = q[n] /\ a[m] = q[m]
      BY <1>1, <1>2
    <3> QED BY <2>1, <3>1
  <2>3. Rising(b)
    <3> SUFFICES ASSUME NEW n \in 1..(Len(q) - k), NEW m \in 1..(Len(q) - k), n < m PROVE b[n] < b[m]
      BY <1>2 DEF Rising
    <3>1. k + n \in 1..Len(q) /\ k + m \in 1..Len(q) /\ k + n < k + m /\ b[n] = q[k + n] /\ b[m] = q[k + m]
      BY <1>1, <1>2
    <3> QED BY <2>1, <3>1
  <2>4. ASSUME NEW x \in Range(a), NEW y \in Range(b) PROVE x < y
    <3>1. PICK n \in 1..k : x = q[n]
      BY <1>1, <1>2
    <3>a. PICK m \in 1..(Len(q) - k) : y = b[m]
      BY <1>2
    <3>2. y = q[k + m]
      BY <1>1, <3>a
    <3>3. n \in 1..Len(q) /\ k + m \in 1..Len(q) /\ n < k + m
      BY <1>2, <3>a
    <3> QED BY <2>1, <3>1, <3>2, <3>3
  <2> QED BY <2>2, <2>3, <2>4
<1> QED BY <1>3, <1>4 DEF a, b

\* One rising sequence after another.
LEMMA ConcatRises ==
  ASSUME NEW s \in Seq(Nat), NEW t \in Seq(Nat)
  PROVE  /\ s \o t \in Seq(Nat) /\ Range(s \o t) = Range(s) \cup Range(t)
         /\ Rising(s) /\ Rising(t) /\ (\A x \in Range(s), y \in Range(t) : x < y) => Rising(s \o t)
<1> DEFINE u == s \o t
<1>1. /\ u \in Seq(Nat) /\ Len(u) = Len(s) + Len(t) /\ Range(u) = Range(s) \cup Range(t)
      /\ \A n \in 1..(Len(s) + Len(t)) : u[n] = IF n <= Len(s) THEN s[n] ELSE t[n - Len(s)]
  BY ConcatProperties, RangeConcatenation
<1> HIDE DEF u
<1>2. /\ Len(s) \in Nat /\ Len(t) \in Nat /\ DOMAIN s = 1..Len(s) /\ DOMAIN t = 1..Len(t) /\ DOMAIN u = 1..Len(u)
      /\ \A n \in 1..Len(s) : s[n] \in Range(s)
      /\ \A n \in 1..Len(t) : t[n] \in Range(t)
  BY <1>1, RangeIs
<1>3. ASSUME Rising(s), Rising(t), \A x \in Range(s), y \in Range(t) : x < y
      PROVE  Rising(u)
  <2> SUFFICES ASSUME NEW n \in 1..Len(u), NEW m \in 1..Len(u), n < m PROVE u[n] < u[m]
    BY <1>2 DEF Rising
  <2>1. CASE m <= Len(s)
    <3>1. u[n] = s[n] /\ u[m] = s[m] /\ n \in 1..Len(s) /\ m \in 1..Len(s)
      BY <1>1, <1>2, <2>1
    <3> QED BY <1>2, <1>3, <3>1 DEF Rising
  <2>2. CASE n > Len(s)
    <3>1. u[n] = t[n - Len(s)] /\ u[m] = t[m - Len(s)] /\ n - Len(s) \in 1..Len(t) /\ m - Len(s) \in 1..Len(t)
          /\ n - Len(s) < m - Len(s)
      BY <1>1, <1>2, <2>2
    <3> QED BY <1>2, <1>3, <3>1 DEF Rising
  <2>3. CASE n <= Len(s) /\ m > Len(s)
    <3>1. u[n] = s[n] /\ u[m] = t[m - Len(s)] /\ n \in 1..Len(s) /\ m - Len(s) \in 1..Len(t)
      BY <1>1, <1>2, <2>3
    <3> QED BY <1>2, <1>3, <3>1
  <2> QED BY <1>1, <1>2, <2>1, <2>2, <2>3
<1> QED BY <1>1, <1>3 DEF u
-----------------------------------------------------------------------------
(* How the steps keep the order of the rows. *)

\* Trimming a rising queue.
LEMMA TrimKeeps ==
  ASSUME NEW q \in Seq(Nat), Rising(q), TrimQueue(q)
  PROVE  /\ queue' \in Seq(Nat) /\ Rising(queue') /\ Range(queue') \subseteq Range(q)
         /\ Range(q) \subseteq Range(queue') \cup dropped' /\ dropped \subseteq dropped'
<1> DEFINE k == Over(q)
<1>1. k \in 0..Len(q)
  BY FlusherAssumption, LenProperties DEF Over
<1>2. queue' = SubSeq(q, k + 1, Len(q)) /\ dropped' = dropped \cup Range(SubSeq(q, 1, k))
  BY DEF TrimQueue, Trimmed
<1> HIDE DEF k
<1>3. SubSeq(q, k + 1, Len(q)) \in Seq(Nat)
  BY <1>1, PartsOf
<1>4. /\ Range(q) = Range(SubSeq(q, 1, k)) \cup Range(SubSeq(q, k + 1, Len(q)))
      /\ Rising(SubSeq(q, k + 1, Len(q)))
  BY <1>1, PartsRise
<1> QED BY <1>2, <1>3, <1>4

\* A flight that goes to another place of its run.
LEMMA GotoFields ==
  ASSUME Shape, NEW f \in Flights, NEW at \in FlightPC, Goto(f, at)
  PROVE  /\ flight'[f].pc = at
         /\ \A g \in Flights : /\ g # f => flight'[g].pc = flight[g].pc
                               /\ flight'[g].batch = flight[g].batch
                               /\ flight'[g].covers = flight[g].covers
                               /\ flight'[g].revision = flight[g].revision
BY DEF Shape, Flight, Goto

\* Only the run in flight has rows in hand.
LEMMA HandIs ==
  ASSUME NEW fs, NEW f \in Flights, \A g \in Flights : g # f => fs[g].batch = <<>>
  PROVE  UNION {Range(fs[g].batch) : g \in Flights} = Range(fs[f].batch)
<1>1. Range(<<>>) = {}
  BY DEF Range
<1> QED BY <1>1

\* Steps that leave the rows where they are.
LEMMA RowsStay ==
  ASSUME RowsInv, FlightInv', UNCHANGED rows, mishaps' \in Nat, mishaps' >= mishaps,
         \A f \in Flights : /\ flight'[f].batch = flight[f].batch
                            /\ flight'[f].batch # <<>> => flight'[f].pc = "append"
  PROVE  RowsInv'
<1>1. UNCHANGED <<queue, log, enqueued, dropped>>
  BY DEF rows
<1>2. InHand' = InHand /\ Unwritten' = Unwritten
  BY <1>1 DEF InHand, Unwritten
<1>3. RowsShape'
  BY <1>1, <1>2 DEF RowsInv, RowsShape
<1>4. UnwrittenRises'
  BY <1>1, <1>2 DEF RowsInv, UnwrittenRises, Rising
<1>5. mishaps > 0 => mishaps' > 0
  BY DEF RowsInv, RowsShape
<1>6. LogInOrder'
  BY <1>1, <1>2, <1>5 DEF RowsInv, LogInOrder, Repeated
<1>7. NoRowLost'
  BY <1>1, <1>2 DEF RowsInv, NoRowLost
<1> QED BY <1>3, <1>4, <1>6, <1>7 DEF RowsInv

\* Two sequences of rows, one after the other.
LEMMA Joined ==
  ASSUME NEW p \in Seq(Nat), NEW s \in Seq(Nat)
  PROVE  /\ Len(p) \in Nat /\ Len(s) \in Nat /\ DOMAIN p = 1..Len(p) /\ DOMAIN s = 1..Len(s)
         /\ \A k \in 1..Len(s) : s[k] \in Range(s)
         /\ DOMAIN (p \o s) = 1..(Len(p) + Len(s))
         /\ \A k \in 1..Len(p) : (p \o s)[k] = p[k]
         /\ \A k \in 1..Len(s) : (p \o s)[Len(p) + k] = s[k]
         /\ \A k \in DOMAIN (p \o s) : k \in 1..Len(p) \/ \E n \in 1..Len(s) : k = Len(p) + n
<1>0. PICK l, all : l = Len(p) /\ all = p \o s
  OBVIOUS
<1>1. /\ l \in Nat /\ Len(s) \in Nat /\ DOMAIN p = 1..l /\ DOMAIN s = 1..Len(s)
      /\ \A k \in 1..Len(s) : s[k] \in Range(s)
  BY <1>0, RangeIs
<1>2. /\ DOMAIN all = 1..(l + Len(s))
      /\ \A k \in 1..(l + Len(s)) : all[k] = IF k <= l THEN p[k] ELSE s[k - l]
  BY <1>0, ConcatProperties, LenProperties
<1>3. \A k \in 1..l : all[k] = p[k]
  BY <1>1, <1>2
<1>4. \A k \in 1..Len(s) : all[l + k] = s[k]
  <2> TAKE k \in 1..Len(s)
  <2>1. l + k \in 1..(l + Len(s)) /\ ~(l + k <= l) /\ (l + k) - l = k
    BY <1>1
  <2> QED BY <1>2, <2>1
<1>5. \A k \in DOMAIN all : k \in 1..l \/ \E n \in 1..Len(s) : k = l + n
  <2> TAKE k \in DOMAIN all
  <2>1. CASE k <= l
    BY <1>1, <1>2, <2>1
  <2>2. CASE k > l
    <3>1. k - l \in 1..Len(s) /\ k = l + (k - l)
      BY <1>1, <1>2, <2>2
    <3> QED BY <3>1
  <2> QED BY <1>1, <1>2, <2>1, <2>2
<1> QED BY <1>0, <1>1, <1>2, <1>3, <1>4, <1>5

\* What repeats a row of the log repeats it in what follows the log as well.
LEMMA RepeatedIn ==
  ASSUME log \in Seq(Nat), NEW s \in Seq(Nat),
         NEW k \in 1..Len(log), NEW x, Repeated(x, k), x <= (log \o s)[k]
  PROVE  mishaps > 0 /\ \E n \in 1..k : (log \o s)[n] = x
<1>1. Len(log) \in Nat /\ \A n \in 1..Len(log) : (log \o s)[n] = log[n]
  BY Joined
<1>2. mishaps > 0 /\ \E n \in 1..k : log[n] = x
  BY <1>1 DEF Repeated
<1>3. PICK n \in 1..k : log[n] = x
  BY <1>2
<1>4. n \in 1..Len(log)
  BY <1>1
<1>5. (log \o s)[n] = x
  BY <1>1, <1>3, <1>4
<1> QED BY <1>2, <1>5

\* The log followed by unwritten rows that rise is in order.
LEMMA InOrder ==
  ASSUME RowsInv, NEW s \in Seq(Nat), Rising(s), Range(s) \subseteq Unwritten, NEW all, all = log \o s,
         NEW k \in DOMAIN all, NEW j \in DOMAIN all, k < j, all[j] <= all[k]
  PROVE  mishaps > 0 /\ \E n \in 1..k : all[n] = all[j]
<1>0. PICK l : l = Len(log)
  OBVIOUS
<1>1. log \in Seq(Nat) /\ LogInOrder
  BY DEF RowsInv, RowsShape
<1>2. /\ l \in Nat /\ Len(s) \in Nat /\ DOMAIN log = 1..l /\ DOMAIN s = 1..Len(s)
      /\ \A n \in 1..Len(s) : s[n] \in Range(s)
      /\ DOMAIN all = 1..(l + Len(s))
      /\ \A n \in 1..l : all[n] = log[n]
      /\ \A n \in 1..Len(s) : all[l + n] = s[n]
      /\ \A n \in DOMAIN all : n \in 1..l \/ \E m \in 1..Len(s) : n = l + m
  <2>1. DOMAIN (log \o s) = 1..(Len(log) + Len(s))
    BY <1>1, Joined
  <2> QED BY <1>0, <1>1, <2>1, Joined
<1>3. ASSUME NEW n \in 1..l, NEW x, Repeated(x, n), x <= all[n]
      PROVE  mishaps > 0 /\ \E m \in 1..n : all[m] = x
  <2>1. n \in 1..Len(log) /\ x <= (log \o s)[n]
    BY <1>0, <1>3
  <2>2. mishaps > 0 /\ \E m \in 1..n : (log \o s)[m] = x
    BY <1>1, <1>3, <2>1, RepeatedIn
  <2> QED BY <1>0, <2>2
<1>4. CASE j \in 1..l
  <2>1. k \in 1..l
    BY <1>2, <1>4
  <2>2. Repeated(log[j], k)
    BY <1>1, <1>2, <1>4, <2>1 DEF LogInOrder
  <2>3. all[j] = log[j]
    BY <1>2, <1>4
  <2> QED BY <1>3, <2>1, <2>2, <2>3
<1>5. ASSUME NEW m \in 1..Len(s), j = l + m PROVE mishaps > 0 /\ \E n \in 1..k : all[n] = all[j]
  <2>1. all[j] = s[m] /\ s[m] \in Unwritten
    BY <1>2, <1>5
  <2>2. CASE k \in 1..l
    <3>1. Repeated(s[m], k)
      BY <1>1, <1>2, <2>1, <2>2 DEF LogInOrder
    <3> QED BY <1>3, <2>1, <2>2, <3>1
  <2>3. ASSUME NEW n \in 1..Len(s), k = l + n PROVE FALSE
    <3>1. all[k] = s[n] /\ n < m
      BY <1>2, <1>5, <2>3
    <3>2. s[n] < s[m] /\ s[n] \in Nat /\ s[m] \in Nat
      BY <1>2, <3>1, RangeIs DEF Rising
    <3> QED BY <2>1, <3>1, <3>2
  <2> QED BY <1>2, <2>2, <2>3
<1> QED BY <1>2, <1>4, <1>5

\* The log grows by the rising rows s, and what stays unwritten repeats none of them but those
\* an append that failed had written.
LEMMA LogExtends ==
  ASSUME RowsInv, NEW s \in Seq(Nat), Rising(s), Range(s) \subseteq Unwritten, log' = log \o s,
         mishaps' \in Nat, mishaps' >= mishaps, NEW U, Unwritten' = U, U \subseteq Unwritten,
         \A k \in 1..Len(s), x \in U : x <= s[k] => mishaps' > 0 /\ \E n \in 1..k : s[n] = x
  PROVE  LogInOrder'
<1>0. PICK l, all : l = Len(log) /\ all = log \o s
  OBVIOUS
<1>1. log \in Seq(Nat) /\ LogInOrder /\ mishaps \in Nat
  BY DEF RowsInv, RowsShape
<1>2. mishaps > 0 => mishaps' > 0
  BY <1>1
<1>3. /\ l \in Nat /\ Len(s) \in Nat /\ DOMAIN log = 1..l
      /\ \A k \in 1..Len(s) : all[l + k] = s[k]
      /\ \A k \in DOMAIN all : k \in 1..l \/ \E n \in 1..Len(s) : k = l + n
  <2>1. DOMAIN (log \o s) = 1..(Len(log) + Len(s))
    BY <1>1, Joined
  <2> QED BY <1>0, <1>1, <2>1, Joined
<1>4. ASSUME NEW k \in DOMAIN all, NEW j \in DOMAIN all, k < j, all[j] <= all[k]
      PROVE  mishaps > 0 /\ \E n \in 1..k : all[n] = all[j]
  <2>1. s \in Seq(Nat) /\ Rising(s) /\ Range(s) \subseteq Unwritten /\ all = log \o s
    BY <1>0
  <2> QED BY <1>4, <2>1, InOrder, ZenonT(30)
<1>5. ASSUME NEW k \in 1..l, NEW x, Repeated(x, k), x <= all[k]
      PROVE  mishaps > 0 /\ \E n \in 1..k : all[n] = x
  <2>1. k \in 1..Len(log) /\ x <= (log \o s)[k]
    BY <1>0, <1>5
  <2>2. mishaps > 0 /\ \E n \in 1..k : (log \o s)[n] = x
    BY <1>1, <1>5, <2>1, RepeatedIn
  <2> QED BY <1>0, <2>2
<1>6. log' = all
  BY <1>0
<1>7. ASSUME NEW k \in DOMAIN all, NEW x \in U, x <= all[k]
      PROVE  mishaps' > 0 /\ \E n \in 1..k : all[n] = x
  <2>1. CASE k \in 1..l
    <3>1. Repeated(x, k)
      BY <1>1, <1>3, <2>1 DEF LogInOrder
    <3> QED BY <1>2, <1>5, <1>7, <2>1, <3>1
  <2>2. ASSUME NEW m \in 1..Len(s), k = l + m PROVE mishaps' > 0 /\ \E n \in 1..k : all[n] = x
    <3>1. x <= s[m]
      BY <1>3, <1>7, <2>2
    <3>2. mishaps' > 0 /\ \E n \in 1..m : s[n] = x
      BY <3>1
    <3>3. PICK n \in 1..m : s[n] = x
      BY <3>2
    <3>4. n \in 1..Len(s) /\ l + n \in 1..k
      BY <1>3, <2>2
    <3>5. all[l + n] = x
      BY <1>3, <3>3, <3>4
    <3> QED BY <3>2, <3>4, <3>5
  <2> QED BY <1>3, <2>1, <2>2
<1> QED BY <1>2, <1>4, <1>6, <1>7 DEF LogInOrder, Repeated

\* The log stays, and what is newly unwritten is above it.
LEMMA LogStays ==
  ASSUME RowsInv, log' = log, mishaps' \in Nat, mishaps' >= mishaps,
         \A x \in Unwritten' : x \in Unwritten \/ (x \in Nat /\ \A k \in DOMAIN log : log[k] < x)
  PROVE  LogInOrder'
<1>1. LogInOrder /\ mishaps \in Nat /\ \A k \in DOMAIN log : log[k] \in Nat
  BY LenProperties, ElementOfSeq DEF RowsInv, RowsShape
<1>2. mishaps > 0 => mishaps' > 0
  BY <1>1
<1>3. \A k \in DOMAIN log, x \in Unwritten' : x \in Unwritten \/ ~(x <= log[k])
  BY <1>1
<1> QED BY <1>1, <1>2, <1>3 DEF LogInOrder, Repeated

\* While f runs no other flight has rows in hand.
LEMMA OthersEmpty ==
  ASSUME RowsInv, NEW f \in Flights, flight[f].pc # "idle"
  PROVE  /\ \A g \in Flights : g # f => flight[g].batch = <<>>
         /\ InHand = Range(flight[f].batch)
<1>1. \A g \in Flights : g # f => flight[g].batch = <<>>
  BY DEF RowsInv, RowsShape, FlightInv, InFlightIsActive
<1> QED BY <1>1, HandIs DEF InHand

\* The types of what the steps move.
LEMMA RowTypes ==
  ASSUME RowsInv
  PROVE  /\ queue \in Seq(Nat) /\ log \in Seq(Nat) /\ enqueued \in Nat /\ mishaps \in Nat
         /\ \A f \in Flights : flight[f] \in Flight /\ flight[f].batch \in Seq(Nat)
BY DEF RowsInv, FlightInv, Shape, RowsShape, Flight

\* A new row is above all the others.
LEMMA EnqueueOrders == ASSUME RowsInv, FlightInv', Enqueue PROVE RowsInv'
<1> DEFINE n == enqueued'
           one == <<n>>
           q == queue \o one
<1>1. /\ n = enqueued + 1 /\ TrimQueue(Append(queue, n)) /\ UNCHANGED <<log, flight>>
      /\ Kick(queue')
  BY DEF Enqueue
<1>2. queue \in Seq(Nat) /\ enqueued \in Nat /\ mishaps \in Nat /\ n \in Nat /\ log \in Seq(Nat)
  BY <1>1, RowTypes
<1> HIDE DEF n
<1>3. one \in Seq(Nat) /\ Range(one) = {n} /\ Rising(one)
  <2>1. one \in Seq(Nat) /\ Len(one) = 1 /\ one[1] = n /\ DOMAIN one = {1}
    BY <1>2
  <2> HIDE DEF one
  <2> QED BY <2>1 DEF Range, Rising
<1>4. Append(queue, n) = q
  BY <1>2, AppendIsConcat
<1> HIDE DEF one
<1>5. \A x \in Range(log) \cup Unwritten : x \in 1..enqueued
  BY DEF RowsInv, RowsShape
<1>6. /\ q \in Seq(Nat) /\ Range(q) = Range(queue) \cup {n} /\ Rising(q)
  <2>1. \A x \in Range(queue), y \in Range(one) : x < y
    BY <1>1, <1>2, <1>3, <1>5 DEF Unwritten
  <2> QED BY <1>2, <1>3, <2>1, ConcatRises DEF RowsInv, UnwrittenRises
<1> HIDE DEF q
<1>7. /\ queue' \in Seq(Nat) /\ Rising(queue') /\ Range(queue') \subseteq Range(queue) \cup {n}
      /\ Range(queue) \cup {n} \subseteq Range(queue') \cup dropped' /\ dropped \subseteq dropped'
  BY <1>1, <1>4, <1>6, TrimKeeps
<1>8. mishaps' \in Nat /\ mishaps' >= mishaps
  BY <1>1, <1>2 DEF Kick, Schedule, Trouble
<1>9. InHand' = InHand /\ Unwritten' = InHand \cup Range(queue')
  BY <1>1 DEF InHand, Unwritten
<1>10. 1..n = 1..enqueued \cup {n}
  BY <1>1, <1>2
<1>11. RowsShape'
  <2>1. Range(log) \cup Unwritten' \subseteq 1..n
    BY <1>5, <1>7, <1>9, <1>10 DEF Unwritten
  <2> QED BY <1>1, <1>2, <1>8, <2>1 DEF RowsInv, RowsShape, n
<1>12. UnwrittenRises'
  <2>1. \A x \in InHand, y \in Range(queue') : x < y
    <3> SUFFICES ASSUME NEW x \in InHand, NEW y \in Range(queue') PROVE x < y
      OBVIOUS
    <3>1. y \in Range(queue) \/ y = n
      BY <1>7
    <3>2. x \in 1..enqueued
      BY <1>5 DEF Unwritten
    <3> QED BY <1>1, <1>2, <3>1, <3>2 DEF RowsInv, UnwrittenRises
  <2>2. \A f \in Flights : Rising(flight[f].batch)
    BY DEF RowsInv, UnwrittenRises
  <2> QED BY <1>1, <1>7, <1>9, <2>1, <2>2 DEF UnwrittenRises
<1>13. LogInOrder'
  <2>1. \A k \in DOMAIN log : log[k] < n
    <3> TAKE k \in DOMAIN log
    <3>1. log[k] \in Range(log)
      BY DEF Range
    <3>2. log[k] \in 1..enqueued
      BY <1>5, <3>1
    <3> QED BY <1>1, <1>2, <3>2
  <2>2. \A x \in Unwritten' : x \in Unwritten \/ x = n
    BY <1>7, <1>9 DEF Unwritten
  <2> QED BY <1>1, <1>2, <1>8, <2>1, <2>2, LogStays
<1>14. NoRowLost'
  <2>1. 1..enqueued \subseteq Range(log) \cup InHand \cup Range(queue) \cup dropped
    BY DEF RowsInv, NoRowLost
  <2>2. 1..n \subseteq Range(log) \cup InHand \cup Range(queue') \cup dropped'
    BY <1>7, <1>10, <2>1
  <2> QED BY <1>1, <1>9, <2>2 DEF NoRowLost, n
<1> QED BY <1>11, <1>12, <1>13, <1>14 DEF RowsInv

\* A batch that is taken leaves the order of the rows as it is.
LEMMA TakeOrders == ASSUME RowsInv, FlightInv', NEW f \in Flights, TakeBatch(f) PROVE RowsInv'
<1> DEFINE n == BatchSize
           a == SubSeq(queue, 1, n)
           b == SubSeq(queue, n + 1, Len(queue))
<1>1. /\ flight[f].pc = "rows" /\ flight' = [flight EXCEPT ![f].pc = "append", ![f].batch = a]
      /\ queue' = b /\ UNCHANGED <<log, enqueued, dropped, mishaps>>
  BY DEF TakeBatch, At
<1>2. queue \in Seq(Nat) /\ n \in 0..Len(queue) /\ mishaps \in Nat
  BY FlusherAssumption, LenProperties, RowTypes DEF BatchSize
<1> HIDE DEF n
<1>3. a \in Seq(Nat) /\ b \in Seq(Nat)
  BY <1>2, PartsOf
<1>4. /\ Range(queue) = Range(a) \cup Range(b)
      /\ Rising(a) /\ Rising(b) /\ \A x \in Range(a), y \in Range(b) : x < y
  BY <1>2, PartsRise DEF RowsInv, UnwrittenRises
<1> HIDE DEF a, b
<1>5. (\A g \in Flights : g # f => flight[g].batch = <<>>) /\ flight[f].batch = <<>>
  BY <1>1, OthersEmpty DEF RowsInv, RowsShape
<1>6. InHand = {}
  BY <1>1, <1>5, OthersEmpty DEF Range
<1>7. /\ flight'[f].pc = "append" /\ flight'[f].batch = a
      /\ \A g \in Flights : g # f => flight'[g].batch = <<>>
  BY <1>1, <1>5 DEF RowsInv, FlightInv, Shape, Flight
<1>8. InHand' = Range(a)
  BY <1>7, HandIs DEF InHand
<1>9. Unwritten' = Unwritten
  BY <1>1, <1>4, <1>6, <1>8 DEF Unwritten
<1>10. RowsShape'
  BY <1>1, <1>7, <1>9 DEF RowsInv, RowsShape
<1>11. UnwrittenRises'
  <2>1. Rising(<<>>)
    BY DEF Rising
  <2> QED BY <1>1, <1>4, <1>7, <1>8, <2>1 DEF UnwrittenRises
<1>12. LogInOrder'
  BY <1>1, <1>2, <1>9, LogStays
<1>13. NoRowLost'
  BY <1>1, <1>4, <1>6, <1>8 DEF RowsInv, NoRowLost
<1> QED BY <1>10, <1>11, <1>12, <1>13 DEF RowsInv

\* What the end of an append leaves: no rows in hand.
LEMMA HandEmpties ==
  ASSUME RowsInv, NEW f \in Flights, flight[f].pc = "append",
         NEW at, flight' = [flight EXCEPT ![f].pc = at, ![f].batch = <<>>]
  PROVE  /\ \A g \in Flights : flight'[g].batch = <<>>
         /\ InHand' = {} /\ Unwritten' = Range(queue')
<1>1. \A g \in Flights : g # f => flight[g].batch = <<>>
  BY OthersEmpty
<1>2. \A g \in Flights : flight'[g].batch = <<>>
  BY <1>1 DEF RowsInv, FlightInv, Shape, Flight
<1>3. Range(<<>>) = {}
  BY DEF Range
<1> QED BY <1>2, <1>3 DEF InHand, Unwritten

\* A batch that is appended follows the log.
LEMMA AppendOrders == ASSUME RowsInv, FlightInv', NEW f \in Flights, AppendRows(f) PROVE RowsInv'
<1> DEFINE b == flight[f].batch
<1>1. /\ flight[f].pc = "append" /\ flight' = [flight EXCEPT ![f].pc = "rows", ![f].batch = <<>>]
      /\ log' = log \o b /\ UNCHANGED <<queue, enqueued, dropped, mishaps>>
  BY DEF AppendRows, At
<1>2. /\ b \in Seq(Nat) /\ log \in Seq(Nat) /\ mishaps \in Nat /\ queue \in Seq(Nat)
      /\ Rising(b) /\ InHand = Range(b) /\ \A x \in Range(b), y \in Range(queue) : x < y
  BY <1>1, RowTypes, OthersEmpty DEF RowsInv, UnwrittenRises
<1> HIDE DEF b
<1>3. (\A g \in Flights : flight'[g].batch = <<>>) /\ InHand' = {} /\ Unwritten' = Range(queue)
  BY <1>1, HandEmpties
<1>4. log' \in Seq(Nat) /\ Range(log') = Range(log) \cup Range(b)
  BY <1>1, <1>2, ConcatRises
<1>5. RowsShape'
  BY <1>1, <1>2, <1>3, <1>4 DEF RowsInv, RowsShape, Unwritten
<1>6. UnwrittenRises'
  <2>1. Rising(<<>>)
    BY DEF Rising
  <2> QED BY <1>1, <1>3, <2>1 DEF RowsInv, UnwrittenRises
<1>7. LogInOrder'
  <2>1. \A k \in 1..Len(b), x \in Range(queue) : ~(x <= b[k])
    <3> TAKE k \in 1..Len(b), x \in Range(queue)
    <3>1. b[k] < x /\ b[k] \in Nat /\ x \in Nat
      BY <1>2, RangeIs
    <3> QED BY <3>1
  <2>2. Range(b) \subseteq Unwritten /\ Range(queue) \subseteq Unwritten
    BY <1>2 DEF Unwritten
  <2>3. \A k \in 1..Len(b), x \in Range(queue) : x <= b[k] => mishaps' > 0 /\ \E n \in 1..k : b[n] = x
    BY <2>1
  <2>4. mishaps' \in Nat /\ mishaps' >= mishaps
    BY <1>1, <1>2
  <2> QED BY <1>1, <1>2, <1>3, <2>2, <2>3, <2>4, LogExtends
<1>8. NoRowLost'
  BY <1>1, <1>2, <1>3, <1>4 DEF RowsInv, NoRowLost
<1> QED BY <1>5, <1>6, <1>7, <1>8 DEF RowsInv

\* A batch that failed goes back in front; the rows of it that reached the log are repeats.
LEMMA AppendFailsOrders == ASSUME RowsInv, FlightInv', NEW f \in Flights, AppendFails(f) PROVE RowsInv'
<1> DEFINE b == flight[f].batch
           q == b \o queue
<1>1. /\ flight[f].pc = "append" /\ flight' = [flight EXCEPT ![f].pc = "end", ![f].batch = <<>>]
      /\ log' = log \/ \E k \in 1..Len(b) : log' = log \o SubSeq(b, 1, k)
      /\ TrimQueue(q) /\ enqueued' = enqueued /\ mishaps' = mishaps + 1
  BY DEF AppendFails, At, Trouble
<1>2. /\ b \in Seq(Nat) /\ log \in Seq(Nat) /\ mishaps \in Nat /\ queue \in Seq(Nat)
      /\ Rising(b) /\ Rising(queue) /\ InHand = Range(b) /\ \A x \in Range(b), y \in Range(queue) : x < y
  BY <1>1, RowTypes, OthersEmpty DEF RowsInv, UnwrittenRises
<1> HIDE DEF b
<1>3. q \in Seq(Nat) /\ Rising(q) /\ Range(q) = Range(b) \cup Range(queue)
  BY <1>2, ConcatRises
<1> HIDE DEF q
<1>4. /\ queue' \in Seq(Nat) /\ Rising(queue') /\ Range(queue') \subseteq Unwritten
      /\ Unwritten \subseteq Range(queue') \cup dropped' /\ dropped \subseteq dropped'
  BY <1>1, <1>2, <1>3, TrimKeeps DEF Unwritten
<1>5. (\A g \in Flights : flight'[g].batch = <<>>) /\ InHand' = {} /\ Unwritten' = Range(queue')
  BY <1>1, HandEmpties
<1>6. mishaps' \in Nat /\ mishaps' >= mishaps /\ mishaps' > 0
  BY <1>1, <1>2
<1>7. ASSUME NEW k \in 1..Len(b), log' = log \o SubSeq(b, 1, k)
      PROVE  log' \in Seq(Nat) /\ Range(log') \subseteq Range(log) \cup Range(b) /\ Range(log) \subseteq Range(log')
             /\ LogInOrder'
  <2> DEFINE s == SubSeq(b, 1, k)
  <2>1. k \in 0..Len(b)
    BY <1>2, LenProperties
  <2>2. s \in Seq(Nat) /\ Len(s) = k /\ \A n \in 1..k : s[n] = b[n]
    BY <1>2, <2>1, PartsOf
  <2>3. Rising(s) /\ Range(s) \subseteq Range(b)
    BY <1>2, <2>1, PartsRise
  <2>4. log' = log \o s
    BY <1>7
  <2> HIDE DEF s
  <2>5. log' \in Seq(Nat) /\ Range(log') = Range(log) \cup Range(s)
    BY <1>2, <2>2, <2>4, ConcatRises
  <2>6. \A m \in 1..Len(s), x \in Range(queue') : x <= s[m] => \E n \in 1..m : s[n] = x
    <3> SUFFICES ASSUME NEW m \in 1..k, NEW x \in Range(queue'), x <= b[m] PROVE \E n \in 1..m : s[n] = x
      BY <2>2
    <3>1. m \in 1..Len(b) /\ Len(b) \in Nat /\ DOMAIN b = 1..Len(b) /\ b[m] \in Range(b) /\ b[m] \in Nat
      BY <1>2, <2>1, RangeIs
    <3>2. x \in Range(b) \/ x \in Range(queue)
      BY <1>2, <1>4 DEF Unwritten
    <3>3. x \in Nat
      BY <1>2, <3>2, RangeIs
    <3>4. x \notin Range(queue)
      BY <1>2, <3>1, <3>3
    <3>5. PICK n \in 1..Len(b) : x = b[n]
      BY <1>2, <3>2, <3>4, RangeIs
    <3>6. ~(m < n)
      <4> SUFFICES ASSUME m < n PROVE FALSE
        OBVIOUS
      <4>1. b[m] < b[n]
        BY <1>2, <3>1, <3>5 DEF Rising
      <4> QED BY <3>1, <3>3, <3>5, <4>1
    <3>7. n \in 1..m /\ n \in 1..k
      BY <3>1, <3>6
    <3> QED BY <2>2, <3>5, <3>7
  <2>7. Range(s) \subseteq Unwritten
    BY <1>2, <2>3 DEF Unwritten
  <2>8. LogInOrder'
    BY <1>4, <1>5, <1>6, <2>2, <2>3, <2>4, <2>6, <2>7, LogExtends
  <2> QED BY <2>3, <2>5, <2>8
<1>8. ASSUME log' = log PROVE LogInOrder'
  BY <1>4, <1>5, <1>6, <1>8, LogStays
<1>9. log' \in Seq(Nat) /\ Range(log') \subseteq Range(log) \cup Unwritten /\ Range(log) \subseteq Range(log') /\ LogInOrder'
  <2>1. CASE log' = log
    BY <1>2, <1>8, <2>1
  <2>2. ASSUME NEW k \in 1..Len(b), log' = log \o SubSeq(b, 1, k)
        PROVE  log' \in Seq(Nat) /\ Range(log') \subseteq Range(log) \cup Unwritten /\ Range(log) \subseteq Range(log') /\ LogInOrder'
    BY <1>2, <1>7, <2>2 DEF Unwritten
  <2> QED BY <1>1, <2>1, <2>2
<1>10. RowsShape'
  BY <1>1, <1>4, <1>5, <1>6, <1>9 DEF RowsInv, RowsShape
<1>11. UnwrittenRises'
  <2>1. Rising(<<>>)
    BY DEF Rising
  <2> QED BY <1>4, <1>5, <2>1 DEF UnwrittenRises
<1>12. NoRowLost'
  <2>1. 1..enqueued \subseteq Range(log) \cup Unwritten \cup dropped
    BY DEF RowsInv, NoRowLost, Unwritten
  <2> QED BY <1>1, <1>4, <1>5, <1>9, <2>1 DEF NoRowLost
<1> QED BY <1>9, <1>10, <1>11, <1>12 DEF RowsInv

\* A flush that starts has no rows in hand.
LEMMA StartFields ==
  ASSUME RowsInv, NEW f \in Flights, StartFlush(f)
  PROVE  /\ flight[f].pc = "idle" /\ flight'[f].pc = "ready" /\ flight'[f].batch = <<>>
         /\ flight'[f].covers = waiters /\ flight[f].batch = <<>> /\ waiters' = {}
         /\ \A g \in Flights : g # f => flight'[g] = flight[g]
<1>1. flight[f].pc = "idle" /\ flight[f].batch = <<>>
  BY DEF StartFlush, RowsInv, RowsShape
<1> QED BY <1>1 DEF StartFlush, Run, RowsInv, FlightInv, Shape

\* A flush that ends covers nobody.
LEMMA EndFields ==
  ASSUME RowsInv, NEW f \in Flights, EndFlush(f)
  PROVE  /\ flight[f].pc = "end" /\ flight'[f].pc = "idle" /\ flight'[f].batch = <<>>
         /\ flight'[f].covers = {} /\ flight[f].batch = <<>>
         /\ \A g \in Flights : g # f => flight'[g] = flight[g]
<1>1. flight[f].pc = "end" /\ flight[f].batch = <<>>
  BY DEF EndFlush, At, RowsInv, RowsShape
<1> QED BY <1>1 DEF EndFlush, Idle, Run, RowsInv, FlightInv, Shape

\* The steps of a run that only move it on.
Moves(f) ==
  \/ BeginFlush(f) \/ GetLock(f) \/ LockBusy(f) \/ AbsorbSkips(f) \/ Save(f) \/ SaveFails(f)
  \/ NoMoreRows(f)

\* What those steps change.
LEMMA MovesGo ==
  ASSUME NEW f \in Flights, Moves(f)
  PROVE  /\ \E at \in {"lock", "absorb", "rows", "end"} : Goto(f, at)
         /\ flight[f].pc \in {"ready", "lock", "absorb", "save", "rows"}
         /\ UNCHANGED rows /\ Stays
         /\ mishaps' = mishaps \/ mishaps' = mishaps + 1
BY DEF Moves, BeginFlush, GetLock, LockBusy, AbsorbSkips, Save, SaveFails, NoMoreRows, At, Trouble

\* The revision that is about to be saved is noted.
LEMMA AbsorbFields ==
  ASSUME RowsInv, NEW f \in Flights, Absorb(f)
  PROVE  /\ flight[f].pc = "absorb" /\ flight'[f].pc = "save" /\ flight'[f].revision = revision'
         /\ flight'[f].covers = flight[f].covers /\ flight'[f].batch = flight[f].batch
         /\ flight[f].batch = <<>>
         /\ \A g \in Flights : g # f => flight'[g] = flight[g]
<1>1. flight[f].pc = "absorb" /\ flight[f].batch = <<>>
  BY DEF Absorb, At, RowsInv, RowsShape
<1> QED BY <1>1 DEF Absorb, RowsInv, FlightInv, Shape, Flight

\* Every step keeps the order of the rows.
LEMMA RowsStep == RowsInv /\ FlightInv' /\ [Next]_vars => RowsInv'
<1> SUFFICES ASSUME RowsInv, FlightInv', [Next]_vars PROVE RowsInv'
  OBVIOUS
<1>1. mishaps \in Nat /\ \A f \in Flights : flight[f].batch # <<>> => flight[f].pc = "append"
  BY DEF RowsInv, RowsShape
<1>2. CASE UNCHANGED <<flight, rows, mishaps>>
  BY <1>1, <1>2, RowsStay
<1>3. CASE StoreChanges \/ Load \/ FinishDispose \/ UNCHANGED vars
  BY <1>2, <1>3 DEF StoreChanges, Load, FinishDispose, running, vars
<1>4. ASSUME NEW r \in Requesters, RequestFlush(r) PROVE RowsInv'
  <2>1. UNCHANGED <<flight, rows>> /\ Kick(queue)
    BY <1>4 DEF RequestFlush
  <2>2. mishaps' \in Nat /\ mishaps' >= mishaps
    BY <1>1, <2>1 DEF Kick, Schedule, Trouble
  <2> QED BY <1>1, <2>1, <2>2, RowsStay
<1>5. ASSUME NEW f \in Flights, StartFlush(f), UNCHANGED <<rows, mishaps>> PROVE RowsInv'
  <2>1. \A g \in Flights : flight'[g].batch = flight[g].batch /\ (flight'[g].batch # <<>> => flight'[g].pc = "append")
    BY <1>1, <1>5, StartFields
  <2> QED BY <1>1, <1>5, <2>1, RowsStay
<1>6. CASE TimerFires
  BY <1>5, <1>6 DEF TimerFires
<1>7. ASSUME NEW c \in AllCallers, FlushNow(c) PROVE RowsInv'
  <2>1. UNCHANGED <<rows, mishaps>> /\ (UNCHANGED flight \/ \E f \in Flights : StartFlush(f))
    BY <1>7 DEF FlushNow, FlushNowLoop, running
  <2> QED BY <1>2, <1>5, <2>1
<1>8. ASSUME NEW f \in Flights, EndFlush(f) PROVE RowsInv'
  <2>1. \A g \in Flights : flight'[g].batch = flight[g].batch /\ (flight'[g].batch # <<>> => flight'[g].pc = "append")
    BY <1>1, <1>8, EndFields
  <2>2. UNCHANGED rows /\ mishaps' \in Nat /\ mishaps' >= mishaps
    BY <1>1, <1>8 DEF EndFlush, Schedule, Trouble
  <2> QED BY <1>1, <2>1, <2>2, RowsStay
<1>9. ASSUME NEW f \in Flights, Moves(f) PROVE RowsInv'
  <2>1. PICK at \in {"lock", "absorb", "rows", "end"} : Goto(f, at)
    BY <1>9, MovesGo
  <2>2. flight[f].batch = <<>>
    BY <1>1, <1>9, MovesGo
  <2>3. at \in FlightPC /\ Shape
    BY DEF FlightPC, RowsInv, FlightInv
  <2>4. \A g \in Flights : flight'[g].batch = flight[g].batch /\ (g # f => flight'[g].pc = flight[g].pc)
    BY <2>1, <2>3, GotoFields
  <2>5. \A g \in Flights : flight'[g].batch = flight[g].batch /\ (flight'[g].batch # <<>> => flight'[g].pc = "append")
    BY <1>1, <2>2, <2>4
  <2>6. UNCHANGED rows /\ mishaps' \in Nat /\ mishaps' >= mishaps
    BY <1>1, <1>9, MovesGo
  <2> QED BY <2>5, <2>6, RowsStay
<1>10. ASSUME NEW f \in Flights, Absorb(f) PROVE RowsInv'
  <2>1. \A g \in Flights : flight'[g].batch = flight[g].batch /\ (flight'[g].batch # <<>> => flight'[g].pc = "append")
    BY <1>1, <1>10, AbsorbFields
  <2>2. UNCHANGED <<rows, mishaps>>
    BY <1>10 DEF Absorb
  <2> QED BY <1>1, <2>1, <2>2, RowsStay
<1> QED BY <1>3, <1>4, <1>6, <1>7, <1>8, <1>9, <1>10, EnqueueOrders, TakeOrders, AppendOrders, AppendFailsOrders
        DEF Next, FlushSteps, FlushFailures, Moves

\* There are no rows at first.
LEMMA RowsInit == Init => RowsInv
<1> SUFFICES ASSUME Init PROVE RowsInv
  OBVIOUS
<1>1. FlightInv
  BY FlightInit
<1>2. /\ <<>> \in Seq(Nat) /\ Range(<<>>) = {} /\ Rising(<<>>) /\ DOMAIN <<>> = {}
  BY DEF Range, Rising
<1>3. queue = <<>> /\ log = <<>> /\ enqueued = 0 /\ mishaps = 0 /\ \A f \in Flights : flight[f].batch = <<>>
  BY DEF Init, Idle, Run
<1>4. InHand = {} /\ Unwritten = {} /\ 1..enqueued = {}
  BY <1>2, <1>3 DEF InHand, Unwritten
<1>5. RowsShape
  BY <1>2, <1>3, <1>4 DEF RowsShape
<1>6. UnwrittenRises /\ LogInOrder /\ NoRowLost
  BY <1>2, <1>3, <1>4 DEF UnwrittenRises, LogInOrder, NoRowLost
<1> QED BY <1>1, <1>5, <1>6 DEF RowsInv

\* Concatenation is associative.
LEMMA JoinedThrice ==
  ASSUME NEW p \in Seq(Nat), NEW q \in Seq(Nat), NEW s \in Seq(Nat)
  PROVE  (p \o q) \o s = p \o (q \o s)
OBVIOUS

\* The invariant says more than the property.
LEMMA OrderFollows == RowsInv => RowsInOrder
<1> SUFFICES ASSUME RowsInv, NEW f \in Flights, flight[f].batch # <<>> \/ Active = {},
                    NEW all, all = log \o flight[f].batch \o queue,
                    NEW k \in DOMAIN all, NEW j \in DOMAIN all, k < j /\ all[j] <= all[k]
             PROVE  mishaps > 0 /\ \E n \in 1..k : all[n] = all[j]
  BY DEF RowsInOrder
<1>0. PICK b, s : b = flight[f].batch /\ s = b \o queue
  OBVIOUS
<1>1. b \in Seq(Nat) /\ queue \in Seq(Nat) /\ log \in Seq(Nat)
  BY <1>0, RowTypes
<1>2. Rising(b) /\ Rising(queue) /\ Range(b) \subseteq InHand /\ \A x \in Range(b), y \in Range(queue) : x < y
  <2>1. Range(b) \subseteq InHand
    BY <1>0 DEF InHand
  <2> QED BY <1>0, <2>1 DEF RowsInv, UnwrittenRises
<1>3. s \in Seq(Nat) /\ Rising(s) /\ Range(s) \subseteq Unwritten
  BY <1>0, <1>1, <1>2, ConcatRises DEF Unwritten
<1>4. all = log \o s
  <2>1. all = (log \o b) \o queue
    BY <1>0
  <2>2. (log \o b) \o queue = log \o (b \o queue)
    BY <1>1, JoinedThrice
  <2> QED BY <1>0, <2>1, <2>2
<1> QED BY <1>3, <1>4, InOrder
-----------------------------------------------------------------------------
(* Nobody is told that rows are written before they are.                     *)

\* What no step takes back.
Grows ==
  /\ Range(log) \subseteq Range(log') /\ dropped \subseteq dropped'
  /\ enqueued <= enqueued' /\ mishaps <= mishaps' /\ revision <= revision'
  /\ disposed => disposed'

\* Every step is one of growth.
LEMMA GrowsStep == RowsInv /\ [Next]_vars => Grows
<1> SUFFICES ASSUME RowsInv, [Next]_vars PROVE Grows
  OBVIOUS
<1>1. enqueued \in Nat /\ mishaps \in Nat /\ revision \in Nat
  BY DEF RowsInv, RowsShape, FlightInv, Shape
<1>2. \/ UNCHANGED log
      \/ \E s \in Seq(Nat) : log' = log \o s
  <2>1. ASSUME NEW f \in Flights, AppendRows(f) \/ AppendFails(f)
        PROVE  UNCHANGED log \/ \E s \in Seq(Nat) : log' = log \o s
    <3>1. PICK b \in Seq(Nat) : b = flight[f].batch
      BY RowTypes
    <3>2. \A k \in 1..Len(b) : SubSeq(b, 1, k) \in Seq(Nat)
      <4> TAKE k \in 1..Len(b)
      <4>1. k \in 0..Len(b)
        OBVIOUS
      <4> QED BY <4>1, PartsOf
    <3>3. UNCHANGED log \/ log' = log \o b \/ \E k \in 1..Len(b) : log' = log \o SubSeq(b, 1, k)
      BY <2>1, <3>1 DEF AppendRows, AppendFails
    <3> QED BY <3>1, <3>2, <3>3
  <2> QED BY <2>1 DEF Next, FlushSteps, FlushFailures, StoreChanges, Load, Enqueue, TimerFires, FinishDispose,
        RequestFlush, FlushNow, BeginFlush, GetLock, Absorb, Save, TakeBatch, NoMoreRows, EndFlush, LockBusy,
        AbsorbSkips, SaveFails, rows, vars
<1>3. Range(log) \subseteq Range(log')
  <2>1. log \in Seq(Nat)
    BY DEF RowsInv, RowsShape
  <2> QED BY <1>2, <2>1, ConcatRises
<1>4. /\ dropped \subseteq dropped'
      /\ enqueued' = enqueued \/ enqueued' = enqueued + 1
      /\ revision' = revision \/ revision' = revision + 1
      /\ disposed' = disposed \/ disposed'
  BY DEF Next, FlushSteps, FlushFailures, StoreChanges, Load, Enqueue, TimerFires, FinishDispose, RequestFlush,
     FlushNow, BeginFlush, GetLock, Absorb, Save, TakeBatch, NoMoreRows, AppendRows, EndFlush, LockBusy,
     AbsorbSkips, SaveFails, AppendFails, TrimQueue, Stays, rows, snapshot, vars
<1>5. mishaps' = mishaps \/ mishaps' = mishaps + 1
  BY DEF Next, FlushSteps, FlushFailures, StoreChanges, Load, Enqueue, TimerFires, FinishDispose, RequestFlush,
     FlushNow, BeginFlush, GetLock, Absorb, Save, TakeBatch, NoMoreRows, AppendRows, EndFlush, LockBusy,
     AbsorbSkips, SaveFails, AppendFails, Kick, Schedule, Trouble, vars
<1> QED BY <1>1, <1>3, <1>4, <1>5 DEF Grows

\* Nothing queued and nothing in hand: every row is in the log, unless it was trimmed away.
LEMMA AllWritten ==
  ASSUME RowsInv, queue = <<>>, \A f \in Flights : flight[f].batch = <<>>
  PROVE  1..enqueued \subseteq Range(log) \cup dropped
<1>1. Range(queue) = {} /\ InHand = {}
  BY DEF Range, InHand
<1> QED BY <1>1 DEF RowsInv, NoRowLost

\* Steps that leave the runs and the promises alone.
LEMMA HonourStays ==
  ASSUME HonourInv, RowsInv', Grows,
         UNCHANGED <<flight, waiters, request, asked, saved, written, snapshotBlocked>>
  PROVE  HonourInv'
<1>1. /\ enqueued \in Nat /\ enqueued' \in Nat /\ mishaps \in Nat /\ mishaps' \in Nat
      /\ revision \in Nat /\ revision' \in Nat /\ saved \in Nat
      /\ \A f \in Flights : flight[f].revision \in Nat
      /\ \A r \in Requesters : asked[r].revision \in Nat
  BY DEF HonourInv, RowsInv, RowsShape, FlightInv, Shape, Flight, AskedInv
<1>2. mishaps' = 0 => mishaps = 0
  BY <1>1 DEF Grows
<1>3. 1..enqueued \subseteq 1..enqueued'
  BY <1>1 DEF Grows
<1>4. AskedInv'
  BY <1>1, <1>3 DEF HonourInv, AskedInv, Grows
<1>5. RunsServe'
  BY <1>2 DEF HonourInv, RunsServe, RunServes, Grows
<1>6. RequestHonoured'
  BY <1>2 DEF HonourInv, RequestHonoured, Grows
<1> QED BY <1>4, <1>5, <1>6 DEF HonourInv

\* A run that starts takes the waiters over and has done nothing for them yet.
LEMMA HonourStart ==
  ASSUME HonourInv, RowsInv', NEW f \in Flights, StartFlush(f),
         UNCHANGED <<rows, snapshot, request, asked, disposed, mishaps>>
  PROVE  HonourInv'
<1>1. /\ flight'[f].pc = "ready" /\ flight'[f].covers = waiters /\ waiters' = {}
      /\ \A g \in Flights : g # f => flight'[g] = flight[g]
  BY StartFields DEF HonourInv
<1>2. AskedInv'
  BY <1>1 DEF HonourInv, AskedInv, snapshot, rows
<1>3. RunsServe'
  BY <1>1 DEF HonourInv, RunsServe, RunServes, snapshot, rows
<1>4. RequestHonoured'
  BY DEF HonourInv, RequestHonoured, snapshot, rows
<1> QED BY <1>2, <1>3, <1>4 DEF HonourInv

\* A step of the run f goes on serving those it covers.
LEMMA HonourServes ==
  ASSUME HonourInv, RowsInv', Grows, NEW f \in Flights, flight[f].pc # "idle", Stays,
         flight'[f].covers = flight[f].covers,
         \A g \in Flights : g # f => flight'[g].pc = flight[g].pc /\ flight'[g].covers = flight[g].covers,
         saved' = written', saved <= saved', saved' \in Nat, saved' <= revision', snapshotBlocked' => mishaps' > 0,
         flight'[f].pc = "save" => saved' <= flight'[f].revision /\ flight'[f].revision <= revision',
         mishaps' = 0 => \A r \in flight[f].covers : RunServes(f, r)'
  PROVE  HonourInv'
<1>1. /\ enqueued \in Nat /\ enqueued' \in Nat /\ mishaps \in Nat /\ mishaps' \in Nat
      /\ revision \in Nat /\ revision' \in Nat /\ saved \in Nat
      /\ \A r \in Requesters : asked[r].revision \in Nat
  BY DEF HonourInv, RowsInv, RowsShape, FlightInv, Shape, AskedInv
<1>2. mishaps' = 0 => mishaps = 0
  BY <1>1 DEF Grows
<1>3. 1..enqueued \subseteq 1..enqueued'
  BY <1>1 DEF Grows
<1>4. UNCHANGED <<waiters, request, asked, disposed>>
  BY DEF Stays, promises
<1>5. \A g \in Flights : g # f => flight'[g].pc = "idle"
  BY DEF HonourInv, RowsInv, FlightInv, InFlightIsActive
<1>6. AskedInv'
  <2>1. \A r \in Requesters : asked[r].revision <= revision' /\ asked[r].rows \subseteq 1..enqueued'
    BY <1>1, <1>3 DEF HonourInv, AskedInv, Grows
  <2>2. \A g \in Flights : \A r \in flight'[g].covers : request[r] # "idle"
    BY DEF HonourInv, AskedInv
  <2>3. \A g \in Flights : flight'[g].pc = "save" => saved' <= flight'[g].revision /\ flight'[g].revision <= revision'
    BY <1>5
  <2> QED BY <1>4, <2>1, <2>2, <2>3 DEF HonourInv, AskedInv
<1>7. RunsServe'
  BY <1>5 DEF RunsServe, RunServes
<1>8. RequestHonoured'
  <2> SUFFICES ASSUME NEW r \in Requesters, request'[r] = "done", mishaps' = 0, ~disposed'
               PROVE  asked'[r].rows \subseteq Range(log') \cup dropped' /\ saved' >= asked'[r].revision
    BY DEF RequestHonoured
  <2>1. asked[r].rows \subseteq Range(log) \cup dropped /\ saved >= asked[r].revision
    BY <1>2, <1>4 DEF HonourInv, RequestHonoured
  <2> QED BY <1>1, <1>4, <2>1 DEF Grows
<1> QED BY <1>6, <1>7, <1>8 DEF HonourInv

\* A requestFlush that resolves at once found nothing to do.
LEMMA HonourRequest ==
  ASSUME HonourInv, RowsInv', NEW r \in Requesters, RequestFlush(r)
  PROVE  HonourInv'
<1>1. /\ request[r] = "idle" /\ UNCHANGED <<rows, snapshot, inFlight, flight, disposed>>
      /\ asked' = [asked EXCEPT ![r] = [rows |-> Range(queue), revision |-> revision]]
  BY DEF RequestFlush
<1>2. /\ mishaps \in Nat /\ mishaps' \in Nat /\ revision \in Nat /\ queue \in Seq(Nat)
      /\ Range(queue) \subseteq 1..enqueued
      /\ request \in [Requesters -> {"idle", "waiting", "done"}]
  BY DEF HonourInv, RowsInv, RowsShape, FlightInv, Shape, Unwritten
<1>3. mishaps' = 0 => mishaps = 0
  BY <1>2 DEF RequestFlush, Kick, Schedule, Trouble
<1>4. PICK new : new = [rows |-> Range(queue), revision |-> revision]
  OBVIOUS
<1>5. /\ new \in [rows : SUBSET Nat, revision : Nat]
      /\ new.rows = Range(queue) /\ new.revision = revision
  BY <1>2, <1>4, RangeIs
<1>6. /\ asked' \in [Requesters -> [rows : SUBSET Nat, revision : Nat]]
      /\ asked'[r] = new
      /\ \A x \in Requesters : x # r => asked'[x] = asked[x]
  BY <1>1, <1>4, <1>5 DEF HonourInv, AskedInv
<1>7. /\ \A x \in Requesters : x # r => request'[x] = request[x]
      /\ waiters \subseteq waiters' /\ waiters' \subseteq waiters \cup {r}
      /\ request'[r] \in {"waiting", "done"}
      /\ waiters' = waiters \/ request'[r] = "waiting"
  BY <1>2 DEF RequestFlush
<1>8. AskedInv'
  <2>1. \A x \in Requesters : asked'[x].revision <= revision' /\ asked'[x].rows \subseteq 1..enqueued'
    BY <1>1, <1>2, <1>5, <1>6 DEF HonourInv, AskedInv, rows, snapshot
  <2>2. \A x \in Requesters : request[x] # "idle" => request'[x] # "idle"
    BY <1>7
  <2>3. waiters \subseteq Requesters /\ \A f \in Flights : flight[f].covers \subseteq Requesters
    BY DEF HonourInv, RowsInv, FlightInv, Shape, Flight
  <2>4. /\ \A x \in waiters' : request'[x] # "idle"
        /\ \A f \in Flights : \A x \in flight'[f].covers : request'[x] # "idle"
    BY <1>1, <1>7, <2>2, <2>3 DEF HonourInv, AskedInv
  <2>5. snapshotBlocked' => mishaps' > 0
    BY <1>1, <1>2, <1>3 DEF HonourInv, AskedInv, snapshot
  <2> QED BY <1>1, <1>6, <2>1, <2>4, <2>5 DEF HonourInv, AskedInv, snapshot
<1>9. RunsServe'
  <2> SUFFICES ASSUME mishaps' = 0, NEW f \in Flights, NEW x \in flight[f].covers PROVE RunServes(f, x)'
    BY <1>1 DEF RunsServe
  <2>1. x # r /\ x \in Requesters
    BY <1>1 DEF HonourInv, AskedInv, RowsInv, FlightInv, Shape, Flight
  <2>2. RunServes(f, x)
    BY <1>3 DEF HonourInv, RunsServe
  <2> QED BY <1>1, <1>6, <2>1, <2>2 DEF RunServes, rows, snapshot
<1>10. RequestHonoured'
  <2> SUFFICES ASSUME NEW x \in Requesters, request'[x] = "done", mishaps' = 0, ~disposed'
               PROVE  asked'[x].rows \subseteq Range(log') \cup dropped' /\ saved' >= asked'[x].revision
    BY DEF RequestHonoured
  <2>1. CASE x # r
    BY <1>1, <1>3, <1>6, <1>7, <2>1 DEF HonourInv, RequestHonoured, rows, snapshot
  <2>2. CASE x = r
    <3>1. ~HasWork(queue)
      <4>1. ~disposed /\ (disposed \/ ~HasWork(queue) \/ (~Armed' /\ inFlight = None))
        BY <1>1, <1>2, <2>2 DEF RequestFlush
      <4>2. HasWork(queue) /\ inFlight = None => Armed'
        BY <1>2, <4>1 DEF RequestFlush, Kick, Schedule, Trouble
      <4> QED BY <4>1, <4>2
    <3>2. queue = <<>> /\ (snapshotBlocked \/ revision = written)
      BY <3>1 DEF HasWork
    <3>3. ~snapshotBlocked /\ saved = written
      BY <1>2, <1>3 DEF HonourInv, AskedInv
    <3>4. Range(queue) = {}
      BY <3>2 DEF Range
    <3> QED BY <1>1, <1>2, <1>5, <1>6, <2>2, <3>2, <3>3, <3>4 DEF snapshot
  <2> QED BY <2>1, <2>2
<1> QED BY <1>8, <1>9, <1>10 DEF HonourInv

\* Disposing of the flusher releases everybody: RequestHonoured promises them nothing then.
LEMMA HonourDispose ==
  ASSUME HonourInv, RowsInv', FinishDispose
  PROVE  HonourInv'
<1>1. /\ disposed' /\ waiters' = {} /\ UNCHANGED <<rows, snapshot, asked, flight, mishaps>>
      /\ \A r \in Requesters : request[r] # "idle" => request'[r] # "idle"
      /\ \A f \in Flights : flight[f].covers \subseteq Requesters
  BY DEF FinishDispose, Release, HonourInv, RowsInv, FlightInv, Shape, Flight
<1>2. AskedInv'
  <2>1. \A f \in Flights : \A r \in flight'[f].covers : request'[r] # "idle"
    BY <1>1 DEF HonourInv, AskedInv
  <2> QED BY <1>1, <2>1 DEF HonourInv, AskedInv, rows, snapshot
<1>3. RunsServe'
  BY <1>1 DEF HonourInv, RunsServe, RunServes, rows, snapshot
<1> QED BY <1>1, <1>2, <1>3 DEF HonourInv, RequestHonoured

\* The end of a run releases those it covered, whose rows it has written, and the other waiters
\* only when no timer is armed: then nothing is left to write.
LEMMA HonourEnd ==
  ASSUME HonourInv, RowsInv', NEW f \in Flights, EndFlush(f)
  PROVE  HonourInv'
<1>1. /\ flight[f].pc = "end" /\ flight'[f].pc = "idle" /\ flight'[f].covers = {} /\ flight[f].batch = <<>>
      /\ \A g \in Flights : g # f => flight'[g] = flight[g]
      /\ UNCHANGED <<rows, snapshot, asked, disposed>>
  BY EndFields DEF HonourInv, EndFlush
<1>2. mishaps \in Nat /\ mishaps' \in Nat /\ (mishaps' = 0 => mishaps = 0)
  BY DEF HonourInv, RowsInv, RowsShape, EndFlush, Schedule, Trouble
<1> DEFINE done == IF Armed' THEN flight[f].covers ELSE flight[f].covers \cup waiters
<1>3. \/ done = flight[f].covers /\ waiters' = waiters
      \/ done = flight[f].covers \cup waiters /\ waiters' = {} /\ ~Armed'
  BY DEF EndFlush, ReleaseAfter
<1>4. \A r \in Requesters : request'[r] = IF r \in done THEN "done" ELSE request[r]
  BY DEF EndFlush, ReleaseAfter, Release
<1> HIDE DEF done
<1>5. AskedInv'
  <2>1. waiters' \subseteq waiters /\ waiters \subseteq Requesters
    BY <1>3 DEF HonourInv, RowsInv, FlightInv, Shape
  <2>2. \A r \in waiters' : request'[r] # "idle"
    BY <1>4, <2>1 DEF HonourInv, AskedInv
  <2>3. \A g \in Flights : flight[g].covers \subseteq Requesters
    BY DEF HonourInv, RowsInv, FlightInv, Shape, Flight
  <2>4. \A g \in Flights : \A r \in flight'[g].covers : request'[r] # "idle"
    BY <1>1, <1>4, <2>3 DEF HonourInv, AskedInv
  <2>5. \A g \in Flights : flight'[g].pc = "save" => saved <= flight'[g].revision /\ flight'[g].revision <= revision
    BY <1>1 DEF HonourInv, AskedInv
  <2>6. snapshotBlocked' => mishaps' > 0
    BY <1>1, <1>2 DEF HonourInv, AskedInv, snapshot
  <2> QED BY <1>1, <2>2, <2>4, <2>5, <2>6 DEF HonourInv, AskedInv, rows, snapshot
<1>6. RunsServe'
  BY <1>1, <1>2 DEF HonourInv, RunsServe, RunServes, rows, snapshot
<1>7. RequestHonoured'
  <2> SUFFICES ASSUME NEW r \in Requesters, request'[r] = "done", mishaps' = 0, ~disposed'
               PROVE  asked[r].rows \subseteq Range(log) \cup dropped /\ saved >= asked[r].revision
    BY <1>1 DEF RequestHonoured, rows, snapshot
  <2>0. saved \in Nat /\ asked[r].revision \in Nat
    BY DEF HonourInv, AskedInv
  <2>1. CASE r \notin done
    BY <1>1, <1>2, <1>4, <2>1 DEF HonourInv, RequestHonoured
  <2>2. CASE r \in flight[f].covers
    <3>1. RunServes(f, r)
      BY <1>2, <2>2 DEF HonourInv, RunsServe
    <3> QED BY <1>1, <2>0, <3>1 DEF RunServes
  <2>3. CASE r \in done /\ r \notin flight[f].covers
    <3>1. ~Armed' /\ r \in waiters
      BY <1>3, <2>3
    <3>2. ~HasWork(queue)
      <4>1. ~Armed
        BY <1>1, FlusherAssumption DEF HonourInv, RowsInv, FlightInv, InFlightIsActive, TimerOnlyWhenIdle
      <4>2. mishaps' # mishaps + 1 /\ mishaps = 0
        BY <1>2
      <4>3. ~disposed /\ HasWork(queue) => Armed'
        BY <4>1, <4>2 DEF EndFlush, Schedule, Trouble
      <4> QED BY <1>1, <3>1, <4>3
    <3>3. queue = <<>> /\ revision = saved
      <4>1. ~snapshotBlocked /\ saved = written
        BY <1>2 DEF HonourInv, AskedInv
      <4> QED BY <3>2, <4>1 DEF HasWork
    <3>4. \A g \in Flights : flight[g].batch = <<>>
      BY <1>1, OthersEmpty DEF HonourInv
    <3>5. 1..enqueued \subseteq Range(log) \cup dropped
      BY <3>3, <3>4, AllWritten DEF HonourInv
    <3> QED BY <2>0, <3>3, <3>5 DEF HonourInv, AskedInv
  <2> QED BY <2>1, <2>2, <2>3
<1> QED BY <1>5, <1>6, <1>7 DEF HonourInv

\* The steps that move a run on.
LEMMA HonourMoves ==
  ASSUME HonourInv, RowsInv', Grows, NEW f \in Flights, Moves(f)
  PROVE  HonourInv'
<1>1. PICK at \in {"lock", "absorb", "rows", "end"} : Goto(f, at)
  BY MovesGo
<1>2. /\ flight[f].pc \in {"ready", "lock", "absorb", "save", "rows"} /\ UNCHANGED rows /\ Stays
      /\ mishaps' = mishaps \/ mishaps' = mishaps + 1
  BY MovesGo
<1>3. at \in FlightPC /\ Shape
  BY DEF FlightPC, HonourInv, RowsInv, FlightInv
<1>4. /\ flight'[f].pc = at
      /\ \A g \in Flights : /\ g # f => flight'[g].pc = flight[g].pc
                            /\ flight'[g].covers = flight[g].covers
                            /\ flight'[g].batch = flight[g].batch
  BY <1>1, <1>3, GotoFields
<1>5. /\ mishaps \in Nat /\ saved \in Nat /\ revision \in Nat /\ saved = written /\ saved <= revision
      /\ flight[f].revision \in Nat /\ \A r \in Requesters : asked[r].revision \in Nat /\ asked[r].revision <= revision
      /\ flight[f].covers \subseteq Requesters
      /\ flight[f].pc = "save" => saved <= flight[f].revision /\ flight[f].revision <= revision
  BY <1>3 DEF HonourInv, AskedInv, RowsInv, RowsShape, Shape, Flight
<1>6. /\ UNCHANGED <<saved, written>> \/ (Save(f) /\ saved' = flight[f].revision /\ written' = saved')
      /\ revision' = revision
  BY DEF Moves, BeginFlush, GetLock, LockBusy, AbsorbSkips, Save, SaveFails, NoMoreRows, snapshot
<1>7. saved' = written' /\ saved <= saved' /\ saved' \in Nat /\ saved' <= revision'
  BY <1>5, <1>6 DEF Save, At
<1>8. snapshotBlocked' => mishaps' > 0
  <2>1. snapshotBlocked' => snapshotBlocked \/ mishaps' = mishaps + 1
    BY DEF Moves, BeginFlush, GetLock, LockBusy, AbsorbSkips, Save, SaveFails, NoMoreRows, snapshot, Trouble
  <2>2. snapshotBlocked => mishaps > 0
    BY DEF HonourInv, AskedInv
  <2> QED BY <1>2, <1>5, <2>1, <2>2
<1>9. ASSUME mishaps' = 0, NEW r \in flight[f].covers PROVE RunServes(f, r)'
  <2>1. mishaps = 0 /\ ~snapshotBlocked /\ RunServes(f, r) /\ r \in Requesters
    BY <1>2, <1>5, <1>9 DEF HonourInv, AskedInv, RunsServe
  <2>2. asked' = asked
    BY <1>2 DEF Stays, promises
  <2>3. ~LockBusy(f) /\ ~AbsorbSkips(f) /\ ~SaveFails(f)
    BY <1>5, <1>9 DEF LockBusy, AbsorbSkips, SaveFails, Trouble
  <2>4. CASE BeginFlush(f)
    <3>1. at = IF revision # written THEN "lock" ELSE "rows"
      BY <1>1, <1>3, <1>4, <2>1, <2>4 DEF BeginFlush, Goto, Shape, Flight
    <3> QED BY <1>4, <1>5, <1>7, <2>1, <2>2, <3>1 DEF RunServes
  <2>5. CASE GetLock(f)
    <3>1. at = "absorb"
      BY <1>3, <1>4, <2>5 DEF GetLock, Goto, Shape, Flight
    <3> QED BY <1>4, <3>1 DEF RunServes
  <2>6. CASE Save(f)
    <3>1. at = "rows" /\ flight[f].pc = "save" /\ saved' = flight[f].revision
      BY <1>3, <1>4, <2>6 DEF Save, At, Goto, Shape, Flight
    <3> QED BY <1>4, <2>1, <2>2, <3>1 DEF RunServes
  <2>7. CASE NoMoreRows(f)
    <3>1. at = "end" /\ flight[f].pc = "rows" /\ queue = <<>>
      BY <1>3, <1>4, <2>7 DEF NoMoreRows, At, Goto, Shape, Flight
    <3>2. flight[f].batch = <<>>
      BY <3>1 DEF HonourInv, RowsInv, RowsShape
    <3>3. \A g \in Flights : flight[g].batch = <<>>
      BY <3>1, <3>2, OthersEmpty DEF HonourInv
    <3>4. 1..enqueued \subseteq Range(log) \cup dropped
      BY <3>1, <3>3, AllWritten DEF HonourInv
    <3>5. asked[r].rows \subseteq 1..enqueued
      BY <2>1 DEF HonourInv, AskedInv
    <3>6. UNCHANGED <<log, dropped, saved>>
      BY <1>2, <2>7 DEF rows, NoMoreRows, snapshot
    <3> QED BY <1>4, <2>1, <2>2, <3>1, <3>4, <3>5, <3>6 DEF RunServes
  <2> QED BY <2>3, <2>4, <2>5, <2>6, <2>7 DEF Moves
<1>10. flight'[f].pc # "save" /\ flight[f].pc # "idle"
  BY <1>2, <1>4
<1> QED BY <1>2, <1>4, <1>7, <1>8, <1>9, <1>10, HonourServes

\* What a merge brings in is part of what the run is about to save.
LEMMA HonourAbsorb ==
  ASSUME HonourInv, RowsInv', Grows, NEW f \in Flights, Absorb(f)
  PROVE  HonourInv'
<1>1. /\ flight[f].pc = "absorb" /\ flight'[f].pc = "save" /\ flight'[f].revision = revision'
      /\ flight'[f].covers = flight[f].covers
      /\ \A g \in Flights : g # f => flight'[g] = flight[g]
  BY AbsorbFields DEF HonourInv
<1>2. UNCHANGED <<saved, written, snapshotBlocked, asked, mishaps>> /\ Stays
  BY DEF Absorb, Stays, promises
<1>3. /\ saved = written /\ saved \in Nat /\ saved <= revision /\ revision \in Nat /\ revision' \in Nat
      /\ revision <= revision' /\ \A r \in Requesters : asked[r].revision \in Nat /\ asked[r].revision <= revision
      /\ flight[f].covers \subseteq Requesters /\ mishaps \in Nat
  BY DEF HonourInv, AskedInv, RowsInv, RowsShape, FlightInv, Shape, Flight, Grows
<1>4. snapshotBlocked' => mishaps' > 0
  BY <1>2 DEF HonourInv, AskedInv
<1>5. \A r \in flight[f].covers : RunServes(f, r)'
  BY <1>1, <1>2, <1>3 DEF RunServes
<1> QED BY <1>1, <1>2, <1>3, <1>4, <1>5, HonourServes

\* The steps that write the rows.
LEMMA HonourRows ==
  ASSUME HonourInv, RowsInv', Grows, NEW f \in Flights, TakeBatch(f) \/ AppendRows(f) \/ AppendFails(f)
  PROVE  HonourInv'
<1>1. /\ flight[f].pc \in {"rows", "append"} /\ UNCHANGED snapshot /\ Stays
      /\ \E at \in {"rows", "append", "end"} : \E b : flight' = [flight EXCEPT ![f].pc = at, ![f].batch = b]
      /\ AppendFails(f) => mishaps' = mishaps + 1
  BY DEF TakeBatch, AppendRows, AppendFails, At, Trouble
<1>2. /\ flight'[f].pc \in {"rows", "append", "end"} /\ flight'[f].covers = flight[f].covers
      /\ \A g \in Flights : g # f => flight'[g].pc = flight[g].pc /\ flight'[g].covers = flight[g].covers
  BY <1>1 DEF HonourInv, RowsInv, FlightInv, Shape, Flight
<1>3. ~AppendFails(f) => flight'[f].pc # "end"
  BY DEF TakeBatch, AppendRows, HonourInv, RowsInv, FlightInv, Shape, Flight
<1>4. /\ UNCHANGED <<saved, written, snapshotBlocked, revision, asked>>
      /\ saved = written /\ saved \in Nat /\ saved <= revision /\ mishaps \in Nat /\ mishaps' \in Nat
      /\ mishaps <= mishaps' /\ flight[f].covers \subseteq Requesters
  BY <1>1 DEF HonourInv, AskedInv, RowsInv, RowsShape, FlightInv, Shape, Flight, Stays, promises, snapshot, Grows
<1>5. snapshotBlocked' => mishaps' > 0
  BY <1>4 DEF HonourInv, AskedInv
<1>6. ASSUME mishaps' = 0, NEW r \in flight[f].covers PROVE RunServes(f, r)'
  <2>1. mishaps = 0 /\ ~AppendFails(f)
    BY <1>1, <1>4, <1>6
  <2>2. RunServes(f, r)
    BY <1>6, <2>1 DEF HonourInv, RunsServe
  <2> QED BY <1>1, <1>2, <1>3, <1>4, <2>1, <2>2 DEF RunServes
<1>7. /\ flight[f].pc # "idle" /\ flight'[f].pc # "save" /\ Stays
      /\ saved' = written' /\ saved <= saved' /\ saved' \in Nat /\ saved' <= revision'
  BY <1>1, <1>2, <1>4
<1> QED BY <1>2, <1>5, <1>6, <1>7, HonourServes

\* Every step preserves the invariant.
LEMMA HonourStep == HonourInv /\ RowsInv' /\ [Next]_vars => HonourInv'
<1> SUFFICES ASSUME HonourInv, RowsInv', [Next]_vars PROVE HonourInv'
  OBVIOUS
<1>1. Grows
  BY GrowsStep DEF HonourInv
<1>2. CASE StoreChanges \/ Load \/ Enqueue \/ UNCHANGED vars
  <2>1. UNCHANGED <<flight, waiters, request, asked, saved, written, snapshotBlocked>>
    BY <1>2 DEF StoreChanges, Load, Enqueue, running, promises, snapshot, vars
  <2> QED BY <1>1, <2>1, HonourStays
<1>3. CASE TimerFires
  <2>1. UNCHANGED <<rows, snapshot, request, asked, disposed, mishaps>> /\ \E f \in Flights : StartFlush(f)
    BY <1>3 DEF TimerFires
  <2> QED BY <2>1, HonourStart
<1>4. ASSUME NEW c \in AllCallers, FlushNow(c) PROVE HonourInv'
  <2>1. UNCHANGED <<rows, snapshot, request, asked, disposed, mishaps>>
    BY <1>4 DEF FlushNow
  <2>2. CASE UNCHANGED <<running, waiters>>
    <3>1. UNCHANGED <<flight, waiters, request, asked, saved, written, snapshotBlocked>>
      BY <2>1, <2>2 DEF running, snapshot
    <3> QED BY <1>1, <3>1, HonourStays
  <2>3. CASE \E f \in Flights : StartFlush(f)
    BY <2>1, <2>3, HonourStart
  <2> QED BY <1>4, <2>2, <2>3 DEF FlushNow, FlushNowLoop
<1>5. ASSUME NEW f \in Flights, FlushSteps(f) \/ FlushFailures(f) PROVE HonourInv'
  <2>1. \/ Moves(f) \/ Absorb(f) \/ TakeBatch(f) \/ AppendRows(f) \/ AppendFails(f)
        \/ EndFlush(f)
    BY <1>5 DEF FlushSteps, FlushFailures, Moves
  <2>2. CASE Moves(f)
    BY <1>1, <2>2, HonourMoves
  <2>3. CASE Absorb(f)
    BY <1>1, <2>3, HonourAbsorb
  <2>4. CASE TakeBatch(f) \/ AppendRows(f) \/ AppendFails(f)
    BY <1>1, <2>4, HonourRows
  <2>5. CASE EndFlush(f)
    BY <2>5, HonourEnd
  <2> QED BY <2>1, <2>2, <2>3, <2>4, <2>5
<1> QED BY <1>2, <1>3, <1>4, <1>5, HonourRequest, HonourDispose DEF Next

\* Nobody has asked for anything at first.
LEMMA HonourInit == Init => HonourInv
<1> SUFFICES ASSUME Init PROVE HonourInv
  OBVIOUS
<1>1. RowsInv
  BY RowsInit
<1>2. PICK none : none = [rows |-> {}, revision |-> 0]
  OBVIOUS
<1>3. none \in [rows : SUBSET Nat, revision : Nat] /\ none.rows = {} /\ none.revision = 0
  BY <1>2
<1>4. \A r \in Requesters : asked[r] = none
  BY <1>2 DEF Init
<1>5. asked \in [Requesters -> [rows : SUBSET Nat, revision : Nat]]
  BY <1>2, <1>3 DEF Init
<1>6. \A f \in Flights : flight[f].pc = "idle" /\ flight[f].covers = {}
  BY DEF Init, Idle, Run
<1>7. AskedInv
  BY <1>3, <1>4, <1>5, <1>6 DEF Init, AskedInv
<1> QED BY <1>1, <1>6, <1>7 DEF Init, HonourInv, RunsServe, RequestHonoured

\* For any number of callers, rows and failures the decision log gets every row that was not
\* trimmed at the queue limit, in the order of enqueue and once, but for the rows an append that
\* failed half-way had written, and a requestFlush promise resolves early only when something
\* failed or the flusher is disposed of (doFlush, trimQueue, releaseWaiters).
THEOREM RowsAreKept == Spec => []RowsKept
<1>1. Init => FlightInv /\ RowsInv /\ HonourInv
  BY FlightInit, RowsInit, HonourInit
<1>2. (FlightInv /\ RowsInv /\ HonourInv) /\ [Next]_vars => (FlightInv /\ RowsInv /\ HonourInv)'
  BY FlightStep, RowsStep, HonourStep
<1>3. FlightInv /\ RowsInv /\ HonourInv => RowsKept
  BY OrderFollows DEF RowsKept, RowsInv, HonourInv
<1> QED BY <1>1, <1>2, <1>3, PTL DEF Spec

-----------------------------------------------------------------------------
(* The steps and the books of a directory (Ingest). *)

Scores == {"none", "pass", "fail", "half pass", "half fail", "refusal"}

Fold == [attempt : Registrations, steps : Seq(Nat)]

SignalKinds == {"authority", "budget", "incomplete", "run", "grader", "verdict"}

StoreType ==
  [open : [Registrations -> Seq(Nat)], idle : SUBSET Registrations, closed : SUBSET Registrations,
   scored : [Registrations -> Scores], renewed : BOOLEAN, folded : Seq(Fold),
   counts : [pass : Int, fail : Int, refusals : Int],
   rows : [pass : Int, fail : Int, refusals : Int, overrides : Int, unverifiable : Int],
   signals : Seq(Registrations \X SignalKinds)]

HeldStep == [dir : Dirs, attempt : Registrations, step : Nat, idle : BOOLEAN]

Slot == [attempt : Registrations, outcomes : BOOLEAN, run : Nat, idle : BOOLEAN, from : Nat,
         noted : SUBSET Nat, ended : BOOLEAN]

InstanceType ==
  [settings : Dirs \union {Off}, holds : Dirs \union {Nil}, recorder : Dirs \union {Nil},
   owned : SUBSET (Dirs \X Registrations), disposed : BOOLEAN]

\* seen and signalled are sets of keys of several kinds.
WorldType(w) ==
  w \in [slot : Slot \union {Nil}, seen : {w.seen}, seenEnds : SUBSET Nat, held : SUBSET HeldStep,
         signalled : {w.signalled}, last : [Dirs -> Registrations \union {0}],
         scored : [Registrations -> {"none", "pass", "fail", "refusal"}],
         store : [Dirs -> StoreType], inst : [Instances -> InstanceType]]

\* The event e is a step of a run of attempt a, or was still to take when a was registered.
Own(a, e) ==
  /\ e \in DOMAIN bus /\ a \in DOMAIN attempts
  /\ bus[e].run \in attempts[a].runs \/ e \in attempts[a].late

StepSet(s) == {s[k] : k \in DOMAIN s}
OnceEach(s) == \A j, k \in DOMAIN s : s[j] = s[k] => j = k
FoldedSteps(st) == UNION {StepSet(st.folded[n].steps) : n \in DOMAIN st.folded}
OpenSteps(st) == UNION {StepSet(st.open[a]) : a \in Registrations}

\* A store has each step once, in one attempt of its run; what it has, open or folded, was seen
\* there (but for X), and a closed attempt is not open.
FoldsSound(st) ==
  /\ \A n \in DOMAIN st.folded :
       /\ OnceEach(st.folded[n].steps)
       /\ StepSet(st.folded[n].steps) \cap OpenSteps(st) = {}
       /\ \A m \in DOMAIN st.folded :
            m # n => StepSet(st.folded[m].steps) \cap StepSet(st.folded[n].steps) = {}
       /\ \A e \in StepSet(st.folded[n].steps) : Own(st.folded[n].attempt, e)
  /\ ~st.renewed => \A n \in DOMAIN st.folded :
       /\ st.folded[n].attempt \in st.closed
       /\ \A m \in DOMAIN st.folded : st.folded[m].attempt = st.folded[n].attempt => m = n

OpensSound(st) ==
  \A a \in Registrations :
    /\ OnceEach(st.open[a])
    /\ st.open[a] # <<>> => a \notin st.closed
    /\ \A b \in Registrations : b # a => StepSet(st.open[a]) \cap StepSet(st.open[b]) = {}
    /\ \A e \in StepSet(st.open[a]) : Own(a, e)

\* A held step is one, and nowhere else.
HeldSound(held, d, st) ==
  \A h \in held : h.dir = d =>
    /\ h.step \notin FoldedSteps(st) \union OpenSteps(st)
    /\ Own(h.attempt, h.step)
    /\ \A o \in held : o.dir = d /\ (o.step = h.step \/ o.attempt = h.attempt) => o = h

SeenSound(w, d, X) ==
  \A e \in FoldedSteps(w.store[d]) \union OpenSteps(w.store[d])
             \union {h.step : h \in {g \in w.held : g.dir = d}} :
    <<d, "step", e>> \in w.seen \ X

StepsSound(w, X) ==
  \A d \in Dirs :
    /\ FoldsSound(w.store[d]) /\ OpensSound(w.store[d])
    /\ HeldSound(w.held, d, w.store[d]) /\ SeenSound(w, d, X)

\* While an attempt is scored in one store that lives on, the module's own map agrees with it.
OneStoryOf(w) ==
  /\ \A d \in Dirs : ~w.store[d].renewed
  /\ \A a \in Registrations : \A d, e \in Dirs :
       "none" \notin {w.store[d].scored[a], w.store[e].scored[a]} => d = e

BooksAgree(w) ==
  OneStoryOf(w) =>
    /\ \A d \in Dirs :
         /\ w.store[d].rows.pass - w.store[d].rows.overrides = w.store[d].counts.pass
         /\ w.store[d].rows.fail + w.store[d].rows.overrides = w.store[d].counts.fail
    /\ \A a \in Registrations : w.scored[a] = "pass" <=> \E d \in Dirs : w.store[d].scored[a] \in Passed

\* A refusal that is counted has its key.
FewRefusals(w, n) ==
  n \in Int /\ n <= Cardinality({a \in Registrations : RefusalKey(a) \in w.signalled})

SignalsAreOne(w) ==
  \A d \in Dirs :
    /\ w.store[d].rows.refusals = w.store[d].counts.refusals
    /\ FewRefusals(w, w.store[d].counts.refusals)
    /\ \A n \in DOMAIN w.store[d].signals :
         /\ SignalKey(d, w.store[d].signals[n][1], w.store[d].signals[n][2]) \in w.signalled
         /\ \A m \in DOMAIN w.store[d].signals :
              w.store[d].signals[m] = w.store[d].signals[n] => m = n

BooksSound(w) == BooksAgree(w) /\ SignalsAreOne(w)

Good(w, X) == WorldType(w) /\ StepsSound(w, X) /\ BooksSound(w)

Stages == {"no", "return", "run", "refusal", "verdict"}

ChildType ==
  [n : Nat, live : BOOLEAN, steps : Nat, due : [Registrations -> Stages], gone : BOOLEAN]

AttemptType == [runs : SUBSET Nat, clean : BOOLEAN, late : SUBSET Nat]

\* Attempts are counted by the runs and the corrections.
AttemptsBounded ==
  /\ scenario \in Scenarios /\ run \in ChildType
  /\ attempts \in Seq(AttemptType)
  /\ troubles \in Nat /\ troubles <= scenario.troubles
  /\ 1 <= run.n /\ run.n <= scenario.runs
  /\ Len(attempts) <= run.n + troubles
  /\ attempts = <<>> => run.n = 1
  /\ attempts # <<>> => run.n \in attempts[Len(attempts)].runs

EventKinds == {"step", "final", "failed", "end", "gone", "idle"}

Event == [kind : EventKinds, run : Nat]

\* The step an instance prices belongs to the attempt it looked up.
PricedOwn(h) ==
  h # Nil => h \in [step : Nat, attempt : Registrations, wait : {h.wait}] /\ Own(h.attempt, h.step)

\* What an instance that records has not taken yet belongs to the latest attempt.
PendingOwn(i) ==
  ~world.inst[i].disposed /\ settings(world, i) # Off /\ attempts # <<>> =>
    \A e \in DOMAIN bus : bus[e].kind \in StepKinds /\ e > pos[i] => Own(Len(attempts), e)

StepsOnTheirWay ==
  /\ bus \in Seq(Event)
  /\ attempts = <<>> => \A e \in DOMAIN bus : bus[e].run = 1
  /\ pos \in [Instances -> Nat]
  /\ handling = [i \in Instances |-> handling[i]]
  /\ world.slot # Nil => world.slot.attempt = Len(attempts)
  /\ \A i \in Instances : PricedOwn(handling[i]) /\ PendingOwn(i)

IngestInv == Good(world, {}) /\ AttemptsBounded /\ StepsOnTheirWay

\* More keys allow more refusals.
LEMMA RefusalsFinite ==
  ASSUME NEW w
  PROVE  /\ IsFiniteSet({a \in Registrations : RefusalKey(a) \in w.signalled})
         /\ Cardinality({a \in Registrations : RefusalKey(a) \in w.signalled}) \in Nat
<1>1. PICK R : R = {a \in Registrations : RefusalKey(a) \in w.signalled}
  OBVIOUS
<1>2. IsFiniteSet(Registrations)
  BY FS_Interval, IngestAssumption DEF Registrations
<1>3. R \subseteq Registrations
  BY <1>1
<1>4. IsFiniteSet(R) /\ Cardinality(R) \in Nat
  BY <1>2, <1>3, FS_Subset, FS_CardinalityType
<1> QED BY <1>1, <1>4

LEMMA FewMore ==
  ASSUME NEW w, NEW v, w.signalled \subseteq v.signalled, NEW n, FewRefusals(w, n)
  PROVE  FewRefusals(v, n)
<1>1. PICK R, S : /\ R = {a \in Registrations : RefusalKey(a) \in w.signalled}
                  /\ S = {a \in Registrations : RefusalKey(a) \in v.signalled}
  OBVIOUS
<1>2. IsFiniteSet(S) /\ Cardinality(R) \in Nat /\ Cardinality(S) \in Nat
  BY <1>1, RefusalsFinite
<1>3. R \subseteq S
  BY <1>1
<1>4. Cardinality(R) <= Cardinality(S)
  BY <1>2, <1>3, FS_Subset
<1>5. n \in Int /\ n <= Cardinality(R)
  BY <1>1 DEF FewRefusals
<1> QED BY <1>1, <1>2, <1>4, <1>5 DEF FewRefusals

LEMMA FewOneMore ==
  ASSUME NEW w, NEW v, NEW a \in Registrations, RefusalKey(a) \notin w.signalled,
         v.signalled = w.signalled \union {RefusalKey(a)}, NEW n, FewRefusals(w, n)
  PROVE  FewRefusals(v, n + 1)
<1>1. PICK R, S : /\ R = {b \in Registrations : RefusalKey(b) \in w.signalled}
                  /\ S = {b \in Registrations : RefusalKey(b) \in v.signalled}
  OBVIOUS
<1>2. IsFiniteSet(R) /\ Cardinality(R) \in Nat /\ Cardinality(S) \in Nat
  BY <1>1, RefusalsFinite
<1>3. S = R \union {a} /\ a \notin R
  BY <1>1 DEF RefusalKey
<1>4. Cardinality(S) = Cardinality(R) + 1
  BY <1>2, <1>3, FS_AddElement
<1>5. n \in Int /\ n <= Cardinality(R)
  BY <1>1 DEF FewRefusals
<1> QED BY <1>1, <1>2, <1>4, <1>5 DEF FewRefusals

\* What is not a step's place or a book's entry may change.
LEMMA GoodAside ==
  ASSUME NEW w, NEW v, NEW X, Good(w, X), WorldType(v),
         v.store = w.store, v.held \subseteq w.held, w.seen \subseteq v.seen,
         v.scored = w.scored, w.signalled \subseteq v.signalled
  PROVE  Good(v, X)
<1>1. StepsSound(v, X)
  <2>1. ASSUME NEW d \in Dirs PROVE HeldSound(v.held, d, v.store[d]) /\ SeenSound(v, d, X)
    <3>1. HeldSound(w.held, d, w.store[d]) /\ SeenSound(w, d, X)
      BY DEF Good, StepsSound
    <3> QED BY <3>1 DEF HeldSound, SeenSound
  <2> QED BY <2>1 DEF Good, StepsSound
<1>2. BooksSound(v)
  <2>1. BooksAgree(w) /\ SignalsAreOne(w)
    BY DEF Good, BooksSound
  <2>2. BooksAgree(v)
    BY <2>1 DEF BooksAgree, OneStoryOf
  <2>3. \A n : FewRefusals(w, n) => FewRefusals(v, n)
    BY FewMore
  <2>4. SignalsAreOne(v)
    BY <2>1, <2>3 DEF SignalsAreOne
  <2> QED BY <2>2, <2>4 DEF BooksSound
<1> QED BY <1>1, <1>2 DEF Good

\* Steps that move within a store or arrive there from those held for it.
LEMMA GoodMoves ==
  ASSUME NEW w, NEW v, NEW X, Good(w, X), WorldType(v), NEW d \in Dirs, NEW due \in SUBSET w.held,
         \A h \in due : h.dir = d,
         v.held = w.held \ due, v.seen = w.seen, v.scored = w.scored, v.signalled = w.signalled,
         \A o \in Dirs \ {d} : v.store[o] = w.store[o],
         v.store[d].scored = w.store[d].scored, v.store[d].renewed = w.store[d].renewed,
         v.store[d].counts = w.store[d].counts, v.store[d].rows = w.store[d].rows,
         v.store[d].signals = w.store[d].signals,
         FoldsSound(v.store[d]), OpensSound(v.store[d]),
         FoldedSteps(v.store[d]) \union OpenSteps(v.store[d])
           \subseteq FoldedSteps(w.store[d]) \union OpenSteps(w.store[d]) \union {h.step : h \in due}
  PROVE  Good(v, X)
<1>1. StepsSound(v, X)
  <2>1. ASSUME NEW o \in Dirs
        PROVE  /\ FoldsSound(v.store[o]) /\ OpensSound(v.store[o])
               /\ HeldSound(v.held, o, v.store[o]) /\ SeenSound(v, o, X)
    <3>1. /\ FoldsSound(w.store[o]) /\ OpensSound(w.store[o])
          /\ HeldSound(w.held, o, w.store[o]) /\ SeenSound(w, o, X)
      BY DEF Good, StepsSound
    <3>2. CASE o # d
      BY <3>1, <3>2 DEF HeldSound, SeenSound
    <3>3. CASE o = d
      <4>1. HeldSound(v.held, d, v.store[d])
        <5>1. ASSUME NEW h \in v.held, h.dir = d
              PROVE  /\ h.step \notin FoldedSteps(v.store[d]) \union OpenSteps(v.store[d])
                     /\ Own(h.attempt, h.step)
                     /\ \A e \in v.held : e.dir = d /\ (e.step = h.step \/ e.attempt = h.attempt) => e = h
          BY <3>1, <3>3, <5>1 DEF HeldSound
        <5> QED BY <5>1 DEF HeldSound
      <4>2. SeenSound(v, d, X)
        BY <3>1, <3>3 DEF SeenSound
      <4> QED BY <3>3, <4>1, <4>2
    <3> QED BY <3>2, <3>3
  <2> QED BY <2>1 DEF StepsSound
<1>2. BooksSound(v)
  <2>1. \A o \in Dirs : /\ v.store[o].scored = w.store[o].scored /\ v.store[o].renewed = w.store[o].renewed
                        /\ v.store[o].counts = w.store[o].counts /\ v.store[o].rows = w.store[o].rows
                        /\ v.store[o].signals = w.store[o].signals
    OBVIOUS
  <2>2. OneStoryOf(v) => OneStoryOf(w)
    BY <2>1 DEF OneStoryOf
  <2>3. BooksAgree(v)
    BY <2>1, <2>2 DEF Good, BooksSound, BooksAgree
  <2>4. \A n : FewRefusals(w, n) => FewRefusals(v, n)
    BY FewMore
  <2>5. SignalsAreOne(v)
    BY <2>1, <2>4 DEF Good, BooksSound, SignalsAreOne
  <2> QED BY <2>3, <2>5 DEF BooksSound
<1> QED BY <1>1, <1>2 DEF Good

LEMMA StoredIs ==
  ASSUME NEW w, WorldType(w), NEW d \in Dirs, NEW st \in StoreType
  PROVE  /\ WorldType(Stored(w, d, st)) /\ Stored(w, d, st).store[d] = st
         /\ \A o \in Dirs \ {d} : Stored(w, d, st).store[o] = w.store[o]
         /\ Stored(w, d, st).held = w.held /\ Stored(w, d, st).seen = w.seen
         /\ Stored(w, d, st).scored = w.scored /\ Stored(w, d, st).signalled = w.signalled
         /\ Stored(w, d, st).inst = w.inst /\ Stored(w, d, st).slot = w.slot
         /\ Stored(w, d, st).last = w.last /\ Stored(w, d, st).seenEnds = w.seenEnds
BY DEF WorldType, Stored

LEMMA AcquiredIs ==
  ASSUME NEW w, WorldType(w), NEW i \in Instances, NEW d \in Dirs \union {Nil},
         NEW v, v = Acquired(w, i, d)
  PROVE  /\ WorldType(v) /\ \A j \in Instances : settings(v, j) = settings(w, j)
         /\ v.store = w.store /\ v.held = w.held /\ v.seen = w.seen /\ v.scored = w.scored
         /\ v.signalled = w.signalled /\ v.slot = w.slot /\ v.last = w.last /\ v.seenEnds = w.seenEnds
         /\ v.inst[i].owned = w.inst[i].owned /\ v.inst[i].holds = d
<1>1. PICK n : n = [w.inst[i] EXCEPT !.holds = d]
  OBVIOUS
<1>2. n \in InstanceType /\ n.settings = w.inst[i].settings /\ n.owned = w.inst[i].owned /\ n.holds = d
  BY <1>1 DEF WorldType, InstanceType
<1>3. v = [w EXCEPT !.inst = [w.inst EXCEPT ![i] = n]]
  BY <1>1 DEF Acquired, WorldType
<1>4. /\ WorldType(v) /\ v.inst[i] = n /\ \A j \in Instances \ {i} : v.inst[j] = w.inst[j]
      /\ v.store = w.store /\ v.held = w.held /\ v.seen = w.seen /\ v.scored = w.scored
      /\ v.signalled = w.signalled /\ v.slot = w.slot /\ v.last = w.last /\ v.seenEnds = w.seenEnds
  BY <1>2, <1>3 DEF WorldType
<1> QED BY <1>2, <1>4 DEF settings

\* Two sequences, one after the other.
LEMMA JoinedIs ==
  ASSUME NEW S, NEW s \in Seq(S), NEW t \in Seq(S), NEW u, u = s \o t
  PROVE  /\ u \in Seq(S) /\ Len(s) \in Nat /\ Len(t) \in Nat
         /\ DOMAIN s = 1..Len(s) /\ DOMAIN t = 1..Len(t) /\ DOMAIN u = 1..(Len(s) + Len(t))
         /\ \A k \in 1..Len(s) : u[k] = s[k]
         /\ \A k \in 1..Len(t) : u[Len(s) + k] = t[k]
         /\ \A k \in DOMAIN u :
              \/ k \in 1..Len(s) /\ u[k] = s[k]
              \/ k - Len(s) \in 1..Len(t) /\ k \notin 1..Len(s) /\ u[k] = t[k - Len(s)]
<1>1. /\ u \in Seq(S) /\ Len(u) = Len(s) + Len(t)
      /\ \A k \in 1..(Len(s) + Len(t)) : u[k] = IF k <= Len(s) THEN s[k] ELSE t[k - Len(s)]
  BY ConcatProperties
<1>2. Len(s) \in Nat /\ Len(t) \in Nat /\ DOMAIN s = 1..Len(s) /\ DOMAIN t = 1..Len(t) /\ DOMAIN u = 1..Len(u)
  BY <1>1
<1>3. \A k \in 1..Len(s) : u[k] = s[k]
  BY <1>1, <1>2
<1>4. \A k \in 1..Len(t) : u[Len(s) + k] = t[k]
  <2>1. ASSUME NEW k \in 1..Len(t) PROVE u[Len(s) + k] = t[k]
    <3>1. Len(s) + k \in 1..(Len(s) + Len(t)) /\ ~(Len(s) + k <= Len(s)) /\ Len(s) + k - Len(s) = k
      BY <1>2
    <3> QED BY <1>1, <3>1
  <2> QED BY <2>1
<1>5. ASSUME NEW k \in DOMAIN u
      PROVE  \/ k \in 1..Len(s) /\ u[k] = s[k]
             \/ k - Len(s) \in 1..Len(t) /\ k \notin 1..Len(s) /\ u[k] = t[k - Len(s)]
  <2>1. k \in 1..(Len(s) + Len(t))
    BY <1>1, <1>2
  <2>2. CASE k <= Len(s)
    BY <1>1, <1>2, <2>1, <2>2
  <2>3. CASE ~(k <= Len(s))
    <3>1. k - Len(s) \in 1..Len(t) /\ k \notin 1..Len(s)
      BY <1>2, <2>1, <2>3
    <3> QED BY <1>1, <2>1, <2>3, <3>1
  <2> QED BY <2>2, <2>3
<1> QED BY <1>1, <1>2, <1>3, <1>4, <1>5

LEMMA StepsJoined ==
  ASSUME NEW s \in Seq(Nat), NEW t \in Seq(Nat)
  PROVE  /\ s \o t \in Seq(Nat) /\ StepSet(s \o t) = StepSet(s) \union StepSet(t)
         /\ OnceEach(s) /\ OnceEach(t) /\ StepSet(s) \cap StepSet(t) = {} => OnceEach(s \o t)
<1>1. PICK u : u = s \o t
  OBVIOUS
<1>2. PICK m, n : m = Len(s) /\ n = Len(t)
  BY Zenon
<1>3. /\ u \in Seq(Nat) /\ m \in Nat /\ n \in Nat
      /\ DOMAIN s = 1..m /\ DOMAIN t = 1..n /\ DOMAIN u = 1..(m + n)
      /\ \A k \in 1..m : u[k] = s[k]
      /\ \A k \in 1..n : u[m + k] = t[k]
      /\ \A k \in DOMAIN u :
           \/ k \in 1..m /\ u[k] = s[k]
           \/ k - m \in 1..n /\ k \notin 1..m /\ u[k] = t[k - m]
  BY <1>1, <1>2, JoinedIs, SMT
<1> HIDE <1>1, <1>2
<1>4. StepSet(u) = StepSet(s) \union StepSet(t)
  <2>1. \A k \in DOMAIN u : u[k] \in StepSet(s) \union StepSet(t)
    BY <1>3 DEF StepSet
  <2>2. \A k \in DOMAIN s : k \in DOMAIN u /\ u[k] = s[k]
    BY <1>3
  <2>3. \A k \in DOMAIN t : m + k \in DOMAIN u /\ u[m + k] = t[k]
    BY <1>3
  <2>4. StepSet(s) \subseteq StepSet(u)
    BY <2>2, Zenon DEF StepSet
  <2>5. StepSet(t) \subseteq StepSet(u)
    <3>1. ASSUME NEW k \in DOMAIN t PROVE t[k] \in StepSet(u)
      BY <2>3 DEF StepSet
    <3> QED BY <3>1 DEF StepSet
  <2>6. StepSet(u) \subseteq StepSet(s) \union StepSet(t)
    BY <2>1 DEF StepSet
  <2> QED BY <2>4, <2>5, <2>6
<1>5. ASSUME OnceEach(s), OnceEach(t), StepSet(s) \cap StepSet(t) = {},
             NEW j \in DOMAIN u, NEW k \in DOMAIN u, u[j] = u[k]
      PROVE  j = k
  <2>1. CASE j \in 1..m /\ k \in 1..m /\ u[j] = s[j] /\ u[k] = s[k]
    BY <1>3, <1>5, <2>1 DEF OnceEach
  <2>2. CASE j - m \in 1..n /\ k - m \in 1..n /\ u[j] = t[j - m] /\ u[k] = t[k - m]
    <3>1. j - m = k - m
      BY <1>3, <1>5, <2>2 DEF OnceEach
    <3>2. j \in Int /\ k \in Int
      BY <1>3
    <3> QED BY <1>3, <3>1, <3>2
  <2>3. CASE j \in 1..m /\ k - m \in 1..n /\ u[j] = s[j] /\ u[k] = t[k - m]
    <3>1. s[j] \in StepSet(s) /\ t[k - m] \in StepSet(t)
      BY <1>3, <2>3 DEF StepSet
    <3> QED BY <1>5, <2>3, <3>1
  <2>4. CASE j - m \in 1..n /\ k \in 1..m /\ u[j] = t[j - m] /\ u[k] = s[k]
    <3>1. s[k] \in StepSet(s) /\ t[j - m] \in StepSet(t)
      BY <1>3, <2>4 DEF StepSet
    <3> QED BY <1>5, <2>4, <3>1
  <2> QED BY <1>3, <2>1, <2>2, <2>3, <2>4
<1>6. OnceEach(s) /\ OnceEach(t) /\ StepSet(s) \cap StepSet(t) = {} => OnceEach(u)
  BY <1>5 DEF OnceEach
<1> QED BY <1>1, <1>3, <1>4, <1>6

\* Steps that are nowhere in the store.
NewSteps(st, s, a) ==
  /\ s \in Seq(Nat) /\ OnceEach(s)
  /\ StepSet(s) \cap (FoldedSteps(st) \union OpenSteps(st)) = {}
  /\ \A e \in StepSet(s) : Own(a, e)

StepsIn(st) == FoldedSteps(st) \union OpenSteps(st)

\* F folds the attempts of A, each with more[a] after what it has open.
FoldsOf(st, A, more, F) ==
  /\ A \in SUBSET (Registrations \ st.closed)
  /\ \A a \in A : NewSteps(st, more[a], a)
  /\ \A a, b \in A : a # b => StepSet(more[a]) \cap StepSet(more[b]) = {}
  /\ F \in Seq(Fold)
  /\ \A n \in DOMAIN F : F[n].attempt \in A /\ F[n].steps = st.open[F[n].attempt] \o more[F[n].attempt]
  /\ \A m, n \in DOMAIN F : F[m].attempt = F[n].attempt => m = n

Folded(v, st, A, F) ==
  /\ v.folded = st.folded \o F /\ v.closed = st.closed \union A /\ v.renewed = st.renewed
  /\ \A a \in Registrations : v.open[a] = IF a \in A THEN <<>> ELSE st.open[a]

LEMMA StoreFolds ==
  ASSUME NEW st \in StoreType, FoldsSound(st), OpensSound(st),
         NEW A, NEW more, NEW F, FoldsOf(st, A, more, F), NEW v \in StoreType, Folded(v, st, A, F)
  PROVE  /\ FoldsSound(v) /\ OpensSound(v)
         /\ StepsIn(v) \subseteq StepsIn(st) \union UNION {StepSet(more[a]) : a \in A}
<1> USE DEF FoldsOf, Folded, StepsIn
<1>1. /\ st.folded \in Seq(Fold) /\ Len(st.folded) \in Nat /\ Len(F) \in Nat
      /\ DOMAIN st.folded = 1..Len(st.folded) /\ DOMAIN F = 1..Len(F)
      /\ DOMAIN v.folded = 1..(Len(st.folded) + Len(F))
      /\ \A n \in DOMAIN v.folded :
           \/ n \in DOMAIN st.folded /\ v.folded[n] = st.folded[n]
           \/ n \notin DOMAIN st.folded /\ n - Len(st.folded) \in DOMAIN F /\ v.folded[n] = F[n - Len(st.folded)]
  <2>1. st.folded \in Seq(Fold)
    BY DEF StoreType
  <2> QED BY <2>1, JoinedIs
<1>2. \A a \in Registrations : st.open[a] \in Seq(Nat)
  BY DEF StoreType
<1>3. \A n \in DOMAIN F :
        /\ F[n].attempt \in A /\ F[n].attempt \in Registrations
        /\ OnceEach(F[n].steps)
        /\ StepSet(F[n].steps) = StepSet(st.open[F[n].attempt]) \union StepSet(more[F[n].attempt])
  <2>1. ASSUME NEW n \in DOMAIN F
        PROVE  /\ OnceEach(F[n].steps)
               /\ StepSet(F[n].steps) = StepSet(st.open[F[n].attempt]) \union StepSet(more[F[n].attempt])
    <3>1. PICK a \in A : a = F[n].attempt
      OBVIOUS
    <3>2. /\ st.open[a] \in Seq(Nat) /\ more[a] \in Seq(Nat) /\ OnceEach(st.open[a]) /\ OnceEach(more[a])
          /\ StepSet(st.open[a]) \cap StepSet(more[a]) = {}
      <4>1. a \in Registrations /\ NewSteps(st, more[a], a)
        OBVIOUS
      <4>2. st.open[a] \in Seq(Nat) /\ StepSet(st.open[a]) \subseteq OpenSteps(st)
        BY <1>2, <4>1 DEF OpenSteps
      <4>3. OnceEach(st.open[a])
        BY <4>1 DEF OpensSound
      <4> QED BY <4>1, <4>2, <4>3 DEF NewSteps
    <3>3. F[n].steps = st.open[a] \o more[a]
      BY <3>1
    <3>4. /\ StepSet(st.open[a] \o more[a]) = StepSet(st.open[a]) \union StepSet(more[a])
          /\ OnceEach(st.open[a] \o more[a])
      BY <3>2, StepsJoined
    <3> QED BY <3>1, <3>3, <3>4
  <2> QED BY <2>1
<1>4. \A n \in DOMAIN F : StepSet(F[n].steps) \cap FoldedSteps(st) = {}
  <2>1. ASSUME NEW n \in DOMAIN F PROVE StepSet(F[n].steps) \cap FoldedSteps(st) = {}
    <3>1. StepSet(more[F[n].attempt]) \cap FoldedSteps(st) = {}
      BY DEF NewSteps
    <3>2. StepSet(st.open[F[n].attempt]) \subseteq OpenSteps(st)
      BY <1>3 DEF OpenSteps
    <3>3. OpenSteps(st) \cap FoldedSteps(st) = {}
      BY DEF FoldsSound, FoldedSteps
    <3> QED BY <1>3, <3>1, <3>2, <3>3
  <2> QED BY <2>1
<1>5. \A m, n \in DOMAIN F : m # n => StepSet(F[m].steps) \cap StepSet(F[n].steps) = {}
  <2>1. ASSUME NEW m \in DOMAIN F, NEW n \in DOMAIN F, m # n
        PROVE  StepSet(F[m].steps) \cap StepSet(F[n].steps) = {}
    <3>1. PICK a \in A : a = F[m].attempt
      OBVIOUS
    <3>4. PICK b \in A : b = F[n].attempt
      OBVIOUS
    <3>5. a # b
      BY <2>1, <3>1, <3>4
    <3>2. /\ StepSet(more[a]) \cap StepSet(more[b]) = {}
          /\ StepSet(more[a]) \cap OpenSteps(st) = {} /\ StepSet(more[b]) \cap OpenSteps(st) = {}
          /\ StepSet(st.open[a]) \cap StepSet(st.open[b]) = {}
          /\ StepSet(st.open[a]) \subseteq OpenSteps(st) /\ StepSet(st.open[b]) \subseteq OpenSteps(st)
      <4>1. StepSet(more[a]) \cap StepSet(more[b]) = {}
        BY <3>5
      <4>2. StepSet(more[a]) \cap OpenSteps(st) = {} /\ StepSet(more[b]) \cap OpenSteps(st) = {}
        BY DEF NewSteps
      <4>3. a \in Registrations /\ b \in Registrations
        OBVIOUS
      <4>4. StepSet(st.open[a]) \cap StepSet(st.open[b]) = {}
        BY <3>5, <4>3 DEF OpensSound
      <4>5. StepSet(st.open[a]) \subseteq OpenSteps(st) /\ StepSet(st.open[b]) \subseteq OpenSteps(st)
        BY <4>3 DEF OpenSteps
      <4> QED BY <4>1, <4>2, <4>4, <4>5
    <3>3. /\ StepSet(F[m].steps) = StepSet(st.open[a]) \union StepSet(more[a])
          /\ StepSet(F[n].steps) = StepSet(st.open[b]) \union StepSet(more[b])
      BY <1>3, <3>1, <3>4
    <3> QED BY <3>2, <3>3
  <2> QED BY <2>1
<1>6. \A a \in Registrations :
        StepSet(v.open[a]) = IF a \in A THEN {} ELSE StepSet(st.open[a])
  BY DEF StepSet
<1>7. OpenSteps(v) \subseteq OpenSteps(st)
        /\ \A a \in A : StepSet(st.open[a]) \cap OpenSteps(v) = {}
  <2>1. OpenSteps(v) \subseteq OpenSteps(st)
    BY <1>6 DEF OpenSteps
  <2>2. ASSUME NEW a \in A, NEW e \in StepSet(st.open[a]), e \in OpenSteps(v) PROVE FALSE
    <3>1. PICK b \in Registrations : e \in StepSet(v.open[b])
      BY <2>2 DEF OpenSteps
    <3>2. b \notin A /\ e \in StepSet(st.open[b])
      BY <1>6, <3>1
    <3>3. a \in Registrations /\ a # b
      BY <3>2
    <3>4. StepSet(st.open[a]) \cap StepSet(st.open[b]) = {}
      BY <3>3 DEF OpensSound
    <3> QED BY <2>2, <3>2, <3>4
  <2> QED BY <2>1, <2>2
<1>8. \A n \in DOMAIN F : StepSet(F[n].steps) \cap OpenSteps(v) = {}
  <2>1. ASSUME NEW n \in DOMAIN F PROVE StepSet(F[n].steps) \cap OpenSteps(v) = {}
    <3>1. PICK a \in A : a = F[n].attempt
      OBVIOUS
    <3>2. StepSet(F[n].steps) = StepSet(st.open[a]) \union StepSet(more[a])
      BY <1>3, <3>1
    <3>3. StepSet(more[a]) \cap OpenSteps(st) = {}
      BY DEF NewSteps
    <3> QED BY <1>7, <3>2, <3>3
  <2> QED BY <2>1
<1>9. FoldedSteps(v) \subseteq FoldedSteps(st) \union UNION {StepSet(F[n].steps) : n \in DOMAIN F}
  BY <1>1 DEF FoldedSteps
<1>10. UNION {StepSet(F[n].steps) : n \in DOMAIN F} \subseteq OpenSteps(st) \union UNION {StepSet(more[a]) : a \in A}
  <2>1. ASSUME NEW n \in DOMAIN F
        PROVE  StepSet(F[n].steps) \subseteq OpenSteps(st) \union UNION {StepSet(more[a]) : a \in A}
    <3>1. PICK a \in A : a = F[n].attempt
      OBVIOUS
    <3>2. StepSet(F[n].steps) = StepSet(st.open[a]) \union StepSet(more[a])
      BY <1>3, <3>1
    <3>3. a \in Registrations
      OBVIOUS
    <3>4. StepSet(st.open[a]) \subseteq OpenSteps(st)
      BY <3>3 DEF OpenSteps
    <3>5. StepSet(more[a]) \subseteq UNION {StepSet(more[b]) : b \in A}
      OBVIOUS
    <3> QED BY <3>2, <3>4, <3>5
  <2> QED BY <2>1
<1>11. OpensSound(v)
  <2>1. ASSUME NEW a \in Registrations
        PROVE  /\ OnceEach(v.open[a])
               /\ v.open[a] # <<>> => a \notin v.closed
               /\ \A b \in Registrations : b # a => StepSet(v.open[a]) \cap StepSet(v.open[b]) = {}
               /\ \A e \in StepSet(v.open[a]) : Own(a, e)
    <3>1. OnceEach(<<>>)
      BY DEF OnceEach
    <3> QED BY <1>6, <3>1 DEF OpensSound
  <2> QED BY <2>1 DEF OpensSound
<1>12. ASSUME NEW n \in DOMAIN v.folded
       PROVE  /\ OnceEach(v.folded[n].steps)
              /\ StepSet(v.folded[n].steps) \cap OpenSteps(v) = {}
              /\ \A m \in DOMAIN v.folded :
                   m # n => StepSet(v.folded[m].steps) \cap StepSet(v.folded[n].steps) = {}
              /\ \A e \in StepSet(v.folded[n].steps) : Own(v.folded[n].attempt, e)
  <2>1. CASE n \in DOMAIN st.folded
    <3>1. /\ v.folded[n] = st.folded[n] /\ OnceEach(st.folded[n].steps)
          /\ StepSet(st.folded[n].steps) \cap OpenSteps(st) = {}
          /\ \A m \in DOMAIN st.folded :
               m # n => StepSet(st.folded[m].steps) \cap StepSet(st.folded[n].steps) = {}
          /\ \A e \in StepSet(st.folded[n].steps) : Own(st.folded[n].attempt, e)
          /\ StepSet(st.folded[n].steps) \subseteq FoldedSteps(st)
      <4>1. v.folded[n] = st.folded[n]
        BY <1>1, <2>1
      <4>2. StepSet(st.folded[n].steps) \subseteq FoldedSteps(st)
        BY <2>1 DEF FoldedSteps
      <4> QED BY <2>1, <4>1, <4>2 DEF FoldsSound
    <3>2. ASSUME NEW m \in DOMAIN v.folded, m # n
          PROVE  StepSet(v.folded[m].steps) \cap StepSet(v.folded[n].steps) = {}
      <4>1. CASE m \in DOMAIN st.folded /\ v.folded[m] = st.folded[m]
        BY <3>1, <3>2, <4>1
      <4>2. CASE m - Len(st.folded) \in DOMAIN F /\ v.folded[m] = F[m - Len(st.folded)]
        BY <1>4, <3>1, <4>2
      <4> QED BY <1>1, <4>1, <4>2
    <3> QED BY <1>7, <3>1, <3>2
  <2>2. CASE n \notin DOMAIN st.folded
    <3>1. PICK k \in DOMAIN F : k = n - Len(st.folded) /\ v.folded[n] = F[k]
      BY <1>1, <2>2
    <3>2. ASSUME NEW m \in DOMAIN v.folded, m # n
          PROVE  StepSet(v.folded[m].steps) \cap StepSet(v.folded[n].steps) = {}
      <4>1. CASE m \in DOMAIN st.folded /\ v.folded[m] = st.folded[m]
        <5>1. StepSet(st.folded[m].steps) \subseteq FoldedSteps(st)
          BY <4>1 DEF FoldedSteps
        <5> QED BY <1>4, <3>1, <4>1, <5>1
      <4>2. CASE m - Len(st.folded) \in DOMAIN F /\ v.folded[m] = F[m - Len(st.folded)]
        <5>1. m - Len(st.folded) # k
          BY <1>1, <3>1, <3>2
        <5> QED BY <1>5, <3>1, <4>2, <5>1
      <4> QED BY <1>1, <4>1, <4>2
    <3>3. \A e \in StepSet(F[k].steps) : Own(F[k].attempt, e)
      <4>1. PICK a \in A : a = F[k].attempt
        OBVIOUS
      <4>2. a \in Registrations /\ StepSet(F[k].steps) = StepSet(st.open[a]) \union StepSet(more[a])
        BY <1>3, <4>1
      <4>3. \A e \in StepSet(st.open[a]) : Own(a, e)
        BY <4>2 DEF OpensSound
      <4>4. \A e \in StepSet(more[a]) : Own(a, e)
        BY DEF NewSteps
      <4> QED BY <4>1, <4>2, <4>3, <4>4
    <3> QED BY <1>3, <1>8, <3>1, <3>2, <3>3
  <2> QED BY <2>1, <2>2
<1>13. ASSUME ~v.renewed, NEW n \in DOMAIN v.folded
       PROVE  /\ v.folded[n].attempt \in v.closed
              /\ \A m \in DOMAIN v.folded : v.folded[m].attempt = v.folded[n].attempt => m = n
  <2>1. \A k \in DOMAIN st.folded :
          /\ st.folded[k].attempt \in st.closed
          /\ \A m \in DOMAIN st.folded : st.folded[m].attempt = st.folded[k].attempt => m = k
    BY <1>13 DEF FoldsSound
  <2>2. \A m \in DOMAIN v.folded :
          \/ m \in DOMAIN st.folded /\ v.folded[m] = st.folded[m] /\ v.folded[m].attempt \in st.closed
          \/ /\ m - Len(st.folded) \in DOMAIN F /\ v.folded[m] = F[m - Len(st.folded)]
             /\ v.folded[m].attempt \in A
    BY <1>1, <1>3, <2>1
  <2>3. v.folded[n].attempt \in v.closed
    BY <2>2
  <2>4. ASSUME NEW m \in DOMAIN v.folded, v.folded[m].attempt = v.folded[n].attempt PROVE m = n
    <3>1. CASE n \in DOMAIN st.folded /\ v.folded[n] = st.folded[n] /\ v.folded[n].attempt \in st.closed
      BY <2>1, <2>2, <2>4, <3>1
    <3>2. CASE /\ n - Len(st.folded) \in DOMAIN F /\ v.folded[n] = F[n - Len(st.folded)]
               /\ v.folded[n].attempt \in A
      <4>1. m - Len(st.folded) \in DOMAIN F /\ v.folded[m] = F[m - Len(st.folded)]
        BY <2>2, <2>4, <3>2
      <4>2. m - Len(st.folded) = n - Len(st.folded)
        BY <2>4, <3>2, <4>1
      <4> QED BY <1>1, <4>2
    <3> QED BY <2>2, <3>1, <3>2
  <2> QED BY <2>3, <2>4
<1>14. FoldsSound(v)
  BY <1>12, <1>13 DEF FoldsSound
<1> QED BY <1>7, <1>9, <1>10, <1>11, <1>14

\* What folding leaves alone.
Kept(v, st) ==
  /\ v.scored = st.scored /\ v.renewed = st.renewed /\ v.counts = st.counts
  /\ v.rows = st.rows /\ v.signals = st.signals

LEMMA DistinctFolds ==
  ASSUME NEW S, IsFiniteSet(S), NEW F, F = SetToSeq(S)
  PROVE  /\ F \in Seq(S) /\ \A n \in DOMAIN F : F[n] \in S
         /\ \A m, n \in DOMAIN F : F[m] = F[n] => m = n
<1>1. Cardinality(S) \in Nat /\ ExistsBijection(1..Cardinality(S), S)
  BY FS_CardinalityType
<1>2. PICK f \in [1..Cardinality(S) -> S] : IsInjective(f)
  BY <1>1 DEF ExistsBijection, Bijection, Injection, IsInjective
<1>3. F \in [1..Cardinality(S) -> S] /\ IsInjective(F)
  BY <1>2, Zenon DEF SetToSeq
<1> QED BY <1>1, <1>3 DEF IsInjective

LEMMA FoldOfSound ==
  ASSUME NEW st \in StoreType, FoldsSound(st), OpensSound(st), NEW a \in Registrations \ st.closed,
         NEW m, NewSteps(st, m, a), NEW v, v = foldOf(st, a, st.open[a] \o m)
  PROVE  /\ v \in StoreType /\ Kept(v, st) /\ FoldsSound(v) /\ OpensSound(v)
         /\ StepsIn(v) \subseteq StepsIn(st) \union StepSet(m)
<1>1. PICK f : f = [attempt |-> a, steps |-> st.open[a] \o m]
  OBVIOUS
<1>2. f \in Fold /\ f.attempt = a /\ f.steps = st.open[a] \o m
  <2>1. st.open[a] \in Seq(Nat) /\ m \in Seq(Nat)
    BY DEF StoreType, NewSteps
  <2>2. st.open[a] \o m \in Seq(Nat)
    BY <2>1, StepsJoined
  <2> QED BY <1>1, <2>2 DEF Fold
<1>3. /\ v = [st EXCEPT !.folded = Append(st.folded, f), !.open = [st.open EXCEPT ![a] = <<>>],
                        !.closed = st.closed \union {a}]
  BY <1>1 DEF foldOf, StoreType
<1>4. Append(st.folded, f) \in Seq(Fold) /\ [st.open EXCEPT ![a] = <<>>] \in [Registrations -> Seq(Nat)]
  BY <1>2 DEF StoreType
<1>5. v \in StoreType /\ Kept(v, st) /\ v.folded = Append(st.folded, f) /\ v.closed = st.closed \union {a}
      /\ v.open = [st.open EXCEPT ![a] = <<>>]
  <2>1. v = [open |-> [st.open EXCEPT ![a] = <<>>], idle |-> st.idle, closed |-> st.closed \union {a},
             scored |-> st.scored, renewed |-> st.renewed, folded |-> Append(st.folded, f),
             counts |-> st.counts, rows |-> st.rows, signals |-> st.signals]
    BY <1>3 DEF StoreType
  <2> QED BY <1>4, <2>1 DEF StoreType, Kept
<1>6. PICK F : F = <<f>>
  OBVIOUS
<1>7. F \in Seq(Fold) /\ DOMAIN F = {1} /\ F[1] = f
  BY <1>2, <1>6
<1>8. v.folded = st.folded \o F
  <2>1. st.folded \in Seq(Fold)
    BY DEF StoreType
  <2> QED BY <1>2, <1>5, <1>6, <2>1, AppendIsConcat
<1>9. PICK A, more : A = {a} /\ more = [x \in A |-> m]
  OBVIOUS
<1>10. more[a] = m /\ UNION {StepSet(more[x]) : x \in A} = StepSet(m)
  BY <1>9
<1>11. FoldsOf(st, A, more, F)
  BY <1>2, <1>7, <1>9 DEF FoldsOf
<1>12. Folded(v, st, A, F)
  BY <1>5, <1>8, <1>9 DEF Folded, Kept, StoreType
<1>14. /\ FoldsSound(v) /\ OpensSound(v)
       /\ StepsIn(v) \subseteq StepsIn(st) \union UNION {StepSet(more[x]) : x \in A}
  BY <1>5, <1>11, <1>12, StoreFolds
<1> QED BY <1>5, <1>10, <1>14

LEMMA NoStep == <<>> \in Seq(Nat) /\ StepSet(<<>>) = {} /\ OnceEach(<<>>)
BY DEF StepSet, OnceEach

LEMMA OneStep ==
  ASSUME NEW e \in Nat
  PROVE  <<e>> \in Seq(Nat) /\ StepSet(<<e>>) = {e} /\ OnceEach(<<e>>)
BY DEF StepSet, OnceEach

\* recordStep: the step is placed once, or dropped.
LEMMA RecordStepSound ==
  ASSUME NEW st \in StoreType, FoldsSound(st), OpensSound(st), NEW a \in Registrations,
         NEW e \in Nat, Own(a, e), e \notin StepsIn(st), NEW final \in BOOLEAN,
         NEW v, v = recordStep(st, a, e, final)
  PROVE  /\ v \in StoreType /\ Kept(v, st) /\ FoldsSound(v) /\ OpensSound(v)
         /\ StepsIn(v) \subseteq StepsIn(st) \union {e}
<1>1. CASE a \in st.closed
  BY <1>1 DEF recordStep, Kept
<1>2. PICK m : m = <<e>>
  OBVIOUS
<1>3. m \in Seq(Nat) /\ StepSet(m) = {e} /\ OnceEach(m) /\ st.open[a] \in Seq(Nat)
  BY <1>2, OneStep DEF StoreType
<1>4. NewSteps(st, m, a)
  BY <1>3 DEF NewSteps, StepsIn
<1>5. Append(st.open[a], e) = st.open[a] \o m
  BY <1>2, <1>3, AppendIsConcat
<1>6. CASE a \notin st.closed /\ final
  <2>1. v = foldOf(st, a, st.open[a] \o m)
    BY <1>5, <1>6 DEF recordStep
  <2> QED BY <1>3, <1>4, <1>6, <2>1, FoldOfSound
<1>7. CASE a \notin st.closed /\ ~final
  <2>1. PICK u : u = st.open[a] \o m
    OBVIOUS
  <2>2. u \in Seq(Nat) /\ OnceEach(u) /\ StepSet(u) = StepSet(st.open[a]) \union {e}
    <3>1. StepSet(st.open[a]) \subseteq OpenSteps(st) /\ OnceEach(st.open[a])
      BY DEF OpenSteps, OpensSound
    <3>2. StepSet(st.open[a]) \cap StepSet(m) = {}
      BY <1>3, <3>1 DEF StepsIn
    <3> QED BY <1>3, <2>1, <3>1, <3>2, StepsJoined
  <2>3. v = [st EXCEPT !.open = [st.open EXCEPT ![a] = u], !.idle = st.idle \ {a}]
    BY <1>5, <1>7, <2>1 DEF recordStep, StoreType
  <2>4. [st.open EXCEPT ![a] = u] \in [Registrations -> Seq(Nat)]
    BY <2>2 DEF StoreType
  <2>5. /\ v \in StoreType /\ Kept(v, st) /\ v.folded = st.folded /\ v.closed = st.closed
        /\ v.open = [st.open EXCEPT ![a] = u]
    BY <2>3, <2>4 DEF StoreType, Kept
  <2>6. v.open[a] = u /\ \A b \in Registrations \ {a} : v.open[b] = st.open[b]
    BY <2>5 DEF StoreType
  <2>7. OpenSteps(v) = OpenSteps(st) \union {e}
    <3>1. \A b \in Registrations : StepSet(v.open[b]) = StepSet(st.open[b]) \union (IF b = a THEN {e} ELSE {})
      BY <2>2, <2>6
    <3> QED BY <3>1 DEF OpenSteps
  <2>8. FoldedSteps(v) = FoldedSteps(st)
    BY <2>5 DEF FoldedSteps
  <2>9. FoldsSound(v)
    <3>1. \A n \in DOMAIN st.folded : StepSet(st.folded[n].steps) \subseteq FoldedSteps(st)
      BY DEF FoldedSteps
    <3>2. \A n \in DOMAIN st.folded : StepSet(st.folded[n].steps) \cap OpenSteps(v) = {}
      BY <2>7, <3>1 DEF FoldsSound, StepsIn
    <3> QED BY <2>5, <3>2 DEF FoldsSound, Kept
  <2>10. OpensSound(v)
    <3>1. ASSUME NEW b \in Registrations
          PROVE  /\ OnceEach(v.open[b])
                 /\ v.open[b] # <<>> => b \notin v.closed
                 /\ \A c \in Registrations : c # b => StepSet(v.open[b]) \cap StepSet(v.open[c]) = {}
                 /\ \A s \in StepSet(v.open[b]) : Own(b, s)
      <4>1. \A c \in Registrations : /\ StepSet(st.open[c]) \subseteq OpenSteps(st)
                                     /\ c # b => StepSet(st.open[b]) \cap StepSet(st.open[c]) = {}
        BY DEF OpensSound, OpenSteps
      <4>2. e \notin OpenSteps(st)
        BY DEF StepsIn
      <4>3. CASE b = a
        <5>1. \A c \in Registrations : c # b => StepSet(v.open[b]) \cap StepSet(v.open[c]) = {}
          BY <2>2, <2>6, <4>1, <4>2, <4>3
        <5>2. \A s \in StepSet(v.open[b]) : Own(b, s)
          BY <2>2, <2>6, <4>3 DEF OpensSound
        <5> QED BY <1>7, <2>2, <2>5, <2>6, <4>3, <5>1, <5>2
      <4>4. CASE b # a
        <5>1. v.open[b] = st.open[b]
          BY <2>6, <4>4
        <5>2. ASSUME NEW c \in Registrations, c # b PROVE StepSet(v.open[b]) \cap StepSet(v.open[c]) = {}
          <6>1. CASE c = a
            BY <2>2, <2>6, <4>1, <4>2, <5>1, <5>2, <6>1
          <6>2. CASE c # a
            BY <2>6, <4>1, <5>1, <5>2, <6>2
          <6> QED BY <6>1, <6>2
        <5>3. OnceEach(v.open[b]) /\ (v.open[b] # <<>> => b \notin v.closed) /\ \A s \in StepSet(v.open[b]) : Own(b, s)
          BY <2>5, <5>1 DEF OpensSound
        <5> QED BY <5>2, <5>3
      <4> QED BY <4>3, <4>4
    <3> QED BY <3>1 DEF OpensSound
  <2> QED BY <2>5, <2>7, <2>8, <2>9, <2>10 DEF StepsIn
<1> QED BY <1>1, <1>6, <1>7

LEMMA CloseSound ==
  ASSUME NEW st \in StoreType, FoldsSound(st), OpensSound(st), NEW a \in Registrations,
         NEW v, v = closeAttempt(st, a)
  PROVE  /\ v \in StoreType /\ Kept(v, st) /\ FoldsSound(v) /\ OpensSound(v)
         /\ StepsIn(v) \subseteq StepsIn(st)
<1>1. CASE st.open[a] = <<>>
  BY <1>1 DEF closeAttempt, Kept
<1>2. CASE st.open[a] # <<>>
  <2>1. a \in Registrations \ st.closed /\ st.open[a] \in Seq(Nat)
    BY <1>2 DEF OpensSound, StoreType
  <2>2. PICK m : m = <<>> /\ m \in Seq(Nat)
    BY NoStep
  <2>3. st.open[a] = st.open[a] \o m
    BY <2>1, <2>2, ConcatEmptySeq
  <2>4. StepSet(m) = {} /\ OnceEach(m)
    BY <2>2, NoStep
  <2>5. NewSteps(st, m, a)
    BY <2>2, <2>4 DEF NewSteps
  <2>6. v = foldOf(st, a, st.open[a] \o m)
    BY <1>2, <2>3 DEF closeAttempt
  <2>7. /\ v \in StoreType /\ Kept(v, st) /\ FoldsSound(v) /\ OpensSound(v)
        /\ StepsIn(v) \subseteq StepsIn(st) \union StepSet(m)
    BY <2>1, <2>5, <2>6, FoldOfSound
  <2> QED BY <2>4, <2>7
<1> QED BY <1>1, <1>2

LEMMA FoldAllSound ==
  ASSUME NEW st \in StoreType, FoldsSound(st), OpensSound(st),
         NEW A \in SUBSET (Registrations \ st.closed), NEW more, more = [a \in A |-> more[a]],
         \A a \in A : NewSteps(st, more[a], a),
         \A a, b \in A : a # b => StepSet(more[a]) \cap StepSet(more[b]) = {},
         NEW v, v = foldAll(st, more)
  PROVE  /\ v \in StoreType /\ Kept(v, st) /\ FoldsSound(v) /\ OpensSound(v)
         /\ StepsIn(v) \subseteq StepsIn(st) \union UNION {StepSet(more[a]) : a \in A}
<1>1. DOMAIN more = A
  OBVIOUS
<1>2. PICK S : S = {[attempt |-> a, steps |-> st.open[a] \o more[a]] : a \in A}
  OBVIOUS
<1>3. PICK F : F = SetToSeq(S)
  OBVIOUS
<1>4. IsFiniteSet(S)
  <2>1. IsFiniteSet(Registrations)
    <3>1. 1 \in Int /\ MaxRegistrations \in Int
      BY IngestAssumption
    <3> QED BY <3>1, FS_Interval DEF Registrations
  <2>2. IsFiniteSet(A)
    BY <2>1, FS_Subset
  <2>3. PICK f : f = [a \in A |-> [attempt |-> a, steps |-> st.open[a] \o more[a]]]
    OBVIOUS
  <2>4. f \in [A -> S] /\ \A x \in S : \E a \in A : f[a] = x
    BY <1>2, <2>3
  <2>5. f \in Surjection(A, S)
    BY <2>4 DEF Surjection
  <2> QED BY <2>2, <2>5, FS_Surjection
<1>5. \A n \in DOMAIN F : F[n] \in S /\ \A m \in DOMAIN F : F[m] = F[n] => m = n
  BY <1>3, <1>4, DistinctFolds
<1>6. F \in Seq(S)
  BY <1>3, <1>4, DistinctFolds
<1>7. \A x \in S : /\ x \in Fold /\ x.attempt \in A
                   /\ x.steps = st.open[x.attempt] \o more[x.attempt]
  <2>1. ASSUME NEW a \in A PROVE st.open[a] \o more[a] \in Seq(Nat)
    <3>1. st.open[a] \in Seq(Nat) /\ more[a] \in Seq(Nat)
      BY DEF StoreType, NewSteps
    <3> QED BY <3>1, StepsJoined
  <2>2. ASSUME NEW x \in S
        PROVE  x \in Fold /\ x.attempt \in A /\ x.steps = st.open[x.attempt] \o more[x.attempt]
    <3>1. PICK a \in A : x = [attempt |-> a, steps |-> st.open[a] \o more[a]]
      BY <1>2
    <3>2. a \in Registrations
      OBVIOUS
    <3> QED BY <2>1, <3>1, <3>2 DEF Fold
  <2> QED BY <2>2
<1>8. F \in Seq(Fold)
  <2>1. Len(F) \in Nat /\ F \in [1..Len(F) -> S]
    BY <1>6
  <2>2. F \in [1..Len(F) -> Fold]
    BY <1>7, <2>1
  <2> QED BY <2>1, <2>2
<1>9. \A x, y \in S : x.attempt = y.attempt => x = y
  <2>1. ASSUME NEW x \in S, NEW y \in S, x.attempt = y.attempt PROVE x = y
    <3>1. PICK a \in A : x = [attempt |-> a, steps |-> st.open[a] \o more[a]]
      BY <1>2
    <3>2. PICK b \in A : y = [attempt |-> b, steps |-> st.open[b] \o more[b]]
      BY <1>2
    <3> QED BY <2>1, <3>1, <3>2
  <2> QED BY <2>1
<1>10. /\ \A n \in DOMAIN F : F[n].attempt \in A /\ F[n].steps = st.open[F[n].attempt] \o more[F[n].attempt]
       /\ \A m, n \in DOMAIN F : F[m].attempt = F[n].attempt => m = n
  BY <1>5, <1>7, <1>9
<1>11. PICK open : open = [a \in Registrations |-> IF a \in A THEN <<>> ELSE st.open[a]]
  OBVIOUS
<1>12. PICK all : all = st.folded \o F
  OBVIOUS
<1>13. all \in Seq(Fold) /\ open \in [Registrations -> Seq(Nat)]
  BY <1>8, <1>11, <1>12 DEF StoreType
<1>14. /\ v \in StoreType /\ Kept(v, st) /\ v.folded = all /\ v.closed = st.closed \union A
       /\ v.open = open
  <2>1. v = [st EXCEPT !.folded = all, !.open = open, !.closed = st.closed \union A]
    BY <1>1, <1>2, <1>3, <1>11, <1>12 DEF foldAll, StoreType
  <2> QED BY <1>13, <2>1 DEF StoreType, Kept
<1>15. \A a \in Registrations : v.open[a] = IF a \in A THEN <<>> ELSE st.open[a]
  BY <1>11, <1>14
<1>16. v.renewed = st.renewed
  BY <1>14 DEF Kept
<1>17. FoldsOf(st, A, more, F) /\ Folded(v, st, A, F)
  BY <1>8, <1>10, <1>12, <1>14, <1>15, <1>16 DEF FoldsOf, Folded
<1> QED BY <1>14, <1>17, StoreFolds

LEMMA SweepSound ==
  ASSUME NEW st \in StoreType, FoldsSound(st), OpensSound(st), NEW v, v = sweepAttempts(st)
  PROVE  /\ v \in StoreType /\ Kept(v, st) /\ FoldsSound(v) /\ OpensSound(v)
         /\ StepsIn(v) \subseteq StepsIn(st)
<1>1. PICK A : A = {x \in st.idle : st.open[x] # <<>>}
  OBVIOUS
<1>2. PICK more : more = [a \in A |-> <<>>]
  OBVIOUS
<1>3. A \in SUBSET (Registrations \ st.closed)
  BY <1>1 DEF StoreType, OpensSound
<1>4. StepSet(<<>>) = {} /\ OnceEach(<<>>) /\ <<>> \in Seq(Nat)
  BY NoStep
<1>5. \A a \in A : more[a] = <<>> /\ NewSteps(st, more[a], a)
  BY <1>2, <1>4 DEF NewSteps
<1>6. /\ \A a, b \in A : a # b => StepSet(more[a]) \cap StepSet(more[b]) = {}
      /\ UNION {StepSet(more[a]) : a \in A} = {} /\ more = [a \in A |-> more[a]]
  BY <1>2, <1>4, <1>5
<1>7. v = foldAll(st, more)
  BY <1>1, <1>2 DEF sweepAttempts
<1>8. /\ v \in StoreType /\ Kept(v, st) /\ FoldsSound(v) /\ OpensSound(v)
      /\ StepsIn(v) \subseteq StepsIn(st) \union UNION {StepSet(more[a]) : a \in A}
  BY <1>3, <1>5, <1>6, <1>7, FoldAllSound
<1> QED BY <1>6, <1>8

\* Something of attempt a is held for a directory or open in it.
LeftIn(w, d, a) == HeldFor(w, d, a) # {} \/ w.store[d].open[a] # <<>>

\* An instance holds no other directory's bundle than that of its settings.
Steady(w, i) == w.inst[i].holds \in {Nil, settings(w, i)}

\* An operation on the shared state leaves the instances' settings, and the registration if it stays.
SameHosts(v, w) ==
  /\ v.slot # Nil => /\ w.slot # Nil /\ v.slot.attempt = w.slot.attempt
                     /\ v.slot.outcomes = w.slot.outcomes
  /\ w.seen \subseteq v.seen
  /\ \A j \in Instances : /\ settings(v, j) = settings(w, j)
                          /\ v.inst[j].disposed = w.inst[j].disposed
                          /\ Steady(w, j) => Steady(v, j)

\* What is left of an attempt was there, and is still the directory's last attempt if it was.
Lasts(v, w, d, a) == LeftIn(v, d, a) => LeftIn(w, d, a) /\ (w.last[d] = a => v.last[d] = a)

\* An operation that delivers no step leaves nothing behind that was not there.
Tidies(v, w) ==
  /\ SameHosts(v, w) /\ v.seen = w.seen
  /\ \A d \in Dirs, a \in Registrations : Lasts(v, w, d, a)

LEMMA TidiesItself == ASSUME NEW w PROVE Tidies(w, w)
BY DEF Tidies, SameHosts, Lasts

LEMMA TidiesAdds ==
  ASSUME NEW w, NEW u, NEW v, Tidies(u, w), Tidies(v, u)
  PROVE  Tidies(v, w)
<1>1. SameHosts(v, w) /\ v.seen = w.seen
  BY DEF Tidies, SameHosts
<1>2. \A d \in Dirs, a \in Registrations : Lasts(v, w, d, a)
  BY DEF Tidies, Lasts
<1> QED BY <1>1, <1>2 DEF Tidies

LEMMA SameHostsAdds ==
  ASSUME NEW w, NEW u, NEW v, SameHosts(u, w), SameHosts(v, u)
  PROVE  SameHosts(v, w)
BY DEF SameHosts

\* What only the slot, the directories' statistics or what is held lose.
LEMMA TidiesBy ==
  ASSUME NEW w, NEW v,
         v.slot # Nil => /\ w.slot # Nil /\ v.slot.attempt = w.slot.attempt
                         /\ v.slot.outcomes = w.slot.outcomes,
         v.seen = w.seen, v.last = w.last, v.held \subseteq w.held,
         \A j \in Instances : /\ settings(v, j) = settings(w, j)
                              /\ v.inst[j].disposed = w.inst[j].disposed
                              /\ Steady(w, j) => Steady(v, j),
         \A d \in Dirs, a \in Registrations :
            v.store[d].open[a] # <<>> => w.store[d].open[a] # <<>> \/ HeldFor(w, d, a) # {}
  PROVE  Tidies(v, w)
<1>0. w.seen \subseteq v.seen
  OBVIOUS
<1>1. SameHosts(v, w)
  BY <1>0, Zenon DEF SameHosts
<1>2. ASSUME NEW d \in Dirs, NEW a \in Registrations, LeftIn(v, d, a)
      PROVE  LeftIn(w, d, a)
  BY <1>2 DEF LeftIn, HeldFor
<1>3. \A d \in Dirs, a \in Registrations : Lasts(v, w, d, a)
  BY <1>2 DEF Lasts
<1> QED BY <1>1, <1>3 DEF Tidies

LEMMA TidiesHosts ==
  ASSUME NEW w, NEW v, v.inst = w.inst
  PROVE  \A j \in Instances : /\ settings(v, j) = settings(w, j)
                              /\ v.inst[j].disposed = w.inst[j].disposed
                              /\ Steady(w, j) => Steady(v, j)
BY DEF settings, Steady

LEMMA HostsSame ==
  ASSUME NEW w, NEW v, v.inst = w.inst, v.slot = w.slot, v.seen = w.seen
  PROVE  SameHosts(v, w)
<1>1. \A j \in Instances :
        /\ settings(v, j) = settings(w, j)
        /\ v.inst[j].disposed = w.inst[j].disposed
        /\ Steady(w, j) => Steady(v, j)
  BY TidiesHosts
<1> QED BY <1>1 DEF SameHosts

\* What an operation on a store leaves open was open.
LEMMA OpensRemain ==
  ASSUME NEW st \in StoreType, NEW a \in Registrations, NEW b \in Registrations
  PROVE  /\ \A e, final : recordStep(st, a, e, final).open[b] # <<>> => st.open[b] # <<>> \/ b = a
         /\ closeAttempt(st, a).open[b] # <<>> => st.open[b] # <<>> /\ b # a
         /\ \A more : foldAll(st, more).open[b] # <<>> => st.open[b] # <<>>
         /\ sweepAttempts(st).open[b] # <<>> => st.open[b] # <<>>
         /\ Reset(st).open[b] = <<>>
<1>1. \A steps : foldOf(st, a, steps).open = [st.open EXCEPT ![a] = <<>>]
  BY DEF foldOf, StoreType
<1>2. \A steps : foldOf(st, a, steps).open[b] # <<>> => st.open[b] # <<>> /\ b # a
  BY <1>1 DEF StoreType
<1>3. ASSUME NEW e, NEW final, recordStep(st, a, e, final).open[b] # <<>>
      PROVE  st.open[b] # <<>> \/ b = a
  <2>1. CASE a \in st.closed
    BY <1>3, <2>1 DEF recordStep
  <2>2. CASE a \notin st.closed /\ final
    BY <1>2, <1>3, <2>2 DEF recordStep
  <2>3. CASE a \notin st.closed /\ ~final
    <3>1. recordStep(st, a, e, final).open = [st.open EXCEPT ![a] = Append(@, e)]
      BY <2>3 DEF recordStep, StoreType
    <3> QED BY <1>3, <3>1 DEF StoreType
  <2> QED BY <2>1, <2>2, <2>3
<1>4. closeAttempt(st, a).open[b] # <<>> => st.open[b] # <<>> /\ b # a
  BY <1>2 DEF closeAttempt
<1>5. ASSUME NEW more, foldAll(st, more).open[b] # <<>>
      PROVE  st.open[b] # <<>>
  <2>1. foldAll(st, more).open = [x \in Registrations |-> IF x \in DOMAIN more THEN <<>> ELSE st.open[x]]
    BY DEF foldAll, StoreType
  <2> QED BY <1>5, <2>1
<1>6. sweepAttempts(st).open[b] # <<>> => st.open[b] # <<>>
  BY <1>5 DEF sweepAttempts
<1>7. Reset(st).open[b] = <<>>
  BY DEF Reset, Blank, NewStore, StoreType
<1> QED BY <1>3, <1>4, <1>5, <1>6, <1>7

Took(w, i, d, st, due, K) ==
  [Stored(Acquired(w, i, d), d, st) EXCEPT !.held = @ \ due, !.inst[i].owned = @ \ K]

Bundled(w, i, d) == w.inst[i].holds = d

Handed(v, w, i, d, due) == v.inst[i].holds = d /\ v.held = w.held \ due

\* What st has open was open in d, or held for it.
OpensIn(st, w, d) ==
  \A a \in Registrations : st.open[a] # <<>> => w.store[d].open[a] # <<>> \/ HeldFor(w, d, a) # {}

LEMMA AcquiredHosts ==
  ASSUME NEW w, WorldType(w), NEW i \in Instances, NEW d \in Dirs \union {Nil},
         NEW v, v = Acquired(w, i, d)
  PROVE  /\ \A j \in Instances : settings(v, j) = settings(w, j) /\ v.inst[j].disposed = w.inst[j].disposed
         /\ d = Nil \/ d = settings(w, i) \/ d = w.inst[i].holds =>
              \A j \in Instances : Steady(w, j) => Steady(v, j)
<1>1. PICK n : n = [w.inst[i] EXCEPT !.holds = d]
  OBVIOUS
<1>2. /\ n.settings = w.inst[i].settings /\ n.disposed = w.inst[i].disposed /\ n.holds = d
  BY <1>1 DEF WorldType, InstanceType
<1>3. v = [w EXCEPT !.inst = [w.inst EXCEPT ![i] = n]]
  BY <1>1 DEF Acquired, WorldType
<1>4. v.inst[i] = n /\ \A j \in Instances \ {i} : v.inst[j] = w.inst[j]
  BY <1>3 DEF WorldType
<1> QED BY <1>2, <1>4 DEF settings, Steady

\* The steps of due, held for a directory, go to its store.
LEMMA TakenSound ==
  ASSUME NEW w, NEW X, Good(w, X), NEW i \in Instances, NEW d \in Dirs, NEW st \in StoreType,
         Kept(st, w.store[d]), FoldsSound(st), OpensSound(st),
         NEW due \in SUBSET w.held, \A h \in due : h.dir = d,
         StepsIn(st) \subseteq StepsIn(w.store[d]) \union {h.step : h \in due}, NEW K, NEW v,
         Reaches(w, i, d), OpensIn(st, w, d), v = Took(w, i, d, st, due, K)
  PROVE  Good(v, X) /\ Tidies(v, w) /\ Handed(v, w, i, d, due)
<1>1. WorldType(w)
  BY DEF Good
<1>2. PICK m : m = w.inst[i]
  OBVIOUS
<1>0. m \in InstanceType
  BY <1>1, <1>2 DEF WorldType
<1>20. PICK n : n = [settings |-> m.settings, holds |-> d, recorder |-> m.recorder, owned |-> m.owned \ K,
                    disposed |-> m.disposed]
  OBVIOUS
<1>3. /\ n \in InstanceType /\ n.settings = w.inst[i].settings /\ n.disposed = w.inst[i].disposed
      /\ n.holds = d
  BY <1>0, <1>2, <1>20 DEF InstanceType
<1>4. PICK inst, stores, held : /\ inst = [w.inst EXCEPT ![i] = n]
                                /\ stores = [w.store EXCEPT ![d] = st] /\ held = w.held \ due
  OBVIOUS
<1>5. PICK u : u = Acquired(w, i, d)
  OBVIOUS
<1>6. /\ WorldType(u) /\ u.store = w.store /\ u.held = w.held /\ u.seen = w.seen /\ u.scored = w.scored
      /\ u.signalled = w.signalled /\ u.slot = w.slot /\ u.last = w.last /\ u.seenEnds = w.seenEnds
      /\ u.inst = [w.inst EXCEPT ![i] = [m EXCEPT !.holds = d]]
  BY <1>1, <1>2, <1>5, AcquiredIs DEF Acquired, WorldType
<1>7. PICK t : t = Stored(u, d, st)
  OBVIOUS
<1>8. /\ WorldType(t) /\ t.held = w.held /\ t.seen = w.seen /\ t.scored = w.scored
      /\ t.signalled = w.signalled /\ t.inst = u.inst /\ t.slot = w.slot /\ t.last = w.last
      /\ t.seenEnds = w.seenEnds /\ t.store = stores
  BY <1>4, <1>6, <1>7, StoredIs DEF Stored, WorldType
<1>9. v = [t EXCEPT !.held = @ \ due, !.inst[i].owned = @ \ K]
  BY <1>5, <1>7 DEF Took
<1>10. v = [slot |-> w.slot, seen |-> w.seen, seenEnds |-> w.seenEnds, held |-> held,
            signalled |-> w.signalled, last |-> w.last, scored |-> w.scored, store |-> stores, inst |-> inst]
  <2>1. v = [slot |-> t.slot, seen |-> t.seen, seenEnds |-> t.seenEnds, held |-> t.held \ due,
             signalled |-> t.signalled, last |-> t.last, scored |-> t.scored, store |-> t.store,
             inst |-> [t.inst EXCEPT ![i] = [t.inst[i] EXCEPT !.owned = @ \ K]]]
    BY <1>8, <1>9 DEF WorldType
  <2>2. [t.inst EXCEPT ![i] = [t.inst[i] EXCEPT !.owned = @ \ K]] = inst
    <3>1. [[m EXCEPT !.holds = d] EXCEPT !.owned = @ \ K] = n
      <4>1. PICK p : p = [m EXCEPT !.holds = d]
        OBVIOUS
      <4>2. p = [settings |-> m.settings, holds |-> d, recorder |-> m.recorder, owned |-> m.owned,
                 disposed |-> m.disposed]
        BY <1>0, <4>1 DEF InstanceType
      <4>3. [p EXCEPT !.owned = @ \ K] = n
        BY <1>20, <4>2
      <4> QED BY <4>1, <4>3
    <3>2. t.inst[i] = [m EXCEPT !.holds = d] /\ t.inst = [w.inst EXCEPT ![i] = [m EXCEPT !.holds = d]]
      BY <1>1, <1>6, <1>8 DEF WorldType
    <3> QED BY <1>1, <1>4, <3>1, <3>2 DEF WorldType
  <2> QED BY <1>4, <1>8, <2>1, <2>2
<1>11. WorldType(v)
  <2>1. inst \in [Instances -> InstanceType] /\ stores \in [Dirs -> StoreType] /\ held \in SUBSET HeldStep
    BY <1>1, <1>3, <1>4 DEF WorldType
  <2> QED BY <1>1, <1>10, <2>1 DEF WorldType
<1>12. /\ v.store[d] = st /\ \A o \in Dirs \ {d} : v.store[o] = w.store[o]
  BY <1>1, <1>4, <1>10 DEF WorldType
<1>13. v.held = w.held \ due /\ v.seen = w.seen /\ v.scored = w.scored /\ v.signalled = w.signalled
  BY <1>4, <1>10
<1>14. Good(v, X)
  <2>1. FoldedSteps(v.store[d]) \union OpenSteps(v.store[d])
           \subseteq FoldedSteps(w.store[d]) \union OpenSteps(w.store[d]) \union {h.step : h \in due}
    BY <1>12 DEF StepsIn
  <2> QED BY <1>11, <1>12, <1>13, <2>1, GoodMoves DEF Kept
<1>15. Tidies(v, w) /\ v.inst[i].holds = d
  <2>1. v.inst[i] = n /\ \A j \in Instances \ {i} : v.inst[j] = w.inst[j]
    BY <1>1, <1>4, <1>10 DEF WorldType
  <2>2. Steady(w, i) => Steady(v, i)
    BY <1>3, <2>1 DEF Steady, Reaches, settings
  <2>3. \A j \in Instances : /\ settings(v, j) = settings(w, j)
                             /\ v.inst[j].disposed = w.inst[j].disposed
                             /\ Steady(w, j) => Steady(v, j)
    BY <1>3, <2>1, <2>2 DEF Steady, settings
  <2>4. v.slot = w.slot /\ v.last = w.last /\ v.held \subseteq w.held
    BY <1>4, <1>10
  <2>5. \A o \in Dirs, a \in Registrations :
          v.store[o].open[a] # <<>> => w.store[o].open[a] # <<>> \/ HeldFor(w, o, a) # {}
    BY <1>12 DEF OpensIn
  <2>6. Tidies(v, w)
    BY <1>13, <2>3, <2>4, <2>5, TidiesBy
  <2> QED BY <1>3, <2>1, <2>6
<1> QED BY <1>13, <1>14, <1>15 DEF Handed

\* A directory's steps are sound by themselves.
LEMMA InStore ==
  ASSUME NEW w, NEW X, Good(w, X), NEW d \in Dirs
  PROVE  /\ w.store[d] \in StoreType /\ FoldsSound(w.store[d]) /\ OpensSound(w.store[d])
         /\ HeldSound(w.held, d, w.store[d]) /\ SeenSound(w, d, X) /\ w.held \subseteq HeldStep
BY DEF Good, StepsSound, WorldType

\* settle.
LEMMA SettleSound ==
  ASSUME NEW w, NEW X, Good(w, X), NEW i \in Instances, NEW d \in Dirs, NEW a \in Registrations,
         NEW asFinal \in BOOLEAN, NEW v, v = settle(w, i, d, a, asFinal)
  PROVE  /\ Good(v, X) /\ Tidies(v, w)
         /\ Reaches(w, i, d) => HeldFor(v, d, a) = {} /\ Reaches(v, i, d)
         /\ Bundled(w, i, d) => Bundled(v, i, d)
<1>1. CASE HeldFor(w, d, a) = {} \/ ~Reaches(w, i, d)
  BY <1>1, TidiesItself DEF settle, Bundled
<1>2. CASE HeldFor(w, d, a) # {} /\ Reaches(w, i, d)
  <2>1. PICK x : x = CHOOSE y \in HeldFor(w, d, a) : TRUE
    OBVIOUS
  <2>2. x \in w.held /\ x.dir = d /\ x.attempt = a
    BY <1>2, <2>1 DEF HeldFor
  <2>3. PICK st : st = recordStep(w.store[d], a, x.step, asFinal)
    OBVIOUS
  <2>4. /\ x.step \notin StepsIn(w.store[d]) /\ Own(a, x.step) /\ x.step \in Nat
    BY <2>2, InStore DEF HeldSound, StepsIn, HeldStep
  <2>5. /\ st \in StoreType /\ Kept(st, w.store[d]) /\ FoldsSound(st) /\ OpensSound(st)
        /\ StepsIn(st) \subseteq StepsIn(w.store[d]) \union {x.step}
    BY <2>3, <2>4, InStore, RecordStepSound
  <2>6. v = [Stored(Acquired(w, i, d), d, st) EXCEPT !.held = @ \ {x}, !.inst[i].owned = @ \ {<<d, a>>}]
    BY <1>2, <2>1, <2>3, Zenon DEF settle
  <2>7. PICK due, K : due = {x} /\ K = {<<d, a>>}
    OBVIOUS
  <2>8. /\ due \in SUBSET w.held /\ \A h \in due : h.dir = d
        /\ StepsIn(st) \subseteq StepsIn(w.store[d]) \union {h.step : h \in due}
        /\ v = Took(w, i, d, st, due, K)
    BY <2>2, <2>5, <2>6, <2>7 DEF Took
  <2>9. Good(v, X) /\ Tidies(v, w) /\ v.inst[i].holds = d /\ v.held = w.held \ due
    <3>0. OpensIn(st, w, d)
      BY <1>2, <2>3, InStore, OpensRemain DEF OpensIn
    <3>1. Good(v, X) /\ Tidies(v, w) /\ Handed(v, w, i, d, due)
      BY <1>2, <2>5, <2>8, <3>0, TakenSound
    <3> QED BY <3>1 DEF Handed
  <2>10. HeldFor(v, d, a) = {}
    <3>1. \A h \in w.held : h.dir = d /\ h.attempt = a => h = x
      BY <2>2, InStore DEF HeldSound
    <3> QED BY <2>7, <2>9, <3>1 DEF HeldFor
  <2>11. Reaches(v, i, d)
    BY <2>9, IngestAssumption DEF Reaches
  <2> QED BY <2>9, <2>10, <2>11 DEF Bundled
<1> QED BY <1>1, <1>2

\* Several held steps at once.
LEMMA SettleAllSound ==
  ASSUME NEW w, NEW X, Good(w, X), NEW i \in Instances, NEW d \in Dirs,
         NEW due \in SUBSET w.held, \A h \in due : h.dir = d, NEW v, v = settleAll(w, i, d, due)
  PROVE  Good(v, X) /\ Tidies(v, w)
<1>1. CASE due = {} \/ ~Reaches(w, i, d)
  BY <1>1, TidiesItself DEF settleAll
<1>2. CASE due # {} /\ Reaches(w, i, d)
  <2>1. PICK late : late = {h.attempt : h \in due} \ w.store[d].closed
    OBVIOUS
  <2>2. PICK last : last = [a \in late |-> <<(CHOOSE h \in due : h.attempt = a).step>>]
    OBVIOUS
  <2>3. late \in SUBSET (Registrations \ w.store[d].closed) /\ last = [a \in late |-> last[a]]
    BY <2>1, <2>2, InStore DEF HeldStep
  <2>4. \A a \in late : \E h \in due : h.attempt = a /\ last[a] = <<h.step>>
    <3>1. ASSUME NEW a \in late PROVE \E h \in due : h.attempt = a /\ last[a] = <<h.step>>
      <4>1. PICK h : h = CHOOSE o \in due : o.attempt = a
        OBVIOUS
      <4>2. \E o \in due : o.attempt = a
        BY <2>1
      <4>3. h \in due /\ h.attempt = a
        BY <4>1, <4>2
      <4> QED BY <2>2, <4>1, <4>3
    <3> QED BY <3>1
  <2>5. \A h \in due : /\ h.step \notin StepsIn(w.store[d]) /\ Own(h.attempt, h.step) /\ h.step \in Nat
                       /\ \A o \in due : o.step = h.step => o = h
    BY InStore DEF HeldSound, StepsIn, HeldStep
  <2>6. \A h \in due : <<h.step>> \in Seq(Nat) /\ StepSet(<<h.step>>) = {h.step} /\ OnceEach(<<h.step>>)
    BY <2>5, OneStep
  <2>7. \A a \in late : NewSteps(w.store[d], last[a], a)
    <3>1. ASSUME NEW a \in late PROVE NewSteps(w.store[d], last[a], a)
      <4>1. PICK h \in due : h.attempt = a /\ last[a] = <<h.step>>
        BY <2>4
      <4> QED BY <2>5, <2>6, <4>1 DEF NewSteps, StepsIn
    <3> QED BY <3>1
  <2>8. \A a, b \in late : a # b => StepSet(last[a]) \cap StepSet(last[b]) = {}
    <3>1. ASSUME NEW a \in late, NEW b \in late, a # b PROVE StepSet(last[a]) \cap StepSet(last[b]) = {}
      <4>1. PICK h \in due : h.attempt = a /\ last[a] = <<h.step>>
        BY <2>4
      <4>2. PICK o \in due : o.attempt = b /\ last[b] = <<o.step>>
        BY <2>4
      <4>3. h.step # o.step
        BY <2>5, <3>1, <4>1, <4>2
      <4> QED BY <2>6, <4>1, <4>2, <4>3
    <3> QED BY <3>1
  <2>9. UNION {StepSet(last[a]) : a \in late} \subseteq {h.step : h \in due}
    <3>1. ASSUME NEW a \in late PROVE StepSet(last[a]) \subseteq {h.step : h \in due}
      <4>1. PICK h \in due : h.attempt = a /\ last[a] = <<h.step>>
        BY <2>4
      <4> QED BY <2>6, <4>1
    <3> QED BY <3>1
  <2>10. PICK st : st = foldAll(w.store[d], last)
    OBVIOUS
  <2>11. /\ st \in StoreType /\ Kept(st, w.store[d]) /\ FoldsSound(st) /\ OpensSound(st)
         /\ StepsIn(st) \subseteq StepsIn(w.store[d]) \union UNION {StepSet(last[a]) : a \in late}
    <3>1. w.store[d] \in StoreType /\ FoldsSound(w.store[d]) /\ OpensSound(w.store[d])
      BY InStore
    <3> QED BY <2>3, <2>7, <2>8, <2>10, <3>1, FoldAllSound
  <2>12. PICK K : K = {<<d, h.attempt>> : h \in due}
    OBVIOUS
  <2>13. v = Took(w, i, d, st, due, K)
    BY <1>2, <2>1, <2>2, <2>10, <2>12, Zenon DEF settleAll, Took
  <2>14. StepsIn(st) \subseteq StepsIn(w.store[d]) \union {h.step : h \in due}
    BY <2>9, <2>11
  <2>15. OpensIn(st, w, d)
    BY <2>10, InStore, OpensRemain DEF OpensIn
  <2> QED BY <1>2, <2>11, <2>13, <2>14, <2>15, TakenSound
<1> QED BY <1>1, <1>2

LEMMA CloseInSound ==
  ASSUME NEW w, NEW X, Good(w, X), NEW i \in Instances, NEW d \in Dirs, NEW a \in Registrations,
         NEW v, v = closeIn(w, i, d, a)
  PROVE  /\ Good(v, X) /\ Tidies(v, w) /\ (Bundled(w, i, d) => Bundled(v, i, d)) /\ v.held = w.held
         /\ Reaches(w, i, d) => v.store[d].open[a] = <<>>
<1>1. CASE ~Reaches(w, i, d)
  BY <1>1, TidiesItself DEF closeIn, Bundled
<1>2. CASE Reaches(w, i, d)
  <2>1. PICK st : st = closeAttempt(w.store[d], a)
    OBVIOUS
  <2>2. /\ st \in StoreType /\ Kept(st, w.store[d]) /\ FoldsSound(st) /\ OpensSound(st)
        /\ StepsIn(st) \subseteq StepsIn(w.store[d])
    BY <2>1, InStore, CloseSound
  <2>3. PICK u : u = Acquired(w, i, d)
    OBVIOUS
  <2>4. /\ WorldType(u) /\ \A j \in Instances : settings(u, j) = settings(w, j)
        /\ u.store = w.store /\ u.held = w.held /\ u.seen = w.seen /\ u.scored = w.scored
        /\ u.signalled = w.signalled /\ u.slot = w.slot /\ u.inst[i].holds = d
        /\ \A j \in Instances : u.inst[j].disposed = w.inst[j].disposed
    <3>1. WorldType(w)
      BY DEF Good
    <3>2. \A j \in Instances : u.inst[j].disposed = w.inst[j].disposed
      BY <2>3, <3>1, AcquiredHosts
    <3> QED BY <2>3, <3>1, <3>2, AcquiredIs
  <2>5. v = Stored(u, d, st)
    BY <1>2, <2>1, <2>3 DEF closeIn
  <2>6. /\ WorldType(v) /\ v.store[d] = st /\ \A o \in Dirs \ {d} : v.store[o] = w.store[o]
        /\ v.held = w.held /\ v.seen = w.seen /\ v.scored = w.scored /\ v.signalled = w.signalled
        /\ v.inst = u.inst /\ v.slot = w.slot
    BY <2>2, <2>4, <2>5, StoredIs
  <2>7. PICK due : due = {}
    OBVIOUS
  <2>8. /\ due \in SUBSET w.held /\ v.held = w.held \ due /\ \A h \in due : h.dir = d
        /\ FoldedSteps(v.store[d]) \union OpenSteps(v.store[d])
              \subseteq FoldedSteps(w.store[d]) \union OpenSteps(w.store[d]) \union {h.step : h \in due}
    BY <2>2, <2>6, <2>7 DEF StepsIn
  <2>9. Good(v, X)
    BY <2>2, <2>6, <2>8, GoodMoves DEF Kept
  <2>10. \A b \in Registrations : st.open[b] # <<>> => w.store[d].open[b] # <<>> /\ b # a
    BY <2>1, InStore, OpensRemain
  <2>11. Tidies(v, w)
    <3>1. d = Nil \/ d = settings(w, i) \/ d = w.inst[i].holds
      BY <1>2 DEF Reaches
    <3>2. WorldType(w)
      BY DEF Good
    <3>3. \A j \in Instances : /\ settings(u, j) = settings(w, j)
                               /\ u.inst[j].disposed = w.inst[j].disposed
                               /\ Steady(w, j) => Steady(u, j)
      BY <2>3, <3>1, <3>2, AcquiredHosts
    <3>4. \A j \in Instances : /\ settings(v, j) = settings(w, j)
                               /\ v.inst[j].disposed = w.inst[j].disposed
                               /\ Steady(w, j) => Steady(v, j)
      BY <2>6, <3>3 DEF settings, Steady
    <3>5. v.last = w.last
      BY <2>2, <2>3, <2>4, <2>5, <3>2, AcquiredIs, StoredIs
    <3>6. v.slot = w.slot /\ v.held \subseteq w.held
      BY <2>4, <2>6
    <3>7. \A o \in Dirs, b \in Registrations :
            v.store[o].open[b] # <<>> => w.store[o].open[b] # <<>> \/ HeldFor(w, o, b) # {}
      BY <2>6, <2>10
    <3> QED BY <2>6, <3>4, <3>5, <3>6, <3>7, TidiesBy
  <2> QED BY <2>4, <2>6, <2>9, <2>10, <2>11 DEF Bundled
<1> QED BY <1>1, <1>2

LEMMA ResetIs ==
  ASSUME NEW st \in StoreType, FoldsSound(st), OpensSound(st), NEW v, v = Reset(st)
  PROVE  /\ v \in StoreType /\ FoldsSound(v) /\ OpensSound(v) /\ StepsIn(v) \subseteq StepsIn(st)
         /\ ~v.renewed => v = st
         /\ v.rows = st.rows /\ v.counts = st.counts /\ v.signals = st.signals
<1>1. PICK b : b = Blank(st)
  OBVIOUS
<1>2. PICK none : none = [a \in Registrations |-> <<>>]
  OBVIOUS
<1>3. /\ none \in [Registrations -> Seq(Nat)] /\ \A a \in Registrations : none[a] = <<>>
      /\ Unscored \in [Registrations -> Scores]
  BY <1>2 DEF Unscored, Scores
<1>4. b = [open |-> none, idle |-> {}, closed |-> {}, scored |-> Unscored, renewed |-> st.renewed,
           folded |-> st.folded, counts |-> st.counts, rows |-> st.rows, signals |-> st.signals]
  BY <1>1, <1>2 DEF Blank, NewStore, StoreType
<1>5. v = [open |-> none, idle |-> {}, closed |-> {}, scored |-> Unscored, renewed |-> st.renewed \/ st # b,
           folded |-> st.folded, counts |-> st.counts, rows |-> st.rows, signals |-> st.signals]
  <2>1. v = [b EXCEPT !.renewed = @ \/ st # b]
    BY <1>1 DEF Reset
  <2> QED BY <1>4, <2>1
<1>6. v \in StoreType
  BY <1>3, <1>5 DEF StoreType
<1>7. ~v.renewed => v = st
  <2>1. st.renewed \in BOOLEAN
    BY DEF StoreType
  <2>2. ASSUME ~v.renewed PROVE v = st
    <3>0. v.renewed = (st.renewed \/ st # b)
      BY <1>5
    <3>1. ~(st.renewed \/ st # b)
      BY <2>2, <3>0
    <3>2. st = b /\ (st.renewed \/ st # b) = st.renewed
      BY <2>1, <3>1
    <3> QED BY <1>4, <1>5, <3>2
  <2> QED BY <2>2
<1>8. OpenSteps(v) = {} /\ FoldedSteps(v) = FoldedSteps(st)
  BY <1>3, <1>5, NoStep DEF OpenSteps, FoldedSteps
<1>9. OpensSound(v)
  <2>1. ASSUME NEW a \in Registrations PROVE v.open[a] = <<>> /\ OnceEach(v.open[a]) /\ StepSet(v.open[a]) = {}
    BY <1>3, <1>5, NoStep
  <2> QED BY <2>1 DEF OpensSound
<1>10. FoldsSound(v)
  <2>1. CASE ~v.renewed
    BY <1>7, <2>1
  <2>2. CASE v.renewed
    <3>1. v.folded = st.folded /\ OpenSteps(v) = {}
      BY <1>5, <1>8
    <3>2. ASSUME NEW n \in DOMAIN v.folded
          PROVE  /\ OnceEach(v.folded[n].steps)
                 /\ StepSet(v.folded[n].steps) \cap OpenSteps(v) = {}
                 /\ \A m \in DOMAIN v.folded :
                      m # n => StepSet(v.folded[m].steps) \cap StepSet(v.folded[n].steps) = {}
                 /\ \A e \in StepSet(v.folded[n].steps) : Own(v.folded[n].attempt, e)
      BY <3>1, <3>2 DEF FoldsSound
    <3> QED BY <2>2, <3>2, Zenon DEF FoldsSound
  <2> QED BY <2>1, <2>2
<1> QED BY <1>5, <1>6, <1>7, <1>8, <1>9, <1>10 DEF StepsIn

LEMMA ReleasedSound ==
  ASSUME NEW w, NEW X, Good(w, X), NEW v, v = Released(w)
  PROVE  Good(v, X) /\ Tidies(v, w) /\ v.inst = w.inst /\ v.held = w.held
<1>0. \A d \in Dirs : w.store[d] \in StoreType
  BY InStore
<1>1. WorldType(w)
  BY DEF Good
<1>2. PICK stores : stores = [d \in Dirs |-> IF holders(w, d) = {} THEN Reset(w.store[d]) ELSE w.store[d]]
  OBVIOUS
<1>3. ASSUME NEW d \in Dirs
      PROVE  /\ stores[d] \in StoreType /\ FoldsSound(stores[d]) /\ OpensSound(stores[d])
             /\ StepsIn(stores[d]) \subseteq StepsIn(w.store[d])
             /\ ~stores[d].renewed => stores[d] = w.store[d]
             /\ stores[d].rows = w.store[d].rows /\ stores[d].counts = w.store[d].counts
             /\ stores[d].signals = w.store[d].signals
  <2>1. w.store[d] \in StoreType /\ FoldsSound(w.store[d]) /\ OpensSound(w.store[d])
    BY InStore
  <2>2. CASE stores[d] = Reset(w.store[d])
    BY <2>1, <2>2, ResetIs
  <2>3. CASE stores[d] = w.store[d]
    BY <2>1, <2>3
  <2> QED BY <1>2, <2>2, <2>3
<1>4. v = [w EXCEPT !.store = stores]
  BY <1>2 DEF Released
<1>5. /\ v.store = stores /\ v.held = w.held /\ v.seen = w.seen /\ v.scored = w.scored
      /\ v.signalled = w.signalled /\ v.inst = w.inst /\ v.slot = w.slot /\ v.last = w.last
  BY <1>1, <1>4 DEF WorldType
<1>6. WorldType(v)
  <2>1. stores \in [Dirs -> StoreType]
    BY <1>2, <1>3
  <2> QED BY <1>1, <1>4, <2>1 DEF WorldType
<1>7. StepsSound(v, X)
  <2>1. ASSUME NEW d \in Dirs PROVE HeldSound(v.held, d, v.store[d]) /\ SeenSound(v, d, X)
    <3>1. HeldSound(w.held, d, w.store[d]) /\ SeenSound(w, d, X)
      BY InStore
    <3> QED BY <1>3, <1>5, <3>1 DEF HeldSound, SeenSound, StepsIn
  <2> QED BY <1>3, <1>5, <2>1 DEF StepsSound
<1>8. BooksSound(v)
  <2>1. BooksAgree(w) /\ SignalsAreOne(w)
    BY DEF Good, BooksSound
  <2>2. BooksAgree(v)
    <3>1. ASSUME OneStoryOf(v) PROVE \A d \in Dirs : v.store[d] = w.store[d]
      BY <1>3, <1>5, <3>1 DEF OneStoryOf
    <3>2. ASSUME OneStoryOf(v) PROVE OneStoryOf(w)
      BY <3>1, <3>2 DEF OneStoryOf
    <3> QED BY <1>5, <2>1, <3>1, <3>2 DEF BooksAgree
  <2>3. \A n : FewRefusals(w, n) => FewRefusals(v, n)
    BY <1>5, FewMore
  <2>4. SignalsAreOne(v)
    BY <1>3, <1>5, <2>1, <2>3 DEF SignalsAreOne
  <2> QED BY <2>2, <2>4 DEF BooksSound
<1>9. \A d \in Dirs, a \in Registrations :
        v.store[d].open[a] # <<>> => w.store[d].open[a] # <<>> \/ HeldFor(w, d, a) # {}
  <2>1. ASSUME NEW d \in Dirs, NEW a \in Registrations, v.store[d].open[a] # <<>>
        PROVE  w.store[d].open[a] # <<>>
    <3>1. stores[d] = Reset(w.store[d]) \/ stores[d] = w.store[d]
      BY <1>2
    <3>2. Reset(w.store[d]).open[a] = <<>>
      BY <1>0, OpensRemain
    <3> QED BY <1>5, <2>1, <3>1, <3>2
  <2> QED BY <2>1
<1>10. Tidies(v, w)
  BY <1>5, <1>9, TidiesHosts, TidiesBy
<1> QED BY <1>5, <1>6, <1>7, <1>8, <1>10 DEF Good

\* StillHeld: what nobody holds any more is not the instance's.
LEMMA StillHeldSound ==
  ASSUME NEW w, NEW X, Good(w, X), NEW i \in Instances, NEW v, v = StillHeld(w, i)
  PROVE  Good(v, X) /\ Tidies(v, w)
<1>1. WorldType(w)
  BY DEF Good
<1>2. PICK m, K : m = w.inst[i] /\ K = {k \in m.owned : HeldFor(w, k[1], k[2]) # {}}
  OBVIOUS
<1>3. m \in InstanceType
  BY <1>1, <1>2 DEF WorldType
<1>4. PICK n : n = [m EXCEPT !.owned = K]
  OBVIOUS
<1>5. n \in InstanceType /\ n.settings = m.settings /\ n.disposed = m.disposed /\ n.holds = m.holds
  <2>1. K \subseteq m.owned
    BY <1>2
  <2>2. n = [settings |-> m.settings, holds |-> m.holds, recorder |-> m.recorder, owned |-> K,
             disposed |-> m.disposed]
    BY <1>3, <1>4 DEF InstanceType
  <2> QED BY <1>3, <2>1, <2>2 DEF InstanceType
<1>6. v = [w EXCEPT !.inst = [w.inst EXCEPT ![i] = n]]
  BY <1>1, <1>2, <1>4 DEF StillHeld, WorldType
<1>7. /\ WorldType(v) /\ v.inst[i] = n /\ \A j \in Instances \ {i} : v.inst[j] = w.inst[j]
      /\ v.store = w.store /\ v.held = w.held /\ v.seen = w.seen /\ v.scored = w.scored
      /\ v.signalled = w.signalled /\ v.slot = w.slot /\ v.last = w.last
  BY <1>1, <1>5, <1>6 DEF WorldType
<1>8. Good(v, X)
  BY <1>7, GoodAside
<1>9. \A j \in Instances : /\ settings(v, j) = settings(w, j)
                           /\ v.inst[j].disposed = w.inst[j].disposed
                           /\ Steady(w, j) => Steady(v, j)
  BY <1>2, <1>5, <1>7 DEF settings, Steady
<1>10. Tidies(v, w)
  BY <1>7, <1>9, TidiesBy
<1> QED BY <1>8, <1>10

LEMMA AcquiredSound ==
  ASSUME NEW w, NEW X, Good(w, X), NEW i \in Instances, NEW d \in Dirs \union {Nil},
         d = Nil \/ d = settings(w, i) \/ d = w.inst[i].holds, NEW v, v = Acquired(w, i, d)
  PROVE  Good(v, X) /\ Tidies(v, w) /\ v.inst[i].holds = d /\ v.held = w.held
<1>1. WorldType(w)
  BY DEF Good
<1>2. \A j \in Instances : /\ settings(v, j) = settings(w, j)
                           /\ v.inst[j].disposed = w.inst[j].disposed
                           /\ Steady(w, j) => Steady(v, j)
  BY <1>1, AcquiredHosts
<1>3. /\ WorldType(v)
      /\ v.store = w.store /\ v.held = w.held /\ v.seen = w.seen /\ v.scored = w.scored
      /\ v.signalled = w.signalled /\ v.slot = w.slot /\ v.inst[i].holds = d /\ v.last = w.last
  BY <1>1, AcquiredIs
<1>4. Good(v, X)
  BY <1>3, GoodAside
<1>5. Tidies(v, w)
  BY <1>2, <1>3, TidiesBy
<1> QED BY <1>3, <1>4, <1>5

LEMMA HostTypes ==
  ASSUME NEW w, NEW X, Good(w, X), NEW i \in Instances
  PROVE  /\ currentDir(w, i) \in Dirs \union {Nil} /\ settings(w, i) \in Dirs \union {Off}
         /\ w.inst[i].holds \in Dirs \union {Nil}
         /\ \A d \in Dirs : w.last[d] \in Registrations \union {0}
         /\ w.slot # Nil => w.slot \in Slot
<1>1. /\ w.inst[i].settings \in Dirs \union {Off} /\ w.inst[i].holds \in Dirs \union {Nil}
      /\ \A d \in Dirs : w.last[d] \in Registrations \union {0}
      /\ w.slot # Nil => w.slot \in Slot
  BY DEF Good, WorldType, InstanceType
<1> QED BY <1>1 DEF currentDir, settings

LEMMA SettleOwnedSound ==
  ASSUME NEW w, NEW X, Good(w, X), NEW i \in Instances, NEW v, v = settleOwned(w, i)
  PROVE  Good(v, X) /\ Tidies(v, w)
<1>1. PICK d, due : /\ d = currentDir(w, i)
                    /\ due = {h \in w.held : h.dir = d /\ <<d, h.attempt>> \in w.inst[i].owned}
  OBVIOUS
<1>2. PICK u : u = settleAll(w, i, d, due)
  OBVIOUS
<1>3. v = StillHeld(u, i)
  BY <1>1, <1>2, Zenon DEF settleOwned
<1>4. Good(u, X) /\ Tidies(u, w)
  <2>1. CASE d \in Dirs
    BY <1>1, <1>2, <2>1, SettleAllSound
  <2>2. CASE d \notin Dirs
    <3>1. due = {}
      BY <1>1, <2>2 DEF Good, WorldType, HeldStep
    <3> QED BY <1>2, <3>1, TidiesItself DEF settleAll
  <2> QED BY <2>1, <2>2
<1>5. Good(v, X) /\ Tidies(v, u)
  BY <1>3, <1>4, StillHeldSound
<1> QED BY <1>4, <1>5, TidiesAdds

LEMMA HoldingSound ==
  ASSUME NEW w, NEW X, Good(w, X), NEW i \in Instances, NEW d \in Dirs \union {Nil},
         d = Nil \/ d = settings(w, i), NEW v, v = Holding(w, i, d)
  PROVE  Good(v, X) /\ Tidies(v, w) /\ v.inst[i].holds = d
<1>1. PICK u : u = Acquired(w, i, d)
  OBVIOUS
<1>2. Good(u, X) /\ Tidies(u, w) /\ u.inst[i].holds = d
  BY <1>1, AcquiredSound
<1>3. v = Released(u)
  BY <1>1 DEF Holding
<1>4. Good(v, X) /\ Tidies(v, u) /\ v.inst = u.inst
  BY <1>2, <1>3, ReleasedSound
<1> QED BY <1>2, <1>4, TidiesAdds

\* bundleFor: afterwards the instance holds the directory of its settings.
LEMMA BundleSound ==
  ASSUME NEW w, NEW X, Good(w, X), NEW i \in Instances, settings(w, i) # Off, NEW v, v = bundleFor(w, i)
  PROVE  Good(v, X) /\ Tidies(v, w) /\ v.inst[i].holds = settings(w, i)
<1>1. settings(w, i) \in Dirs
  BY HostTypes
<1>2. CASE w.inst[i].holds = settings(w, i)
  <2>1. v = w
    BY <1>1, <1>2, IngestAssumption DEF bundleFor
  <2> QED BY <1>2, <2>1, TidiesItself
<1>3. CASE w.inst[i].holds # settings(w, i) /\ w.inst[i].holds = Nil
  <2>1. v = Acquired(w, i, settings(w, i))
    BY <1>3 DEF bundleFor
  <2> QED BY <1>1, <2>1, AcquiredSound
<1>4. CASE w.inst[i].holds # settings(w, i) /\ w.inst[i].holds # Nil
  <2>1. PICK u : u = settleOwned(w, i)
    OBVIOUS
  <2>2. Good(u, X) /\ Tidies(u, w)
    BY <2>1, SettleOwnedSound
  <2>3. v = Holding(u, i, settings(w, i))
    BY <1>4, <2>1 DEF bundleFor
  <2>4. Good(v, X) /\ Tidies(v, u) /\ v.inst[i].holds = settings(w, i)
    <3>1. settings(u, i) = settings(w, i)
      BY <2>2 DEF Tidies, SameHosts
    <3> QED BY <1>1, <2>2, <2>3, <3>1, HoldingSound
  <2> QED BY <2>2, <2>4, TidiesAdds
<1> QED BY <1>2, <1>3, <1>4

LEMMA DropSound ==
  ASSUME NEW w, NEW X, Good(w, X), NEW i \in Instances, NEW v, v = dropIfOff(w, i)
  PROVE  Good(v, X) /\ Tidies(v, w)
<1>1. CASE v = w
  BY <1>1, TidiesItself
<1>2. CASE v = Holding(settleOwned(w, i), i, Nil)
  <2>1. PICK u : u = settleOwned(w, i)
    OBVIOUS
  <2>2. Good(u, X) /\ Tidies(u, w)
    BY <2>1, SettleOwnedSound
  <2>3. Good(v, X) /\ Tidies(v, u)
    BY <1>2, <2>1, <2>2, HoldingSound
  <2> QED BY <2>2, <2>3, TidiesAdds
<1> QED BY <1>1, <1>2 DEF dropIfOff

LEMMA EndAttemptSound ==
  ASSUME NEW w, NEW X, Good(w, X), NEW i \in Instances, NEW d \in Dirs, NEW a \in Registrations,
         NEW v, v = endAttempt(w, i, d, a)
  PROVE  /\ Good(v, X) /\ Tidies(v, w) /\ (Bundled(w, i, d) => Bundled(v, i, d))
         /\ Reaches(w, i, d) => ~LeftIn(v, d, a)
<1>0. PICK f \in BOOLEAN : f = TRUE
  OBVIOUS
<1>1. PICK u : u = settle(w, i, d, a, f)
  OBVIOUS
<1>2. /\ Good(u, X) /\ Tidies(u, w) /\ (Bundled(w, i, d) => Bundled(u, i, d))
      /\ Reaches(w, i, d) => HeldFor(u, d, a) = {} /\ Reaches(u, i, d)
  BY <1>1, SettleSound
<1>3. v = closeIn(u, i, d, a)
  BY <1>0, <1>1 DEF endAttempt
<1>4. /\ Good(v, X) /\ Tidies(v, u) /\ (Bundled(u, i, d) => Bundled(v, i, d)) /\ v.held = u.held
      /\ Reaches(u, i, d) => v.store[d].open[a] = <<>>
  BY <1>2, <1>3, CloseInSound
<1>5. Reaches(w, i, d) => ~LeftIn(v, d, a)
  BY <1>2, <1>4 DEF LeftIn, HeldFor
<1> QED BY <1>2, <1>4, <1>5, TidiesAdds

LEMMA LastSet ==
  ASSUME NEW w, NEW X, Good(w, X), NEW d \in Dirs, NEW a \in Registrations \union {0},
         NEW v, v = [w EXCEPT !.last[d] = a]
  PROVE  /\ Good(v, X) /\ SameHosts(v, w) /\ v.inst = w.inst /\ v.held = w.held
         /\ v.store = w.store /\ v.seen = w.seen /\ v.slot = w.slot /\ v.last[d] = a
         /\ \A o \in Dirs \ {d} : v.last[o] = w.last[o]
<1>1. WorldType(w)
  BY DEF Good
<1>2. v = [w EXCEPT !.last = [w.last EXCEPT ![d] = a]]
  BY <1>1 DEF WorldType
<1>3. /\ WorldType(v) /\ v.inst = w.inst
      /\ v.store = w.store /\ v.held = w.held /\ v.seen = w.seen /\ v.scored = w.scored
      /\ v.signalled = w.signalled /\ v.slot = w.slot /\ v.last = [w.last EXCEPT ![d] = a]
  <2>1. [w.last EXCEPT ![d] = a] \in [Dirs -> Registrations \union {0}]
    BY <1>1 DEF WorldType
  <2> QED BY <1>1, <1>2, <2>1 DEF WorldType
<1>4. Good(v, X)
  BY <1>3, GoodAside
<1>5. v.last[d] = a /\ \A o \in Dirs \ {d} : v.last[o] = w.last[o]
  BY <1>1, <1>3 DEF WorldType
<1>6. SameHosts(v, w)
  <2>1. v.inst = w.inst /\ v.slot = w.slot /\ v.seen = w.seen
    BY <1>3
  <2> QED BY <2>1, HostsSame
<1> QED BY <1>3, <1>4, <1>5, <1>6

\* What a directory's last attempt had is not left in it.
Closes(v, w, d) == \A a \in Registrations : w.last[d] = a => ~LeftIn(v, d, a)

LEMMA CloseLastSound ==
  ASSUME NEW w, NEW X, Good(w, X), NEW i \in Instances, NEW d \in Dirs \union {Nil},
         d # Nil => Reaches(w, i, d), NEW v, v = closeLastAttempt(w, i, d)
  PROVE  Good(v, X) /\ Tidies(v, w) /\ (d # Nil => Closes(v, w, d))
<1>1. CASE d = Nil \/ w.last[d] = 0
  <2>1. v = w
    BY <1>1 DEF closeLastAttempt
  <2>2. 0 \notin Registrations
    BY DEF Registrations
  <2> QED BY <1>1, <2>1, <2>2, TidiesItself DEF Closes
<1>2. CASE ~(d = Nil \/ w.last[d] = 0)
  <2>1. d \in Dirs /\ w.last[d] \in Registrations
    BY <1>2, HostTypes
  <2>2. PICK u : u = [w EXCEPT !.last[d] = 0]
    OBVIOUS
  <2>3. /\ Good(u, X) /\ SameHosts(u, w) /\ u.inst = w.inst /\ u.held = w.held
        /\ u.store = w.store /\ u.seen = w.seen
        /\ \A o \in Dirs \ {d} : u.last[o] = w.last[o]
    BY <2>1, <2>2, LastSet
  <2>4. v = endAttempt(u, i, d, w.last[d])
    BY <1>2, <2>2 DEF closeLastAttempt
  <2>5. Reaches(u, i, d)
    BY <1>2, <2>3 DEF Reaches, settings
  <2>6. Good(v, X) /\ Tidies(v, u) /\ ~LeftIn(v, d, w.last[d])
    BY <2>1, <2>3, <2>4, <2>5, EndAttemptSound
  <2>7. ASSUME NEW o \in Dirs, NEW a \in Registrations, LeftIn(v, o, a)
        PROVE  LeftIn(w, o, a) /\ (w.last[o] = a => v.last[o] = a)
    <3>1. LeftIn(u, o, a) /\ (u.last[o] = a => v.last[o] = a)
      BY <2>6, <2>7 DEF Tidies, Lasts
    <3>2. LeftIn(w, o, a)
      BY <2>3, <3>1 DEF LeftIn, HeldFor
    <3> QED BY <2>3, <2>6, <2>7, <3>1, <3>2
  <2>8. SameHosts(v, w) /\ v.seen = w.seen
    BY <2>3, <2>6, SameHostsAdds DEF Tidies
  <2> QED BY <2>6, <2>7, <2>8 DEF Tidies, Lasts, Closes
<1> QED BY <1>1, <1>2

\* An instance that lives reaches the store of the directory it works on.
LEMMA CurrentReaches ==
  ASSUME NEW w, NEW i \in Instances, ~w.inst[i].disposed, currentDir(w, i) # Nil
  PROVE  Reaches(w, i, currentDir(w, i))
BY DEF currentDir, Reaches

\* The registration's own fields.
LEMMA SlotSet ==
  ASSUME NEW w, NEW X, Good(w, X), NEW s \in Slot \union {Nil}, NEW v, v = [w EXCEPT !.slot = s]
  PROVE  /\ Good(v, X) /\ v.slot = s /\ v.inst = w.inst /\ v.seen = w.seen
         /\ v.last = w.last /\ v.held = w.held /\ v.store = w.store
         /\ (s # Nil => w.slot # Nil /\ s.attempt = w.slot.attempt /\ s.outcomes = w.slot.outcomes)
               => Tidies(v, w)
<1>1. WorldType(w)
  BY DEF Good
<1>2. /\ WorldType(v) /\ v.slot = s /\ v.inst = w.inst
      /\ v.store = w.store /\ v.held = w.held /\ v.seen = w.seen /\ v.scored = w.scored
      /\ v.signalled = w.signalled /\ v.last = w.last
  BY <1>1 DEF WorldType
<1>3. Good(v, X)
  BY <1>2, GoodAside
<1>4. \A j \in Instances : /\ settings(v, j) = settings(w, j)
                           /\ v.inst[j].disposed = w.inst[j].disposed
                           /\ Steady(w, j) => Steady(v, j)
  BY <1>2, TidiesHosts
<1>5. (s # Nil => w.slot # Nil /\ s.attempt = w.slot.attempt /\ s.outcomes = w.slot.outcomes)
         => Tidies(v, w)
  BY <1>2, <1>4, TidiesBy
<1> QED BY <1>2, <1>3, <1>5

LEMMA TouchSound ==
  ASSUME NEW w, NEW X, Good(w, X), NEW v, v = touchDispatch(w)
  PROVE  Good(v, X) /\ Tidies(v, w)
<1>1. CASE w.slot = Nil
  BY <1>1, TidiesItself DEF touchDispatch
<1>2. CASE w.slot # Nil
  <2>1. PICK s : s = [w.slot EXCEPT !.idle = FALSE]
    OBVIOUS
  <2>2. s \in Slot /\ s.attempt = w.slot.attempt /\ s.outcomes = w.slot.outcomes
    BY <1>2, <2>1 DEF Good, WorldType, Slot
  <2>3. v = [w EXCEPT !.slot = s]
    BY <1>2, <2>1 DEF touchDispatch, Good, WorldType
  <2> QED BY <1>2, <2>2, <2>3, SlotSet
<1> QED BY <1>1, <1>2

LEMMA NotedSound ==
  ASSUME NEW w, NEW X, Good(w, X), NEW e \in Nat, NEW v, v = noteStepContext(w, e)
  PROVE  Good(v, X) /\ Tidies(v, w)
<1>1. CASE w.slot = Nil
  BY <1>1, TidiesItself DEF noteStepContext
<1>2. CASE w.slot # Nil
  <2>1. PICK s : s = [w.slot EXCEPT !.noted = @ \union {e}, !.idle = FALSE]
    OBVIOUS
  <2>2. s \in Slot /\ s.attempt = w.slot.attempt /\ s.outcomes = w.slot.outcomes
    BY <1>2, <2>1 DEF Good, WorldType, Slot
  <2>3. v = [w EXCEPT !.slot = s]
    BY <1>2, <2>1 DEF noteStepContext, Good, WorldType
  <2> QED BY <1>2, <2>2, <2>3, SlotSet
<1> QED BY <1>1, <1>2

LEMMA EndNotedSound ==
  ASSUME NEW w, NEW X, Good(w, X), w.slot # Nil, NEW e \in Nat, NEW v, v = noteExecutionEnded(w, e)
  PROVE  /\ Good(v, X) /\ Tidies(v, w)
         /\ v.inst = w.inst /\ v.last = w.last /\ v.seen = w.seen
<1>1. CASE e \in w.seenEnds
  BY <1>1, TidiesItself DEF noteExecutionEnded
<1>2. CASE e \notin w.seenEnds
  <2>1. WorldType(w)
    BY DEF Good
  <2>2. PICK s : s = [w.slot EXCEPT !.ended = TRUE, !.idle = FALSE]
    OBVIOUS
  <2>3. s \in Slot /\ s.attempt = w.slot.attempt /\ s.outcomes = w.slot.outcomes
    BY <2>1, <2>2 DEF WorldType, Slot
  <2>4. v = [w EXCEPT !.seenEnds = w.seenEnds \union {e}, !.slot = s]
    BY <1>2, <2>1, <2>2 DEF noteExecutionEnded, WorldType
  <2>5. /\ WorldType(v) /\ v.slot = s /\ v.inst = w.inst
        /\ v.store = w.store /\ v.held = w.held /\ v.seen = w.seen /\ v.scored = w.scored
        /\ v.signalled = w.signalled /\ v.last = w.last
    <3>1. PICK ends : ends = w.seenEnds \union {e}
      OBVIOUS
    <3>2. ends \in SUBSET Nat
      BY <2>1, <3>1 DEF WorldType
    <3>3. v = [w EXCEPT !.seenEnds = ends, !.slot = s]
      BY <2>4, <3>1
    <3> QED BY <2>1, <2>3, <3>2, <3>3 DEF WorldType
  <2>6. Good(v, X)
    BY <2>5, GoodAside
  <2>7. \A j \in Instances : /\ settings(v, j) = settings(w, j)
                             /\ v.inst[j].disposed = w.inst[j].disposed
                             /\ Steady(w, j) => Steady(v, j)
    BY <2>5, TidiesHosts
  <2>8. Tidies(v, w)
    BY <2>3, <2>5, <2>7, TidiesBy
  <2> QED BY <2>5, <2>6, <2>8
<1> QED BY <1>1, <1>2

LEMMA SeenMore ==
  ASSUME NEW w, NEW X, Good(w, X), NEW K, NEW v, v = [w EXCEPT !.seen = @ \union K]
  PROVE  /\ Good(v, X) /\ SameHosts(v, w) /\ v.seen = w.seen \union K
         /\ v.slot = w.slot /\ v.inst = w.inst /\ v.store = w.store /\ v.held = w.held /\ v.last = w.last
         /\ K \cap w.seen = {} => Good(v, X \union K)
<1>1. WorldType(w)
  BY DEF Good
<1>2. /\ v.slot = w.slot /\ v.inst = w.inst /\ v.store = w.store /\ v.held = w.held
      /\ v.seen = w.seen \union K /\ v.scored = w.scored
      /\ v.signalled = w.signalled /\ v.last = w.last
  BY <1>1 DEF WorldType
<1>3. WorldType(v)
  BY <1>1, <1>2 DEF WorldType
<1>4. Good(v, X)
  BY <1>2, <1>3, GoodAside
<1>5. ASSUME K \cap w.seen = {} PROVE Good(v, X \union K)
  <2>1. ASSUME NEW d \in Dirs PROVE SeenSound(v, d, X \union K)
    <3>1. SeenSound(w, d, X)
      BY InStore
    <3> QED BY <1>2, <1>5, <3>1 DEF SeenSound
  <2> QED BY <1>4, <2>1 DEF Good, StepsSound
<1>6. SameHosts(v, w)
  <2>1. \A j \in Instances : /\ settings(v, j) = settings(w, j)
                             /\ v.inst[j].disposed = w.inst[j].disposed
                             /\ Steady(w, j) => Steady(v, j)
    BY <1>2, TidiesHosts
  <2>2. v.slot # Nil => /\ w.slot # Nil /\ v.slot.attempt = w.slot.attempt
                        /\ v.slot.outcomes = w.slot.outcomes
    BY <1>2
  <2>3. w.seen \subseteq v.seen
    BY <1>2
  <2> QED BY ONLY <2>1, <2>2, <2>3 DEF SameHosts
<1> QED BY <1>2, <1>4, <1>5, <1>6

\* The end e has been delivered for a directory: its last attempt is closed.
Ends(v, w, d, e) ==
  /\ SameHosts(v, w)
  /\ v.seen \subseteq w.seen \union {<<o, "end", e>> : o \in {d} \ {Nil}}
  /\ \A o \in Dirs, a \in Registrations : Lasts(v, w, o, a)
  /\ d # Nil => <<d, "end", e>> \in w.seen \/ Closes(v, w, d)

LEMMA FoldEndSound ==
  ASSUME NEW w, NEW X, Good(w, X), NEW i \in Instances, NEW d \in Dirs \union {Nil}, NEW e,
         d # Nil => Reaches(w, i, d), NEW v, v = FoldEnd(w, i, d, e)
  PROVE  Good(v, X) /\ Ends(v, w, d, e)
<1>1. CASE d = Nil \/ ~firstDelivery(w, d, "end", e)
  <2>1. v = w
    BY <1>1 DEF FoldEnd
  <2> QED BY <1>1, <2>1, TidiesItself DEF Tidies, Ends, firstDelivery
<1>2. CASE ~(d = Nil \/ ~firstDelivery(w, d, "end", e))
  <2>1. PICK K : K = {<<d, "end", e>>}
    OBVIOUS
  <2>2. PICK u : u = [w EXCEPT !.seen = @ \union K]
    OBVIOUS
  <2>3. /\ Good(u, X) /\ SameHosts(u, w) /\ u.seen = w.seen \union K
        /\ u.inst = w.inst /\ u.store = w.store /\ u.held = w.held /\ u.last = w.last
    <3>1. Good(u, X) /\ SameHosts(u, w) /\ u.seen = w.seen \union K
      <4>1. Good(u, X)
        BY <2>2, SeenMore
      <4>2. SameHosts(u, w)
        BY <2>2, SeenMore
      <4>3. u.seen = w.seen \union K
        BY <2>2, SeenMore
      <4> QED BY <4>1, <4>2, <4>3
    <3>2. u.inst = w.inst /\ u.store = w.store /\ u.held = w.held /\ u.last = w.last
      BY <2>2, SeenMore
    <3> QED BY <3>1, <3>2
  <2>4. v = closeLastAttempt(u, i, d)
    BY <1>2, <2>1, <2>2 DEF FoldEnd
  <2>5. d # Nil => Reaches(u, i, d)
    BY <2>3 DEF Reaches, settings
  <2>6. Good(v, X) /\ Tidies(v, u) /\ Closes(v, u, d)
    BY <1>2, <2>3, <2>4, <2>5, CloseLastSound
  <2>7. SameHosts(v, w) /\ v.seen = w.seen \union K
    BY <2>3, <2>6, SameHostsAdds DEF Tidies
  <2>8. \A o \in Dirs, a \in Registrations : Lasts(v, w, o, a)
    <3>1. \A o \in Dirs, a \in Registrations : LeftIn(u, o, a) => LeftIn(w, o, a)
      BY <2>3 DEF LeftIn, HeldFor
    <3> QED BY <2>3, <2>6, <3>1 DEF Tidies, Lasts
  <2>9. Closes(v, w, d)
    BY <2>3, <2>6 DEF Closes
  <2>10. v.seen \subseteq w.seen \union {<<o, "end", e>> : o \in {d} \ {Nil}}
    BY <1>2, <2>1, <2>7
  <2> QED BY <2>6, <2>7, <2>8, <2>9, <2>10 DEF Ends
<1> QED BY <1>1, <1>2

\* onExecutionEnded; without a registration it leaves everything as it is.
LEMMA EndedSound ==
  ASSUME NEW w, NEW X, Good(w, X), NEW i \in Instances, ~w.inst[i].disposed, NEW e \in Nat,
         NEW v, v = onExecutionEnded(w, i, e)
  PROVE  Good(v, X) /\ (w.slot = Nil => v = w) /\ (w.slot # Nil => Ends(v, w, currentDir(w, i), e))
<1>1. CASE w.slot = Nil
  BY <1>1 DEF onExecutionEnded
<1>2. CASE w.slot # Nil
  <2>1. PICK u : u = noteExecutionEnded(w, e)
    OBVIOUS
  <2>2. Good(u, X) /\ Tidies(u, w) /\ u.inst = w.inst /\ u.last = w.last /\ u.seen = w.seen
    BY <1>2, <2>1, EndNotedSound
  <2>3. PICK d : d = currentDir(w, i)
    OBVIOUS
  <2>4. v = FoldEnd(u, i, d, e)
    BY <1>2, <2>1, <2>3 DEF onExecutionEnded
  <2>5. d # Nil => Reaches(u, i, d)
    BY <2>2, <2>3, CurrentReaches DEF Reaches, settings
  <2>6. d \in Dirs \union {Nil}
    BY <2>3, HostTypes
  <2>7. Good(v, X) /\ Ends(v, u, d, e)
    BY <2>2, <2>4, <2>5, <2>6, FoldEndSound
  <2>8. SameHosts(v, w)
    BY <2>2, <2>7, SameHostsAdds DEF Tidies, Ends
  <2>9. \A o \in Dirs, a \in Registrations : Lasts(v, w, o, a)
    BY <2>2, <2>7 DEF Tidies, Ends, Lasts
  <2>10. d # Nil => <<d, "end", e>> \in w.seen \/ Closes(v, w, d)
    BY <2>2, <2>7 DEF Ends, Closes
  <2>11. v.seen \subseteq w.seen \union {<<o, "end", e>> : o \in {d} \ {Nil}}
    BY <2>2, <2>7 DEF Ends
  <2> QED BY <1>2, <2>3, <2>7, <2>8, <2>9, <2>10, <2>11 DEF Ends
<1> QED BY <1>1, <1>2

LEMMA GoneSound ==
  ASSUME NEW w, NEW X, Good(w, X), NEW i \in Instances, ~w.inst[i].disposed,
         NEW v, v = onSessionGone(w, i)
  PROVE  Good(v, X) /\ Tidies(v, w)
<1>1. CASE w.slot = Nil
  BY <1>1, TidiesItself DEF onSessionGone
<1>2. CASE w.slot # Nil
  <2>1. PICK u : u = closeLastAttempt(w, i, currentDir(w, i))
    OBVIOUS
  <2>2. Good(u, X) /\ Tidies(u, w)
    BY <2>1, HostTypes, CurrentReaches, CloseLastSound
  <2>3. v = [u EXCEPT !.slot = Nil]
    BY <1>2, <2>1 DEF onSessionGone
  <2>4. Good(v, X) /\ Tidies(v, u)
    BY <2>2, <2>3, SlotSet
  <2> QED BY <2>2, <2>4, TidiesAdds
<1> QED BY <1>1, <1>2

\* The sweep, in its order: the bundle of a static engine, the registry, the attempts and the finals
\* held, what the instance owns, the idle attempts of its store.
LEMMA SweepDirSound ==
  ASSUME NEW w, NEW X, Good(w, X), NEW i \in Instances, NEW d \in Dirs \union {Nil},
         d # Nil => Reaches(w, i, d), NEW v, v = SweepDir(w, i, d)
  PROVE  Good(v, X) /\ Tidies(v, w) /\ (d # Nil /\ w.slot = Nil => Closes(v, w, d))
<1>1. CASE d = Nil
  BY <1>1, TidiesItself DEF SweepDir
<1>2. CASE d # Nil
  <2>1. PICK u : u = IF w.slot = Nil THEN closeLastAttempt(w, i, d) ELSE w
    OBVIOUS
  <2>2. Good(u, X) /\ Tidies(u, w) /\ (w.slot = Nil => Closes(u, w, d))
    <3>1. CASE w.slot = Nil /\ u = closeLastAttempt(w, i, d)
      BY <1>2, <3>1, CloseLastSound
    <3>2. CASE w.slot # Nil /\ u = w
      BY <3>2, TidiesItself
    <3> QED BY <2>1, <3>1, <3>2
  <2>3. PICK due : due = {h \in u.held : h.dir = d /\ h.idle}
    OBVIOUS
  <2>4. v = settleAll(u, i, d, due)
    BY <1>2, <2>1, <2>3, Zenon DEF SweepDir, SweepIdle
  <2>5. d \in Dirs /\ due \in SUBSET u.held /\ \A h \in due : h.dir = d
    BY <1>2, <2>3
  <2>6. Good(v, X) /\ Tidies(v, u)
    BY <2>2, <2>4, <2>5, SettleAllSound
  <2>7. w.slot = Nil => Closes(v, w, d)
    BY <2>2, <2>5, <2>6 DEF Tidies, Lasts, Closes
  <2> QED BY <2>2, <2>6, <2>7, TidiesAdds
<1> QED BY <1>1, <1>2

LEMMA SweepStoreSound ==
  ASSUME NEW w, NEW X, Good(w, X), NEW d \in Dirs \union {Nil}, NEW v, v = SweepStore(w, d)
  PROVE  Good(v, X) /\ Tidies(v, w)
<1>1. CASE d = Nil
  BY <1>1, TidiesItself DEF SweepStore
<1>2. CASE d # Nil
  <2>1. d \in Dirs /\ WorldType(w)
    BY <1>2 DEF Good
  <2>2. PICK st : st = sweepAttempts(w.store[d])
    OBVIOUS
  <2>3. /\ st \in StoreType /\ Kept(st, w.store[d]) /\ FoldsSound(st) /\ OpensSound(st)
        /\ StepsIn(st) \subseteq StepsIn(w.store[d])
    BY <2>1, <2>2, InStore, SweepSound
  <2>4. v = Stored(w, d, st)
    BY <1>2, <2>2 DEF SweepStore
  <2>5. /\ WorldType(v) /\ v.store[d] = st /\ \A o \in Dirs \ {d} : v.store[o] = w.store[o]
        /\ v.held = w.held /\ v.seen = w.seen /\ v.scored = w.scored /\ v.signalled = w.signalled
        /\ v.inst = w.inst /\ v.slot = w.slot /\ v.last = w.last
    BY <2>1, <2>3, <2>4, StoredIs
  <2>6. PICK due : due = {}
    OBVIOUS
  <2>7. /\ due \in SUBSET w.held /\ v.held = w.held \ due /\ \A h \in due : h.dir = d
        /\ FoldedSteps(v.store[d]) \union OpenSteps(v.store[d])
              \subseteq FoldedSteps(w.store[d]) \union OpenSteps(w.store[d]) \union {h.step : h \in due}
    BY <2>3, <2>5, <2>6 DEF StepsIn
  <2>8. Good(v, X)
    BY <2>1, <2>3, <2>5, <2>7, GoodMoves DEF Kept
  <2>9. \A o \in Dirs, a \in Registrations :
          v.store[o].open[a] # <<>> => w.store[o].open[a] # <<>> \/ HeldFor(w, o, a) # {}
    <3>1. \A a \in Registrations : st.open[a] # <<>> => w.store[d].open[a] # <<>>
      BY <2>1, <2>2, InStore, OpensRemain
    <3> QED BY <2>5, <3>1
  <2>10. \A j \in Instances : /\ settings(v, j) = settings(w, j)
                              /\ v.inst[j].disposed = w.inst[j].disposed
                              /\ Steady(w, j) => Steady(v, j)
    BY <2>5, TidiesHosts
  <2>11. Tidies(v, w)
    BY <2>5, <2>9, <2>10, TidiesBy
  <2> QED BY <2>8, <2>11
<1> QED BY <1>1, <1>2

LEMMA RegistrySwept ==
  ASSUME NEW w, NEW X, Good(w, X), NEW v, v = sweepDispatches(w)
  PROVE  Good(v, X) /\ Tidies(v, w)
<1>1. CASE v = w
  BY <1>1, TidiesItself
<1>2. CASE v = [w EXCEPT !.slot = Nil]
  BY <1>2, SlotSet
<1> QED BY <1>1, <1>2 DEF sweepDispatches

\* Without a registration the sweep closes the last attempt of the instance's directory.
LEMMA SweepWorldSound ==
  ASSUME NEW w, NEW X, Good(w, X), NEW i \in Instances, ~w.inst[i].disposed, NEW v, v = sweep(w, i)
  PROVE  /\ Good(v, X) /\ Tidies(v, w)
         /\ w.slot = Nil /\ settings(w, i) \in Dirs /\ Steady(w, i) => Closes(v, w, settings(w, i))
<1>1. PICK t : t = dropIfOff(w, i)
  OBVIOUS
<1>2. Good(t, X) /\ Tidies(t, w)
  BY <1>1, DropSound
<1>3. PICK u : u = sweepDispatches(t)
  OBVIOUS
<1>4. Good(u, X) /\ Tidies(u, t)
  BY <1>2, <1>3, RegistrySwept
<1>11. Tidies(u, w)
  BY <1>2, <1>4, TidiesAdds
<1>5. PICK d, x : d = currentDir(u, i) /\ x = SweepDir(u, i, d)
  OBVIOUS
<1>6. Good(x, X) /\ Tidies(x, u) /\ (d # Nil /\ u.slot = Nil => Closes(x, u, d))
  <2>1. ~u.inst[i].disposed
    BY <1>11 DEF Tidies, SameHosts
  <2>2. d \in Dirs \union {Nil} /\ (d # Nil => Reaches(u, i, d))
    BY <1>4, <1>5, <2>1, HostTypes, CurrentReaches
  <2> QED BY <1>4, <1>5, <2>2, SweepDirSound
<1>7. PICK y : y = StillHeld(x, i)
  OBVIOUS
<1>8. Good(y, X) /\ Tidies(y, x)
  BY <1>6, <1>7, StillHeldSound
<1>9. v = SweepStore(y, y.inst[i].holds)
  BY <1>1, <1>3, <1>5, <1>7 DEF sweep, Swept, sweepHeld
<1>10. Good(v, X) /\ Tidies(v, y)
  <2>1. y.inst[i].holds \in Dirs \union {Nil}
    BY <1>8, HostTypes
  <2> QED BY <1>8, <1>9, <2>1, SweepStoreSound
<1>12. Tidies(v, x)
  BY <1>8, <1>10, TidiesAdds
<1>13. Tidies(x, w)
  BY <1>6, <1>11, TidiesAdds
<1>14. ASSUME w.slot = Nil, settings(w, i) \in Dirs, Steady(w, i)
       PROVE  Closes(v, w, settings(w, i))
  <2>1. settings(w, i) # Off /\ settings(w, i) # Nil
    BY <1>14, IngestAssumption
  <2>2. t = w
    BY <1>1, <2>1 DEF dropIfOff
  <2>3. u = w
    BY <1>3, <1>14, <2>2 DEF sweepDispatches
  <2>4. d = settings(w, i)
    BY <1>5, <1>14, <2>1, <2>3 DEF currentDir, Steady
  <2>5. Closes(x, w, d)
    BY <1>6, <1>14, <2>1, <2>3, <2>4
  <2> QED BY <1>12, <1>14, <2>4, <2>5 DEF Tidies, Lasts, Closes
<1> QED BY <1>10, <1>12, <1>13, <1>14, TidiesAdds

\* An instance's own fields.
LEMMA HostSet ==
  ASSUME NEW w, NEW X, Good(w, X), NEW i \in Instances, NEW n \in InstanceType,
         NEW v, v = [w EXCEPT !.inst = [w.inst EXCEPT ![i] = n]]
  PROVE  /\ Good(v, X) /\ v.inst[i] = n /\ v.slot = w.slot /\ v.seen = w.seen
         /\ v.last = w.last /\ v.held = w.held /\ v.store = w.store
         /\ \A j \in Instances \ {i} : v.inst[j] = w.inst[j]
         /\ /\ n.settings = w.inst[i].settings /\ n.disposed = w.inst[i].disposed
            /\ n.holds \in {Nil, w.inst[i].holds}
            => Tidies(v, w)
<1>1. /\ WorldType(v) /\ v.inst[i] = n /\ \A j \in Instances \ {i} : v.inst[j] = w.inst[j]
      /\ v.store = w.store /\ v.held = w.held /\ v.seen = w.seen /\ v.scored = w.scored
      /\ v.signalled = w.signalled /\ v.slot = w.slot /\ v.last = w.last
  BY DEF Good, WorldType
<1>2. Good(v, X)
  BY <1>1, GoodAside
<1>3. ASSUME n.settings = w.inst[i].settings, n.disposed = w.inst[i].disposed,
             n.holds \in {Nil, w.inst[i].holds}
      PROVE  Tidies(v, w)
  <2>1. \A j \in Instances : /\ settings(v, j) = settings(w, j)
                             /\ v.inst[j].disposed = w.inst[j].disposed
                             /\ Steady(w, j) => Steady(v, j)
    BY <1>1, <1>3 DEF settings, Steady
  <2> QED BY <1>1, <2>1, TidiesBy
<1> QED BY <1>1, <1>2, <1>3

LEMMA RecorderSwept ==
  ASSUME NEW w, NEW X, Good(w, X), NEW i \in Instances, NEW v, v = recorderSweep(w, i)
  PROVE  Good(v, X) /\ Tidies(v, w)
<1>1. CASE settings(w, i) # Off
  BY <1>1, TidiesItself DEF recorderSweep
<1>2. CASE settings(w, i) = Off
  <2>1. PICK n : n = [w.inst[i] EXCEPT !.recorder = Nil]
    OBVIOUS
  <2>2. /\ n \in InstanceType /\ n.settings = w.inst[i].settings /\ n.disposed = w.inst[i].disposed
        /\ n.holds = w.inst[i].holds
    BY <2>1 DEF Good, WorldType, InstanceType
  <2>3. PICK u : u = [w EXCEPT !.inst[i].recorder = Nil]
    OBVIOUS
  <2>4. u = [w EXCEPT !.inst = [w.inst EXCEPT ![i] = n]]
    BY <2>1, <2>3 DEF Good, WorldType
  <2>5. Good(u, X) /\ Tidies(u, w)
    BY <2>2, <2>4, HostSet
  <2>6. v = Released(u)
    BY <1>2, <2>3 DEF recorderSweep
  <2>7. Good(v, X) /\ Tidies(v, u)
    BY <2>5, <2>6, ReleasedSound
  <2> QED BY <2>5, <2>7, TidiesAdds
<1> QED BY <1>1, <1>2

\* HoldBack and Place: a new step goes to one place.
Puts(v, w, d, a) ==
  /\ SameHosts(v, w) /\ v.seen = w.seen /\ v.last = w.last
  /\ \A o \in Dirs, b \in Registrations : LeftIn(v, o, b) => LeftIn(w, o, b) \/ (o = d /\ b = a)

\* The books are as sound as they were where the stores' own are the same.
LEMMA BooksSame ==
  ASSUME NEW w, NEW v, BooksAgree(w), SignalsAreOne(w), v.scored = w.scored,
         w.signalled \subseteq v.signalled,
         \A o \in Dirs : /\ v.store[o].rows = w.store[o].rows /\ v.store[o].counts = w.store[o].counts
                         /\ v.store[o].scored = w.store[o].scored /\ v.store[o].signals = w.store[o].signals
                         /\ v.store[o].renewed = w.store[o].renewed
  PROVE  BooksSound(v)
<1>1. OneStoryOf(v) => OneStoryOf(w)
  BY DEF OneStoryOf
<1>2. ASSUME OneStoryOf(v), NEW o \in Dirs
      PROVE  /\ v.store[o].rows.pass - v.store[o].rows.overrides = v.store[o].counts.pass
             /\ v.store[o].rows.fail + v.store[o].rows.overrides = v.store[o].counts.fail
  <2>1. v.store[o].rows = w.store[o].rows /\ v.store[o].counts = w.store[o].counts
    OBVIOUS
  <2>2. /\ w.store[o].rows.pass - w.store[o].rows.overrides = w.store[o].counts.pass
        /\ w.store[o].rows.fail + w.store[o].rows.overrides = w.store[o].counts.fail
    BY <1>1, <1>2 DEF BooksAgree
  <2> QED BY <2>1, <2>2
<1>3. ASSUME OneStoryOf(v), NEW a \in Registrations
      PROVE  v.scored[a] = "pass" <=> \E o \in Dirs : v.store[o].scored[a] \in Passed
  <2>1. w.scored[a] = "pass" <=> \E o \in Dirs : w.store[o].scored[a] \in Passed
    BY <1>1, <1>3 DEF BooksAgree
  <2> QED BY <2>1
<1>4. BooksAgree(v)
  BY <1>2, <1>3, Zenon DEF BooksAgree
<1>5. \A n : FewRefusals(w, n) => FewRefusals(v, n)
  BY FewMore
<1>6. SignalsAreOne(v)
  BY <1>5 DEF SignalsAreOne
<1> QED BY <1>4, <1>6 DEF BooksSound

LEMMA PlaceSound ==
  ASSUME NEW w, NEW d \in Dirs, NEW a \in Registrations, NEW e \in Nat, NEW X, X = {<<d, "step", e>>},
         Good(w, X), X \subseteq w.seen, Own(a, e), HeldFor(w, d, a) = {}, NEW i \in Instances,
         NEW kind, NEW v, v = Place(w, i, d, a, e, kind)
  PROVE  Good(v, {}) /\ Puts(v, w, d, a)
<1>1. WorldType(w)
  BY DEF Good
<1>2. /\ w.store[d] \in StoreType /\ FoldsSound(w.store[d]) /\ OpensSound(w.store[d])
      /\ HeldSound(w.held, d, w.store[d]) /\ SeenSound(w, d, X) /\ w.held \subseteq HeldStep
  BY InStore
<1>3. <<d, "step", e>> \notin w.seen \ X
  OBVIOUS
<1>4. e \notin StepsIn(w.store[d]) /\ \A h \in w.held : h.dir = d => h.step # e
  BY <1>2, <1>3 DEF SeenSound, StepsIn
<1>5. \A o \in Dirs \ {d} : SeenSound(w, o, {})
  BY InStore DEF SeenSound
<1>6. CASE kind = "final"
  <2>1. PICK h : h = [dir |-> d, attempt |-> a, step |-> e, idle |-> FALSE]
    OBVIOUS
  <2>2. h \in HeldStep /\ h.dir = d /\ h.attempt = a /\ h.step = e
    BY <2>1 DEF HeldStep
  <2>3. PICK n : n = [w.inst[i] EXCEPT !.owned = @ \union {<<d, a>>}]
    OBVIOUS
  <2>4. /\ n \in InstanceType /\ n.settings = w.inst[i].settings /\ n.disposed = w.inst[i].disposed
        /\ n.holds = w.inst[i].holds
    BY <1>1, <2>3 DEF WorldType, InstanceType
  <2>5. PICK held, inst : held = w.held \union {h} /\ inst = [w.inst EXCEPT ![i] = n]
    OBVIOUS
  <2>6. v = [w EXCEPT !.held = held, !.inst = inst]
    BY <1>1, <1>6, <2>1, <2>3, <2>5 DEF Place, HoldBack, WorldType
  <2>7. /\ WorldType(v) /\ v.held = held /\ v.inst = inst /\ v.store = w.store
        /\ v.seen = w.seen /\ v.scored = w.scored /\ v.signalled = w.signalled /\ v.slot = w.slot
        /\ v.last = w.last
    <3>1. held \in SUBSET HeldStep /\ inst \in [Instances -> InstanceType]
      BY <1>1, <2>2, <2>4, <2>5 DEF WorldType
    <3> QED BY <1>1, <2>6, <3>1 DEF WorldType
  <2>8. ASSUME NEW o \in Dirs
        PROVE  /\ FoldsSound(v.store[o]) /\ OpensSound(v.store[o])
               /\ HeldSound(v.held, o, v.store[o]) /\ SeenSound(v, o, {})
    <3>1. /\ FoldsSound(w.store[o]) /\ OpensSound(w.store[o])
          /\ HeldSound(w.held, o, w.store[o]) /\ SeenSound(w, o, X)
      BY InStore
    <3>2. CASE o # d
      <4>1. {g \in held : g.dir = o} = {g \in w.held : g.dir = o}
        BY <2>2, <2>5, <3>2
      <4>2. SeenSound(v, o, {})
        BY <1>5, <2>7, <3>2, <4>1 DEF SeenSound
      <4>3. HeldSound(held, o, w.store[o])
        BY <2>2, <2>5, <3>1, <3>2 DEF HeldSound
      <4> QED BY <2>7, <3>1, <4>2, <4>3
    <3>3. CASE o = d
      <4>1. SeenSound(v, d, {})
        BY <1>2, <2>2, <2>5, <2>7 DEF SeenSound
      <4>2. HeldSound(held, d, w.store[d])
        <5>1. ASSUME NEW g \in held, g.dir = d
              PROVE  /\ g.step \notin FoldedSteps(w.store[d]) \union OpenSteps(w.store[d])
                     /\ Own(g.attempt, g.step)
                     /\ \A x \in held : x.dir = d /\ (x.step = g.step \/ x.attempt = g.attempt) => x = g
          <6>1. CASE g = h
            <7>1. \A x \in held : x.dir = d /\ (x.step = h.step \/ x.attempt = h.attempt) => x = h
              BY <1>4, <2>2, <2>5 DEF HeldFor
            <7> QED BY <1>4, <2>2, <6>1, <7>1 DEF StepsIn
          <6>2. CASE g \in w.held
            <7>1. \A x \in w.held : x.dir = d /\ (x.step = g.step \/ x.attempt = g.attempt) => x = g
              BY <1>2, <5>1, <6>2 DEF HeldSound
            <7>2. h.step # g.step /\ h.attempt # g.attempt
              BY <1>4, <2>2, <5>1, <6>2 DEF HeldFor
            <7>3. \A x \in held : x.dir = d /\ (x.step = g.step \/ x.attempt = g.attempt) => x = g
              BY <2>5, <7>1, <7>2
            <7> QED BY <1>2, <5>1, <6>2, <7>3 DEF HeldSound
          <6> QED BY <2>5, <6>1, <6>2
        <5> QED BY <5>1 DEF HeldSound
      <4> QED BY <2>7, <3>1, <3>3, <4>1, <4>2
    <3> QED BY <3>2, <3>3
  <2>9. BooksSound(v)
    <3>1. BooksAgree(w) /\ SignalsAreOne(w)
      BY DEF Good, BooksSound
    <3>2. v.scored = w.scored /\ w.signalled \subseteq v.signalled
      BY <2>7
    <3> QED BY <2>7, <3>1, <3>2, BooksSame
  <2>10. Puts(v, w, d, a)
    <3>1. v.inst[i] = n /\ \A j \in Instances \ {i} : v.inst[j] = w.inst[j]
      BY <1>1, <2>5, <2>7 DEF WorldType
    <3>2. \A j \in Instances : /\ settings(v, j) = settings(w, j)
                               /\ v.inst[j].disposed = w.inst[j].disposed
                               /\ Steady(w, j) => Steady(v, j)
      BY <2>4, <3>1 DEF settings, Steady
    <3>3. SameHosts(v, w)
      BY <2>7, <3>2 DEF SameHosts
    <3>4. \A o \in Dirs, b \in Registrations : LeftIn(v, o, b) => LeftIn(w, o, b) \/ (o = d /\ b = a)
      BY <2>2, <2>5, <2>7 DEF LeftIn, HeldFor
    <3> QED BY <2>7, <3>3, <3>4 DEF Puts
  <2> QED BY <2>7, <2>8, <2>9, <2>10 DEF Good, StepsSound
<1>7. CASE kind # "final"
  <2>0. PICK final \in BOOLEAN : final = FALSE
    OBVIOUS
  <2>1. PICK st : st = recordStep(w.store[d], a, e, final)
    OBVIOUS
  <2>2. /\ st \in StoreType /\ Kept(st, w.store[d]) /\ FoldsSound(st) /\ OpensSound(st)
        /\ StepsIn(st) \subseteq StepsIn(w.store[d]) \union {e}
    BY <1>2, <1>4, <2>1, RecordStepSound
  <2>3. v = Stored(w, d, st)
    BY <1>7, <2>0, <2>1 DEF Place
  <2>4. /\ WorldType(v) /\ v.store[d] = st /\ \A o \in Dirs \ {d} : v.store[o] = w.store[o]
        /\ v.held = w.held /\ v.seen = w.seen /\ v.scored = w.scored /\ v.signalled = w.signalled
        /\ v.inst = w.inst /\ v.slot = w.slot /\ v.last = w.last
    BY <1>1, <2>2, <2>3, StoredIs
  <2>5. ASSUME NEW o \in Dirs
        PROVE  /\ FoldsSound(v.store[o]) /\ OpensSound(v.store[o])
               /\ HeldSound(v.held, o, v.store[o]) /\ SeenSound(v, o, {})
    <3>1. /\ FoldsSound(w.store[o]) /\ OpensSound(w.store[o])
          /\ HeldSound(w.held, o, w.store[o]) /\ SeenSound(w, o, X)
      BY InStore
    <3>2. CASE o # d
      <4>1. SeenSound(v, o, {})
        BY <1>5, <2>4, <3>2 DEF SeenSound
      <4> QED BY <2>4, <3>1, <3>2, <4>1
    <3>3. CASE o = d
      <4>1. SeenSound(v, d, {})
        BY <1>2, <2>2, <2>4 DEF SeenSound, StepsIn
      <4>2. HeldSound(v.held, d, st)
        BY <1>2, <1>4, <2>2, <2>4 DEF HeldSound, StepsIn
      <4> QED BY <2>2, <2>4, <3>3, <4>1, <4>2
    <3> QED BY <3>2, <3>3
  <2>6. BooksSound(v)
    <3>1. \A o \in Dirs : /\ v.store[o].scored = w.store[o].scored /\ v.store[o].renewed = w.store[o].renewed
                          /\ v.store[o].counts = w.store[o].counts /\ v.store[o].rows = w.store[o].rows
                          /\ v.store[o].signals = w.store[o].signals
      BY <2>2, <2>4 DEF Kept
    <3>2. BooksAgree(w) /\ SignalsAreOne(w)
      BY DEF Good, BooksSound
    <3>3. v.scored = w.scored /\ w.signalled \subseteq v.signalled
      BY <2>4
    <3> QED BY <3>1, <3>2, <3>3, BooksSame
  <2>7. Puts(v, w, d, a)
    <3>1. \A j \in Instances : /\ settings(v, j) = settings(w, j)
                               /\ v.inst[j].disposed = w.inst[j].disposed
                               /\ Steady(w, j) => Steady(v, j)
      BY <2>4, TidiesHosts
    <3>2. SameHosts(v, w)
      BY <2>4, <3>1 DEF SameHosts
    <3>3. \A b \in Registrations : st.open[b] # <<>> => w.store[d].open[b] # <<>> \/ b = a
      BY <1>2, <2>1, OpensRemain
    <3>4. \A o \in Dirs, b \in Registrations : LeftIn(v, o, b) => LeftIn(w, o, b) \/ (o = d /\ b = a)
      BY <2>4, <3>3 DEF LeftIn, HeldFor
    <3> QED BY <2>4, <3>2, <3>4 DEF Puts
  <2> QED BY <2>4, <2>5, <2>6, <2>7 DEF Good, StepsSound
<1> QED BY <1>6, <1>7

\* settle leaves the directories' last attempts alone.
LEMMA SettleLast ==
  ASSUME NEW w, NEW X, Good(w, X), NEW i \in Instances, NEW d \in Dirs, NEW a, NEW asFinal
  PROVE  settle(w, i, d, a, asFinal).last = w.last
BY DEF settle, Stored, Acquired, Good, WorldType

\* The step e of attempt a has been delivered for a directory.
Delivers(v, w, i, d, a, e) ==
  /\ StepDue(w, i, a) /\ d \in Dirs /\ <<d, "step", e>> \notin w.seen
  /\ SameHosts(v, w) /\ v.seen = w.seen \union {<<d, "step", e>>}
  /\ LeftIn(v, d, a) => v.last[d] = a
  /\ \A o \in Dirs \ {d}, b \in Registrations : Lasts(v, w, o, b)

\* onStepEnded after the await.
LEMMA PricedSound ==
  ASSUME NEW w, Good(w, {}), NEW i \in Instances, NEW a \in Registrations, NEW e \in Nat, Own(a, e),
         NEW kind, NEW v, v = onStepPriced(w, i, settings(w, i), a, e, kind)
  PROVE  /\ Good(v, {})
         /\ \/ Delivers(v, w, i, settings(w, i), a, e)
            \/ v = w /\ (StepDue(w, i, a) => <<settings(w, i), "step", e>> \in w.seen)
<1>1. PICK d, X : d = settings(w, i) /\ X = {<<d, "step", e>>}
  OBVIOUS
<1>2. CASE ~StepDue(w, i, a) \/ ~firstDelivery(w, d, "step", e)
  BY <1>1, <1>2 DEF onStepPriced, firstDelivery
<1>3. CASE StepDue(w, i, a) /\ firstDelivery(w, d, "step", e)
  <2>1. settings(w, i) # Off /\ d \in Dirs /\ w.slot.attempt = a /\ X \cap w.seen = {}
    BY <1>1, <1>3, HostTypes DEF StepDue, targetOf, firstDelivery
  <2>2. PICK t : t = [w EXCEPT !.seen = @ \union X]
    OBVIOUS
  <2>3. PICK u : u = bundleFor(t, i)
    OBVIOUS
  <2>4. PICK x : x = Superseded(u, i, d, a)
    OBVIOUS
  <2>5. PICK y : y = rememberAttempt(x, d, a)
    OBVIOUS
  <2>0. PICK final \in BOOLEAN : final = FALSE
    OBVIOUS
  <2>6. PICK z : z = settle(y, i, d, a, final)
    OBVIOUS
  <2>7. PICK p : p = Place(z, i, d, a, e, kind)
    OBVIOUS
  <2>8. v = touchDispatch(p)
    BY <1>1, <1>3, <2>0, <2>1, <2>2, <2>3, <2>4, <2>5, <2>6, <2>7 DEF onStepPriced, recorded
  <2>9. /\ Good(t, X) /\ SameHosts(t, w) /\ t.seen = w.seen \union X
        /\ t.inst = w.inst /\ t.store = w.store /\ t.held = w.held /\ t.last = w.last
    <3>1. {} \union X = X
      OBVIOUS
    <3>2. Good(t, X)
      BY <2>1, <2>2, <3>1, SeenMore
    <3>3. t.seen = w.seen \union X
      BY <2>2, SeenMore
    <3>4. t.inst = w.inst /\ t.store = w.store /\ t.slot = w.slot
      BY <2>2, SeenMore
    <3>5. t.held = w.held /\ t.last = w.last
      BY <2>2, SeenMore
    <3>6. SameHosts(t, w)
      BY <3>3, <3>4, TidiesHosts DEF SameHosts
    <3> QED BY <3>2, <3>3, <3>4, <3>5, <3>6
  <2>10. settings(t, i) = d /\ settings(t, i) # Off
    BY <1>1, <2>1, <2>9 DEF SameHosts
  <2>11. Good(u, X) /\ Tidies(u, t) /\ Bundled(u, i, d)
    BY <2>3, <2>9, <2>10, BundleSound DEF Bundled
  <2>12. Good(x, X) /\ Tidies(x, u) /\ Bundled(x, i, d)
    <3>1. CASE u.last[d] \in {0, a}
      BY <2>4, <2>11, <3>1, TidiesItself DEF Superseded
    <3>2. CASE u.last[d] \notin {0, a}
      <4>1. u.last[d] \in Registrations
        BY <2>1, <2>11, <3>2, HostTypes
      <4>2. x = endAttempt(u, i, d, u.last[d])
        BY <2>4, <3>2 DEF Superseded
      <4> QED BY <2>1, <2>11, <4>1, <4>2, EndAttemptSound
    <3> QED BY <3>1, <3>2
  <2>13. /\ Good(y, X) /\ SameHosts(y, x) /\ Bundled(y, i, d) /\ y.seen = x.seen /\ y.last[d] = a
         /\ y.store = x.store /\ y.held = x.held /\ \A o \in Dirs \ {d} : y.last[o] = x.last[o]
    <3>1. y = [x EXCEPT !.last[d] = a]
      BY <2>5 DEF rememberAttempt
    <3>2. Good(y, X) /\ SameHosts(y, x) /\ y.inst = x.inst /\ y.seen = x.seen
      BY <2>1, <2>12, <3>1, LastSet
    <3>3. y.store = x.store /\ y.held = x.held
      BY <2>1, <2>12, <3>1, LastSet
    <3>4. y.last[d] = a /\ \A o \in Dirs \ {d} : y.last[o] = x.last[o]
      BY <2>1, <2>12, <3>1 DEF Good, WorldType
    <3> QED BY <2>12, <3>2, <3>3, <3>4 DEF Bundled
  <2>14. Good(z, X) /\ Tidies(z, y) /\ HeldFor(z, d, a) = {} /\ z.last = y.last
    <3>1. Reaches(y, i, d)
      BY <2>1, <2>13, IngestAssumption DEF Bundled, Reaches
    <3> QED BY <2>1, <2>6, <2>13, <3>1, SettleSound, SettleLast
  <2>15. Tidies(x, t)
    BY <2>11, <2>12, TidiesAdds
  <2>16. z.seen = w.seen \union X
    BY <2>9, <2>13, <2>14, <2>15 DEF Tidies
  <2>17. Good(p, {}) /\ Puts(p, z, d, a)
    <3>1. X \subseteq z.seen
      BY <2>16
    <3> QED BY <1>1, <2>1, <2>7, <2>14, <3>1, PlaceSound
  <2>18. Good(v, {}) /\ Tidies(v, p)
    BY <2>8, <2>17, TouchSound
  <2>19. SameHosts(v, w) /\ v.seen = w.seen \union X
    <3>1. SameHosts(x, w)
      BY <2>9, <2>15, SameHostsAdds DEF Tidies
    <3>2. SameHosts(y, w)
      BY <2>13, <3>1, SameHostsAdds
    <3>3. SameHosts(z, w)
      BY <2>14, <3>2, SameHostsAdds DEF Tidies
    <3>4. SameHosts(p, w)
      BY <2>17, <3>3, SameHostsAdds DEF Puts
    <3> QED BY <2>16, <2>17, <2>18, <3>4, SameHostsAdds DEF Tidies, Puts
  <2>20. LeftIn(v, d, a) => v.last[d] = a
    BY <2>1, <2>13, <2>14, <2>17, <2>18 DEF Tidies, Lasts, Puts
  <2>21. ASSUME NEW o \in Dirs \ {d}, NEW b \in Registrations, LeftIn(v, o, b)
         PROVE  LeftIn(w, o, b) /\ (w.last[o] = b => v.last[o] = b)
    <3>1. LeftIn(p, o, b) /\ (p.last[o] = b => v.last[o] = b)
      BY <2>18, <2>21 DEF Tidies, Lasts
    <3>2. LeftIn(z, o, b) /\ p.last[o] = z.last[o]
      BY <2>17, <2>21, <3>1 DEF Puts
    <3>3. LeftIn(y, o, b) /\ z.last[o] = y.last[o]
      BY <2>14, <3>2 DEF Tidies, Lasts
    <3>4. LeftIn(x, o, b) /\ y.last[o] = x.last[o]
      BY <2>13, <3>3 DEF LeftIn, HeldFor
    <3>5. LeftIn(t, o, b) /\ (t.last[o] = b => x.last[o] = b)
      BY <2>15, <3>4 DEF Tidies, Lasts
    <3>6. LeftIn(w, o, b) /\ t.last[o] = w.last[o]
      BY <2>9, <3>5 DEF LeftIn, HeldFor
    <3> QED BY <3>1, <3>2, <3>3, <3>4, <3>5, <3>6
  <2>22. <<d, "step", e>> \notin w.seen
    BY <1>3 DEF firstDelivery
  <2> QED BY <1>1, <1>3, <2>1, <2>18, <2>19, <2>20, <2>21, <2>22 DEF Delivers, Lasts
<1> QED BY <1>2, <1>3

\* A verdict, a refusal or a signal leaves the steps of the store alone.
SameSteps(v, st) ==
  v.folded = st.folded /\ v.open = st.open /\ v.closed = st.closed /\ v.renewed = st.renewed

Added(kind, k) == IF kind = k THEN 1 ELSE 0

RowKinds == {"pass", "fail", "refusals", "overrides", "unverifiable"}

LEMMA RowAddedIs ==
  ASSUME NEW st \in StoreType, NEW kind \in RowKinds, NEW v, v = RowAdded(st, kind)
  PROVE  /\ v \in StoreType /\ SameSteps(v, st) /\ v.scored = st.scored /\ v.counts = st.counts
         /\ v.signals = st.signals
         /\ v.rows.pass = st.rows.pass + Added(kind, "pass")
         /\ v.rows.fail = st.rows.fail + Added(kind, "fail")
         /\ v.rows.refusals = st.rows.refusals + Added(kind, "refusals")
         /\ v.rows.overrides = st.rows.overrides + Added(kind, "overrides")
<1>1. PICK r : r = [pass |-> st.rows.pass + Added(kind, "pass"), fail |-> st.rows.fail + Added(kind, "fail"),
                    refusals |-> st.rows.refusals + Added(kind, "refusals"),
                    overrides |-> st.rows.overrides + Added(kind, "overrides"),
                    unverifiable |-> st.rows.unverifiable + Added(kind, "unverifiable")]
  OBVIOUS
<1>2. st.rows \in [pass : Int, fail : Int, refusals : Int, overrides : Int, unverifiable : Int]
  BY DEF StoreType
<1>3. r \in [pass : Int, fail : Int, refusals : Int, overrides : Int, unverifiable : Int]
  BY <1>1, <1>2 DEF Added
<1>4. [st.rows EXCEPT ![kind] = @ + 1] = r
  BY <1>1, <1>2 DEF RowKinds, Added
<1>5. v = [st EXCEPT !.rows = r]
  BY <1>4 DEF RowAdded, StoreType
<1>6. v \in StoreType /\ v.rows = r /\ SameSteps(v, st) /\ v.scored = st.scored /\ v.counts = st.counts
      /\ v.signals = st.signals
  BY <1>3, <1>5 DEF StoreType, SameSteps
<1> QED BY <1>1, <1>6

Counted(v, st, a, outcome) ==
  /\ v \in StoreType /\ SameSteps(v, st) /\ v.rows = st.rows /\ v.signals = st.signals
  /\ v.counts.pass = st.counts.pass + Added(outcome, "pass")
  /\ v.counts.fail = st.counts.fail + Added(outcome, "fail")
  /\ v.counts.refusals = st.counts.refusals
  /\ v.scored[a] # "none" /\ (v.scored[a] \in Passed <=> outcome = "pass")
  /\ \A b \in Registrations \ {a} : v.scored[b] = st.scored[b]

LEMMA VerdictIs ==
  ASSUME NEW st \in StoreType, NEW a \in Registrations, NEW outcome \in {"pass", "fail"},
         NEW half \in BOOLEAN, NEW v, v = recordVerdict(st, a, outcome, half)
  PROVE  Counted(v, st, a, outcome)
<1>1. PICK c : c = [pass |-> st.counts.pass + Added(outcome, "pass"),
                    fail |-> st.counts.fail + Added(outcome, "fail"), refusals |-> st.counts.refusals]
  OBVIOUS
<1>2. st.counts \in [pass : Int, fail : Int, refusals : Int]
  BY DEF StoreType
<1>3. c \in [pass : Int, fail : Int, refusals : Int]
  BY <1>1, <1>2 DEF Added
<1>4. [st.counts EXCEPT ![outcome] = @ + 1] = c
  BY <1>1, <1>2 DEF Added
<1>5. PICK x : x = IF half THEN Halved[outcome] ELSE outcome
  OBVIOUS
<1>6. x \in Scores /\ x # "none" /\ (x \in Passed <=> outcome = "pass")
  <2>1. CASE outcome = "pass" /\ half
    BY <1>5, <2>1 DEF Halved, Scores, Passed
  <2>2. CASE outcome = "fail" /\ half
    BY <1>5, <2>2 DEF Halved, Scores, Passed
  <2>3. CASE ~half
    BY <1>5, <2>3 DEF Scores, Passed
  <2> QED BY <2>1, <2>2, <2>3
<1>7. PICK s : s = [st.scored EXCEPT ![a] = x]
  OBVIOUS
<1>8. s \in [Registrations -> Scores] /\ s[a] = x /\ \A b \in Registrations \ {a} : s[b] = st.scored[b]
  BY <1>6, <1>7 DEF StoreType
<1>9. v = [st EXCEPT !.counts = c, !.scored = s]
  BY <1>4, <1>5, <1>7 DEF recordVerdict, StoreType
<1>10. v \in StoreType /\ v.counts = c /\ v.scored = s /\ SameSteps(v, st) /\ v.rows = st.rows
       /\ v.signals = st.signals
  BY <1>3, <1>8, <1>9 DEF StoreType, SameSteps
<1> QED BY <1>1, <1>6, <1>8, <1>10 DEF Counted

Taken(st, a) == IF st.scored[a] \in Passed THEN 1 ELSE 0

LEMMA RefusalIs ==
  ASSUME NEW st \in StoreType, NEW a \in Registrations, NEW v, v = recordFalseRefusal(st, a)
  PROVE  /\ v \in StoreType /\ SameSteps(v, st) /\ v.rows = st.rows /\ v.signals = st.signals
         /\ v.counts.pass = st.counts.pass - Taken(st, a)
         /\ v.counts.fail = st.counts.fail + Taken(st, a)
         /\ v.counts.refusals = st.counts.refusals + 1
         /\ v.scored[a] # "none" /\ v.scored[a] \notin Passed
         /\ \A b \in Registrations \ {a} : v.scored[b] = st.scored[b]
<1>1. PICK c : c = [pass |-> st.counts.pass - Taken(st, a), fail |-> st.counts.fail + Taken(st, a),
                    refusals |-> st.counts.refusals + 1]
  OBVIOUS
<1>2. st.counts \in [pass : Int, fail : Int, refusals : Int]
  BY DEF StoreType
<1>3. c \in [pass : Int, fail : Int, refusals : Int]
  BY <1>1, <1>2 DEF Taken
<1>4. PICK x : x = IF st.scored[a] = "fail" THEN st.scored[a] ELSE "refusal"
  OBVIOUS
<1>5. x \in Scores /\ x # "none" /\ x \notin Passed
  BY <1>4 DEF Scores, Passed
<1>6. PICK s : s = [st.scored EXCEPT ![a] = x]
  OBVIOUS
<1>7. s \in [Registrations -> Scores] /\ s[a] = x /\ \A b \in Registrations \ {a} : s[b] = st.scored[b]
  BY <1>5, <1>6 DEF StoreType
<1>8. v = [st EXCEPT !.counts = c, !.scored = s]
  BY <1>1, <1>4, <1>6 DEF recordFalseRefusal, StoreType, Taken
<1>9. v \in StoreType /\ v.counts = c /\ v.scored = s /\ SameSteps(v, st) /\ v.rows = st.rows
      /\ v.signals = st.signals
  BY <1>3, <1>7, <1>8 DEF StoreType, SameSteps
<1> QED BY <1>1, <1>5, <1>7, <1>9

LEMMA SameStepsSound ==
  ASSUME NEW s, NEW t, SameSteps(s, t), FoldsSound(t), OpensSound(t)
  PROVE  FoldsSound(s) /\ OpensSound(s) /\ FoldedSteps(s) = FoldedSteps(t) /\ OpenSteps(s) = OpenSteps(t)
<1>1. FoldedSteps(s) = FoldedSteps(t) /\ OpenSteps(s) = OpenSteps(t)
  BY DEF SameSteps, FoldedSteps, OpenSteps
<1>2. s.folded = t.folded /\ s.closed = t.closed /\ s.renewed = t.renewed
  BY DEF SameSteps
<1>3. FoldsSound(s)
  BY <1>1, <1>2, Zenon DEF FoldsSound
<1>4. OpensSound(s)
  BY DEF SameSteps, OpensSound
<1> QED BY <1>1, <1>3, <1>4

LEMMA BooksPut ==
  ASSUME NEW w, Good(w, {}), NEW d \in Dirs, NEW u, WorldType(u), u.store = w.store, u.held = w.held,
         u.seen = w.seen, NEW st \in StoreType, SameSteps(st, w.store[d]), NEW v, v = Stored(u, d, st),
         BooksSound(v)
  PROVE  Good(v, {})
<1>1. /\ WorldType(v) /\ v.store[d] = st /\ \A o \in Dirs \ {d} : v.store[o] = w.store[o]
      /\ v.held = w.held /\ v.seen = w.seen
  BY StoredIs
<1>2. ASSUME NEW o \in Dirs
      PROVE  /\ FoldsSound(v.store[o]) /\ OpensSound(v.store[o])
             /\ HeldSound(v.held, o, v.store[o]) /\ SeenSound(v, o, {})
  <2>1. /\ FoldsSound(w.store[o]) /\ OpensSound(w.store[o])
        /\ HeldSound(w.held, o, w.store[o]) /\ SeenSound(w, o, {})
    BY InStore
  <2>2. SameSteps(v.store[o], w.store[o])
    BY <1>1 DEF SameSteps
  <2>3. /\ FoldsSound(v.store[o]) /\ OpensSound(v.store[o])
        /\ FoldedSteps(v.store[o]) = FoldedSteps(w.store[o]) /\ OpenSteps(v.store[o]) = OpenSteps(w.store[o])
    BY <2>1, <2>2, SameStepsSound
  <2>6. HeldSound(v.held, o, v.store[o]) /\ SeenSound(v, o, {})
    BY <1>1, <2>1, <2>3 DEF HeldSound, SeenSound
  <2> QED BY <2>3, <2>6
<1> QED BY <1>1, <1>2 DEF Good, StepsSound

LEMMA TidiesBooks ==
  ASSUME NEW w, NEW v, v.slot = w.slot, v.seen = w.seen, v.last = w.last, v.held = w.held,
         v.inst = w.inst, \A o \in Dirs : v.store[o].open = w.store[o].open
  PROVE  Tidies(v, w)
<1>1. \A j \in Instances : /\ settings(v, j) = settings(w, j)
                           /\ v.inst[j].disposed = w.inst[j].disposed
                           /\ Steady(w, j) => Steady(v, j)
  BY TidiesHosts
<1> QED BY <1>1, TidiesBy

LEMMA SignalledMore ==
  ASSUME NEW w, NEW X, Good(w, X), NEW K, NEW v, v = [w EXCEPT !.signalled = @ \union K]
  PROVE  /\ Good(v, X) /\ Tidies(v, w) /\ v.store = w.store /\ v.scored = w.scored /\ v.held = w.held
         /\ v.seen = w.seen /\ v.signalled = w.signalled \union K /\ v.inst = w.inst /\ v.slot = w.slot
         /\ v.last = w.last
<1>1. WorldType(w)
  BY DEF Good
<1>2. /\ v.slot = w.slot /\ v.inst = w.inst /\ v.store = w.store /\ v.held = w.held
      /\ v.seen = w.seen /\ v.scored = w.scored /\ v.signalled = w.signalled \union K
      /\ v.last = w.last
  BY <1>1 DEF WorldType
<1>3. WorldType(v)
  BY <1>1, <1>2 DEF WorldType
<1>4. Good(v, X)
  BY <1>2, <1>3, GoodAside
<1>5. Tidies(v, w)
  BY <1>2, TidiesBooks
<1> QED BY <1>2, <1>4, <1>5

\* appendSignal: the key says that the row is there.
LEMMA AppendSignalSound ==
  ASSUME NEW w, Good(w, {}), NEW d \in Dirs, NEW a \in Registrations, NEW kind \in SignalKinds,
         NEW v, v = appendSignal(w, d, a, kind)
  PROVE  Good(v, {}) /\ Tidies(v, w)
<1>1. CASE SignalKey(d, a, kind) \in w.signalled
  BY <1>1, TidiesItself DEF appendSignal
<1>2. CASE SignalKey(d, a, kind) \notin w.signalled
  <2>1. PICK K : K = {SignalKey(d, a, kind)}
    OBVIOUS
  <2>2. PICK u : u = [w EXCEPT !.signalled = @ \union K]
    OBVIOUS
  <2>3. /\ Good(u, {}) /\ Tidies(u, w) /\ u.store = w.store /\ u.scored = w.scored /\ u.held = w.held
        /\ u.seen = w.seen /\ u.signalled = w.signalled \union K
    BY <2>2, SignalledMore
  <2>4. PICK s, t : s = w.store[d].signals /\ t = Append(s, <<a, kind>>)
    OBVIOUS
  <2>5. PICK st : st = [w.store[d] EXCEPT !.signals = t]
    OBVIOUS
  <2>6. w.store[d] \in StoreType /\ s \in Seq(Registrations \X SignalKinds) /\ <<a, kind>> \in Registrations \X SignalKinds
    BY <2>4, InStore DEF StoreType
  <2>7. /\ t \in Seq(Registrations \X SignalKinds) /\ Len(s) \in Nat /\ DOMAIN s = 1..Len(s)
        /\ DOMAIN t = 1..(Len(s) + 1) /\ t[Len(s) + 1] = <<a, kind>>
        /\ \A n \in 1..Len(s) : t[n] = s[n]
    <3>1. PICK T, y : T = Registrations \X SignalKinds /\ y = <<a, kind>>
      OBVIOUS
    <3>2. s \in Seq(T) /\ y \in T /\ t = Append(s, y)
      BY <2>4, <2>6, <3>1
    <3>3. /\ t \in Seq(T) /\ Len(s) \in Nat /\ DOMAIN s = 1..Len(s)
          /\ DOMAIN t = 1..(Len(s) + 1) /\ t[Len(s) + 1] = y /\ \A n \in 1..Len(s) : t[n] = s[n]
      BY <3>2
    <3> QED BY <3>1, <3>3
  <2>8. /\ st \in StoreType /\ SameSteps(st, w.store[d]) /\ st.signals = t /\ st.rows = w.store[d].rows
        /\ st.counts = w.store[d].counts /\ st.scored = w.store[d].scored
    BY <2>5, <2>6, <2>7 DEF StoreType, SameSteps
  <2>9. v = Stored(u, d, st)
    <3>1. WorldType(w)
      BY DEF Good
    <3> QED BY <1>2, <2>1, <2>2, <2>4, <2>5, <3>1 DEF appendSignal, Stored, WorldType
  <2>10. WorldType(u)
    BY <2>3 DEF Good
  <2>11. /\ v.store[d] = st /\ \A o \in Dirs \ {d} : v.store[o] = w.store[o]
         /\ v.scored = w.scored /\ v.signalled = w.signalled \union K /\ v.inst = u.inst /\ v.slot = u.slot
         /\ v.seen = u.seen /\ v.held = u.held /\ v.last = u.last
    BY <2>3, <2>8, <2>9, <2>10, StoredIs
  <2>12. BooksSound(v)
    <3>1. BooksAgree(w) /\ SignalsAreOne(w)
      BY DEF Good, BooksSound
    <3>2. \A o \in Dirs : /\ v.store[o].scored = w.store[o].scored /\ v.store[o].renewed = w.store[o].renewed
                          /\ v.store[o].counts = w.store[o].counts /\ v.store[o].rows = w.store[o].rows
      BY <2>8, <2>11 DEF SameSteps
    <3>3. BooksAgree(v)
      <4>1. OneStoryOf(v) => OneStoryOf(w)
        BY <3>2 DEF OneStoryOf
      <4> QED BY <2>11, <3>1, <3>2, <4>1 DEF BooksAgree
    <3>4. ASSUME NEW o \in Dirs, NEW n \in DOMAIN v.store[o].signals
          PROVE  /\ SignalKey(o, v.store[o].signals[n][1], v.store[o].signals[n][2]) \in v.signalled
                 /\ \A m \in DOMAIN v.store[o].signals : v.store[o].signals[m] = v.store[o].signals[n] => m = n
      <4>1. \A x \in DOMAIN w.store[o].signals :
              /\ SignalKey(o, w.store[o].signals[x][1], w.store[o].signals[x][2]) \in w.signalled
              /\ \A m \in DOMAIN w.store[o].signals : w.store[o].signals[m] = w.store[o].signals[x] => m = x
        BY <3>1 DEF SignalsAreOne
      <4>2. CASE o # d
        BY <2>11, <3>4, <4>1, <4>2
      <4>3. CASE o = d
        <5>1. \A x \in 1..Len(s) : s[x] # <<a, kind>>
          <6>1. ASSUME NEW x \in 1..Len(s), s[x] = <<a, kind>> PROVE FALSE
            <7>1. SignalKey(d, s[x][1], s[x][2]) \in w.signalled
              BY <2>4, <2>7, <4>1, <4>3
            <7>2. s[x][1] = a /\ s[x][2] = kind
              BY <6>1
            <7> QED BY <1>2, <7>1, <7>2
          <6> QED BY <6>1
        <5>2. n \in 1..(Len(s) + 1)
          BY <2>7, <2>8, <2>11, <3>4, <4>3
        <5>3. CASE n \in 1..Len(s)
          <6>1. t[n] = s[n] /\ SignalKey(d, s[n][1], s[n][2]) \in w.signalled
            BY <2>4, <2>7, <4>1, <4>3, <5>3
          <6>2. \A m \in 1..Len(s) : s[m] = s[n] => m = n
            BY <2>4, <2>7, <4>1, <4>3, <5>3
          <6>3. \A m \in 1..(Len(s) + 1) : t[m] = t[n] => m = n
            BY <2>7, <5>1, <5>3, <6>1, <6>2
          <6> QED BY <2>7, <2>8, <2>11, <4>3, <6>1, <6>3
        <5>4. CASE n = Len(s) + 1
          <6>1. t[n] = <<a, kind>> /\ <<a, kind>>[1] = a /\ <<a, kind>>[2] = kind
            BY <2>7, <5>4
          <6>2. \A m \in 1..(Len(s) + 1) : t[m] = t[n] => m = n
            BY <2>7, <5>1, <5>4, <6>1
          <6> QED BY <2>1, <2>7, <2>8, <2>11, <4>3, <6>1, <6>2
        <5> QED BY <2>7, <5>2, <5>3, <5>4
      <4> QED BY <4>2, <4>3
    <3>5. \A n : FewRefusals(w, n) => FewRefusals(v, n)
      BY <2>11, FewMore
    <3>6. SignalsAreOne(v)
      BY <3>1, <3>2, <3>4, <3>5 DEF SignalsAreOne
    <3> QED BY <3>3, <3>6 DEF BooksSound
  <2>13. Good(v, {})
    BY <2>3, <2>8, <2>9, <2>10, <2>12, BooksPut
  <2>14. Tidies(v, u)
    BY <2>3, <2>8, <2>11, TidiesBooks DEF SameSteps
  <2> QED BY <2>3, <2>13, <2>14, TidiesAdds
<1> QED BY <1>1, <1>2

\* The row of a verdict nobody could check.
LEMMA UnverifiableSound ==
  ASSUME NEW w, Good(w, {}), NEW d \in Dirs, NEW a \in Registrations, NEW v, v = Unverifiable(w, d, a)
  PROVE  Good(v, {}) /\ Tidies(v, w)
<1>1. CASE w.scored[a] # "none" \/ <<"unverifiable", a>> \in w.signalled
  BY <1>1, TidiesItself DEF Unverifiable
<1>2. CASE ~(w.scored[a] # "none" \/ <<"unverifiable", a>> \in w.signalled)
  <2>1. PICK K : K = {<<"unverifiable", a>>}
    OBVIOUS
  <2>2. PICK u : u = [w EXCEPT !.signalled = @ \union K]
    OBVIOUS
  <2>3. /\ Good(u, {}) /\ Tidies(u, w) /\ u.store = w.store /\ u.scored = w.scored /\ u.held = w.held
        /\ u.seen = w.seen /\ u.signalled = w.signalled \union K
    BY <2>2, SignalledMore
  <2>4. PICK kind \in RowKinds : kind = "unverifiable"
    BY DEF RowKinds
  <2>5. PICK st : st = RowAdded(w.store[d], kind)
    OBVIOUS
  <2>6. /\ st \in StoreType /\ SameSteps(st, w.store[d]) /\ st.scored = w.store[d].scored
        /\ st.counts = w.store[d].counts /\ st.signals = w.store[d].signals
        /\ st.rows.pass = w.store[d].rows.pass + Added(kind, "pass")
        /\ st.rows.fail = w.store[d].rows.fail + Added(kind, "fail")
        /\ st.rows.refusals = w.store[d].rows.refusals + Added(kind, "refusals")
        /\ st.rows.overrides = w.store[d].rows.overrides + Added(kind, "overrides")
    BY <2>5, InStore, RowAddedIs
  <2>7. /\ st.rows.pass = w.store[d].rows.pass /\ st.rows.fail = w.store[d].rows.fail
        /\ st.rows.refusals = w.store[d].rows.refusals /\ st.rows.overrides = w.store[d].rows.overrides
    <3>1. \A k \in RowKinds : k # "unverifiable" => Added(kind, k) = 0
      BY <2>4 DEF Added
    <3>2. w.store[d].rows \in [pass : Int, fail : Int, refusals : Int, overrides : Int, unverifiable : Int]
      BY InStore DEF StoreType
    <3>3. /\ Added(kind, "pass") = 0 /\ Added(kind, "fail") = 0 /\ Added(kind, "refusals") = 0
          /\ Added(kind, "overrides") = 0
      BY <3>1 DEF RowKinds
    <3> QED BY <2>6, <3>2, <3>3
  <2>8. PICK p : p = Stored(u, d, st)
    OBVIOUS
  <2>9. v = touchDispatch(p)
    BY <1>2, <2>1, <2>2, <2>4, <2>5, <2>8 DEF Unverifiable
  <2>10. WorldType(u)
    BY <2>3 DEF Good
  <2>11. /\ p.store[d] = st /\ \A o \in Dirs \ {d} : p.store[o] = w.store[o]
         /\ p.scored = w.scored /\ p.signalled = w.signalled \union K /\ p.inst = u.inst /\ p.slot = u.slot
         /\ p.seen = u.seen /\ p.held = u.held /\ p.last = u.last
    BY <2>3, <2>6, <2>8, <2>10, StoredIs
  <2>12. BooksSound(p)
    <3>1. BooksAgree(w) /\ SignalsAreOne(w)
      BY DEF Good, BooksSound
    <3>2. \A o \in Dirs : /\ p.store[o].scored = w.store[o].scored /\ p.store[o].renewed = w.store[o].renewed
                          /\ p.store[o].counts = w.store[o].counts /\ p.store[o].rows.pass = w.store[o].rows.pass
                          /\ p.store[o].rows.fail = w.store[o].rows.fail
                          /\ p.store[o].rows.refusals = w.store[o].rows.refusals
                          /\ p.store[o].rows.overrides = w.store[o].rows.overrides
                          /\ p.store[o].signals = w.store[o].signals
      BY <2>6, <2>7, <2>11 DEF SameSteps
    <3>3. BooksAgree(p)
      <4>1. OneStoryOf(p) => OneStoryOf(w)
        BY <3>2 DEF OneStoryOf
      <4> QED BY <2>11, <3>1, <3>2, <4>1 DEF BooksAgree
    <3>4. \A n : FewRefusals(w, n) => FewRefusals(p, n)
      BY <2>11, FewMore
    <3>5. SignalsAreOne(p)
      BY <2>11, <3>1, <3>2, <3>4 DEF SignalsAreOne
    <3> QED BY <3>3, <3>5 DEF BooksSound
  <2>13. Good(p, {})
    BY <2>3, <2>6, <2>8, <2>10, <2>12, BooksPut
  <2>14. Tidies(p, u)
    BY <2>3, <2>6, <2>11, TidiesBooks DEF SameSteps
  <2>15. Good(v, {}) /\ Tidies(v, p)
    BY <2>9, <2>13, TouchSound
  <2>16. Tidies(p, w)
    BY <2>3, <2>14, TidiesAdds
  <2> QED BY <2>15, <2>16, TidiesAdds
<1> QED BY <1>1, <1>2

\* A verdict is counted in one place.
LEMMA ScoredSound ==
  ASSUME NEW w, Good(w, {}), NEW d \in Dirs, NEW a \in Registrations, NEW outcome \in {"pass", "fail"},
         NEW half \in BOOLEAN, w.store[d].scored[a] = "none", NEW v, v = Scored(w, d, a, outcome, half)
  PROVE  Good(v, {}) /\ Tidies(v, w)
<1>1. WorldType(w) /\ BooksAgree(w) /\ SignalsAreOne(w)
  BY DEF Good, BooksSound
<1>2. PICK s : s = [w.scored EXCEPT ![a] = outcome]
  OBVIOUS
<1>3. /\ s \in [Registrations -> {"none", "pass", "fail", "refusal"}] /\ s[a] = outcome
      /\ \A b \in Registrations \ {a} : s[b] = w.scored[b]
  BY <1>1, <1>2 DEF WorldType
<1>4. PICK u : u = [w EXCEPT !.scored = s]
  OBVIOUS
<1>5. /\ WorldType(u) /\ u.store = w.store /\ u.held = w.held /\ u.seen = w.seen /\ u.scored = s
      /\ u.signalled = w.signalled /\ u.inst = w.inst /\ u.slot = w.slot /\ u.last = w.last
  BY <1>1, <1>3, <1>4 DEF WorldType
<1>6. PICK t : t = recordVerdict(w.store[d], a, outcome, half)
  OBVIOUS
<1>7. w.store[d] \in StoreType
  BY InStore
<1>8. /\ t \in StoreType /\ SameSteps(t, w.store[d]) /\ t.rows = w.store[d].rows
      /\ t.signals = w.store[d].signals
      /\ t.counts.pass = w.store[d].counts.pass + Added(outcome, "pass")
      /\ t.counts.fail = w.store[d].counts.fail + Added(outcome, "fail")
      /\ t.counts.refusals = w.store[d].counts.refusals
      /\ t.scored[a] # "none" /\ (t.scored[a] \in Passed <=> outcome = "pass")
      /\ \A b \in Registrations \ {a} : t.scored[b] = w.store[d].scored[b]
  <2>1. Counted(t, w.store[d], a, outcome)
    BY <1>6, <1>7, VerdictIs
  <2> QED BY <2>1 DEF Counted
<1>9. PICK kind \in RowKinds : kind = outcome
  BY DEF RowKinds
<1>10. PICK st : st = RowAdded(t, kind)
  OBVIOUS
<1>11. /\ st \in StoreType /\ SameSteps(st, t) /\ st.scored = t.scored /\ st.counts = t.counts
       /\ st.signals = t.signals
       /\ st.rows.pass = t.rows.pass + Added(kind, "pass")
       /\ st.rows.fail = t.rows.fail + Added(kind, "fail")
       /\ st.rows.refusals = t.rows.refusals + Added(kind, "refusals")
       /\ st.rows.overrides = t.rows.overrides + Added(kind, "overrides")
  BY <1>8, <1>10, RowAddedIs
<1>12. SameSteps(st, w.store[d])
  BY <1>8, <1>11 DEF SameSteps
<1>13. /\ w.store[d].rows \in [pass : Int, fail : Int, refusals : Int, overrides : Int, unverifiable : Int]
       /\ w.store[d].counts \in [pass : Int, fail : Int, refusals : Int]
  BY <1>7 DEF StoreType
<1>14. /\ st.rows.refusals = w.store[d].rows.refusals /\ st.rows.overrides = w.store[d].rows.overrides
       /\ st.counts.refusals = w.store[d].counts.refusals
       /\ st.rows.pass = w.store[d].rows.pass + Added(outcome, "pass")
       /\ st.rows.fail = w.store[d].rows.fail + Added(outcome, "fail")
       /\ st.counts.pass = w.store[d].counts.pass + Added(outcome, "pass")
       /\ st.counts.fail = w.store[d].counts.fail + Added(outcome, "fail")
  <2>1. Added(kind, "refusals") = 0 /\ Added(kind, "overrides") = 0
    BY <1>9 DEF Added
  <2> QED BY <1>8, <1>9, <1>11, <1>13, <2>1
<1>15. Added(outcome, "pass") \in Int /\ Added(outcome, "fail") \in Int
  BY DEF Added
<1>16. PICK p : p = Stored(u, d, st)
  OBVIOUS
<1>17. /\ p.store[d] = st /\ \A o \in Dirs \ {d} : p.store[o] = w.store[o]
       /\ p.scored = s /\ p.signalled = w.signalled /\ p.inst = w.inst /\ p.slot = w.slot
       /\ p.seen = w.seen /\ p.held = w.held /\ p.last = w.last
  BY <1>5, <1>11, <1>16, StoredIs
<1>18. BooksAgree(p)
  <2>1. ASSUME OneStoryOf(p) PROVE OneStoryOf(w)
    <3>1. \A o \in Dirs : p.store[o].renewed = w.store[o].renewed
      BY <1>12, <1>17 DEF SameSteps
    <3>2. \A o \in Dirs, b \in Registrations : w.store[o].scored[b] # "none" => p.store[o].scored[b] # "none"
      BY <1>8, <1>11, <1>17
    <3> QED BY <2>1, <3>1, <3>2 DEF OneStoryOf
  <2>2. ASSUME OneStoryOf(p), NEW o \in Dirs
        PROVE  /\ p.store[o].rows.pass - p.store[o].rows.overrides = p.store[o].counts.pass
               /\ p.store[o].rows.fail + p.store[o].rows.overrides = p.store[o].counts.fail
    <3>1. /\ w.store[o].rows.pass - w.store[o].rows.overrides = w.store[o].counts.pass
          /\ w.store[o].rows.fail + w.store[o].rows.overrides = w.store[o].counts.fail
      BY <1>1, <2>1, <2>2 DEF BooksAgree
    <3>2. CASE o # d
      BY <1>17, <3>1, <3>2
    <3>3. CASE o = d
      <4>1. PICK x, y, rp, rf, ro, cp, cf :
              /\ x = Added(outcome, "pass") /\ y = Added(outcome, "fail")
              /\ rp = w.store[d].rows.pass /\ rf = w.store[d].rows.fail /\ ro = w.store[d].rows.overrides
              /\ cp = w.store[d].counts.pass /\ cf = w.store[d].counts.fail
        OBVIOUS
      <4>2. x \in Int /\ y \in Int /\ rp \in Int /\ rf \in Int /\ ro \in Int /\ cp \in Int /\ cf \in Int
        BY <1>13, <1>15, <4>1
      <4>3. rp - ro = cp /\ rf + ro = cf
        BY <3>1, <3>3, <4>1
      <4>4. /\ p.store[d].rows.pass = rp + x /\ p.store[d].rows.fail = rf + y
            /\ p.store[d].rows.overrides = ro
            /\ p.store[d].counts.pass = cp + x /\ p.store[d].counts.fail = cf + y
        BY <1>14, <1>17, <4>1
      <4>5. (rp + x) - ro = cp + x /\ (rf + y) + ro = cf + y
        BY <4>2, <4>3
      <4> QED BY <3>3, <4>4, <4>5
    <3> QED BY <3>2, <3>3
  <2>3. ASSUME OneStoryOf(p), NEW b \in Registrations
        PROVE  p.scored[b] = "pass" <=> \E o \in Dirs : p.store[o].scored[b] \in Passed
    <3>1. w.scored[b] = "pass" <=> \E o \in Dirs : w.store[o].scored[b] \in Passed
      BY <1>1, <2>1, <2>3 DEF BooksAgree
    <3>2. CASE b # a
      <4>1. \A o \in Dirs : p.store[o].scored[b] = w.store[o].scored[b]
        BY <1>8, <1>11, <1>17, <3>2
      <4> QED BY <1>3, <1>17, <3>1, <3>2, <4>1
    <3>3. CASE b = a
      <4>1. p.store[d].scored[a] # "none" /\ (p.store[d].scored[a] \in Passed <=> outcome = "pass")
        BY <1>8, <1>11, <1>17
      <4>2. \A o \in Dirs : o # d => p.store[o].scored[a] = "none"
        BY <2>3, <4>1 DEF OneStoryOf
      <4>3. "none" \notin Passed
        BY DEF Passed
      <4> QED BY <1>3, <1>17, <3>3, <4>1, <4>2, <4>3
    <3> QED BY <3>2, <3>3
  <2> QED BY <2>2, <2>3 DEF BooksAgree
<1>19. SignalsAreOne(p)
  <2>1. \A o \in Dirs : /\ p.store[o].signals = w.store[o].signals
                        /\ p.store[o].rows.refusals = w.store[o].rows.refusals
                        /\ p.store[o].counts.refusals = w.store[o].counts.refusals
    BY <1>8, <1>11, <1>14, <1>17
  <2>2. \A n : FewRefusals(w, n) => FewRefusals(p, n)
    BY <1>17, FewMore
  <2> QED BY <1>1, <1>17, <2>1, <2>2 DEF SignalsAreOne
<1>20. Good(p, {})
  BY <1>5, <1>11, <1>12, <1>16, <1>18, <1>19, BooksPut DEF BooksSound
<1>21. Tidies(p, w)
  BY <1>12, <1>17, TidiesBooks DEF SameSteps
<1>22. PICK q : q = IF scenario.role THEN appendSignal(p, d, a, IF half THEN "grader" ELSE "verdict") ELSE p
  OBVIOUS
<1>23. v = touchDispatch(q)
  <2>1. p = Stored([w EXCEPT !.scored[a] = outcome], d,
                    RowAdded(recordVerdict(w.store[d], a, outcome, half), outcome))
    BY <1>1, <1>2, <1>4, <1>6, <1>9, <1>10, <1>16 DEF WorldType
  <2> QED BY <1>22, <2>1, Zenon DEF Scored
<1>24. Good(q, {}) /\ Tidies(q, p)
  <2>1. CASE q = p
    BY <1>20, <2>1, TidiesItself
  <2>2. CASE q = appendSignal(p, d, a, IF half THEN "grader" ELSE "verdict")
    <3>1. PICK k \in SignalKinds : k = IF half THEN "grader" ELSE "verdict"
      BY DEF SignalKinds
    <3>2. q = appendSignal(p, d, a, k)
      BY <2>2, <3>1
    <3> QED BY <1>20, <3>2, AppendSignalSound
  <2> QED BY <1>22, <2>1, <2>2
<1>25. Good(v, {}) /\ Tidies(v, q)
  BY <1>23, <1>24, TouchSound
<1>26. Tidies(q, w)
  BY <1>21, <1>24, TidiesAdds
<1> QED BY <1>25, <1>26, TidiesAdds

\* A refusal takes the pass of the attempt back, wherever it was counted.
LEMMA RefusedSound ==
  ASSUME NEW w, Good(w, {}), NEW d \in Dirs, NEW a \in Registrations, RefusalKey(a) \notin w.signalled,
         NEW v, v = Refused(w, d, a)
  PROVE  Good(v, {}) /\ Tidies(v, w)
<1>1. WorldType(w) /\ BooksAgree(w) /\ SignalsAreOne(w)
  BY DEF Good, BooksSound
<1>2. PICK s : s = [w.scored EXCEPT ![a] = "refusal"]
  OBVIOUS
<1>3. /\ s \in [Registrations -> {"none", "pass", "fail", "refusal"}] /\ s[a] = "refusal"
      /\ \A b \in Registrations \ {a} : s[b] = w.scored[b]
  BY <1>1, <1>2 DEF WorldType
<1>4. PICK u, K : K = w.signalled \union {RefusalKey(a)} /\ u = [w EXCEPT !.scored = s, !.signalled = K]
  OBVIOUS
<1>5. /\ WorldType(u) /\ u.store = w.store /\ u.held = w.held /\ u.seen = w.seen /\ u.scored = s
      /\ u.signalled = K /\ u.inst = w.inst /\ u.slot = w.slot /\ u.last = w.last
  BY <1>1, <1>3, <1>4 DEF WorldType
<1>6. PICK t : t = recordFalseRefusal(w.store[d], a)
  OBVIOUS
<1>7. w.store[d] \in StoreType
  BY InStore
<1>8. /\ t \in StoreType /\ SameSteps(t, w.store[d]) /\ t.rows = w.store[d].rows
      /\ t.signals = w.store[d].signals
      /\ t.counts.pass = w.store[d].counts.pass - Taken(w.store[d], a)
      /\ t.counts.fail = w.store[d].counts.fail + Taken(w.store[d], a)
      /\ t.counts.refusals = w.store[d].counts.refusals + 1
      /\ t.scored[a] # "none" /\ t.scored[a] \notin Passed
      /\ \A b \in Registrations \ {a} : t.scored[b] = w.store[d].scored[b]
  BY <1>6, <1>7, RefusalIs
<1>9. PICK kind \in RowKinds : kind = "refusals"
  BY DEF RowKinds
<1>10. PICK r : r = RowAdded(t, kind)
  OBVIOUS
<1>11. /\ r \in StoreType /\ SameSteps(r, t) /\ r.scored = t.scored /\ r.counts = t.counts
       /\ r.signals = t.signals
       /\ r.rows.pass = t.rows.pass + Added(kind, "pass")
       /\ r.rows.fail = t.rows.fail + Added(kind, "fail")
       /\ r.rows.refusals = t.rows.refusals + Added(kind, "refusals")
       /\ r.rows.overrides = t.rows.overrides + Added(kind, "overrides")
  BY <1>8, <1>10, RowAddedIs
<1>12. PICK over : over = (w.scored[a] = "pass" /\ refusalChanges(w.store[d], a))
  OBVIOUS
<1>13. PICK extra \in RowKinds : extra = "overrides"
  BY DEF RowKinds
<1>14. PICK x : x = RowAdded(r, extra)
  OBVIOUS
<1>15. /\ x \in StoreType /\ SameSteps(x, r) /\ x.scored = r.scored /\ x.counts = r.counts
       /\ x.signals = r.signals
       /\ x.rows.pass = r.rows.pass + Added(extra, "pass")
       /\ x.rows.fail = r.rows.fail + Added(extra, "fail")
       /\ x.rows.refusals = r.rows.refusals + Added(extra, "refusals")
       /\ x.rows.overrides = r.rows.overrides + Added(extra, "overrides")
  BY <1>11, <1>14, RowAddedIs
<1>16. /\ w.store[d].rows \in [pass : Int, fail : Int, refusals : Int, overrides : Int, unverifiable : Int]
       /\ w.store[d].counts \in [pass : Int, fail : Int, refusals : Int]
  BY <1>7 DEF StoreType
<1>17. /\ Added(kind, "pass") = 0 /\ Added(kind, "fail") = 0 /\ Added(kind, "refusals") = 1
       /\ Added(kind, "overrides") = 0
       /\ Added(extra, "pass") = 0 /\ Added(extra, "fail") = 0 /\ Added(extra, "refusals") = 0
       /\ Added(extra, "overrides") = 1
  BY <1>9, <1>13 DEF Added
<1>18. PICK st : st = IF over THEN x ELSE r
  OBVIOUS
<1>19. PICK n : n = IF over THEN 1 ELSE 0
  OBVIOUS
<1>20. /\ st \in StoreType /\ SameSteps(st, w.store[d]) /\ st.scored = t.scored /\ st.counts = t.counts
       /\ st.signals = w.store[d].signals
       /\ st.rows.pass = w.store[d].rows.pass /\ st.rows.fail = w.store[d].rows.fail
       /\ st.rows.refusals = w.store[d].rows.refusals + 1
       /\ st.rows.overrides = w.store[d].rows.overrides + n
  <2>1. /\ r.rows.pass = w.store[d].rows.pass /\ r.rows.fail = w.store[d].rows.fail
        /\ r.rows.refusals = w.store[d].rows.refusals + 1 /\ r.rows.overrides = w.store[d].rows.overrides
    BY <1>8, <1>11, <1>16, <1>17
  <2>2. SameSteps(r, w.store[d])
    BY <1>8, <1>11 DEF SameSteps
  <2>3. CASE over
    <3>1. SameSteps(x, w.store[d])
      BY <1>15, <2>2 DEF SameSteps
    <3>2. /\ x.rows.pass = w.store[d].rows.pass /\ x.rows.fail = w.store[d].rows.fail
          /\ x.rows.refusals = w.store[d].rows.refusals + 1 /\ x.rows.overrides = w.store[d].rows.overrides + 1
      BY <1>15, <1>16, <1>17, <2>1
    <3> QED BY <1>8, <1>11, <1>15, <1>18, <1>19, <2>3, <3>1, <3>2
  <2>4. CASE ~over
    BY <1>8, <1>11, <1>16, <1>18, <1>19, <2>1, <2>2, <2>4
  <2> QED BY <2>3, <2>4
<1>21. PICK p : p = Stored(u, d, st)
  OBVIOUS
<1>22. /\ p.store[d] = st /\ \A o \in Dirs \ {d} : p.store[o] = w.store[o]
       /\ p.scored = s /\ p.signalled = K /\ p.inst = w.inst /\ p.slot = w.slot
       /\ p.seen = w.seen /\ p.held = w.held /\ p.last = w.last
  BY <1>5, <1>20, <1>21, StoredIs
<1>23. "none" \notin Passed
  BY DEF Passed
<1>24. BooksAgree(p)
  <2>1. ASSUME OneStoryOf(p)
        PROVE  OneStoryOf(w) /\ \A o \in Dirs : o # d => w.store[o].scored[a] = "none"
    <3>1. \A o \in Dirs : p.store[o].renewed = w.store[o].renewed
      BY <1>20, <1>22 DEF SameSteps
    <3>2. \A o \in Dirs, b \in Registrations : w.store[o].scored[b] # "none" => p.store[o].scored[b] # "none"
      BY <1>8, <1>20, <1>22
    <3>3. p.store[d].scored[a] # "none"
      BY <1>8, <1>20, <1>22
    <3>4. \A o \in Dirs : o # d => p.store[o].scored[a] = "none"
      BY <2>1, <3>3 DEF OneStoryOf
    <3> QED BY <1>22, <2>1, <3>1, <3>2, <3>4 DEF OneStoryOf
  <2>2. ASSUME OneStoryOf(p) PROVE n = Taken(w.store[d], a)
    <3>1. w.scored[a] = "pass" <=> \E o \in Dirs : w.store[o].scored[a] \in Passed
      BY <1>1, <2>1, <2>2 DEF BooksAgree
    <3>2. w.scored[a] = "pass" <=> w.store[d].scored[a] \in Passed
      BY <1>23, <2>1, <2>2, <3>1
    <3>3. over <=> w.store[d].scored[a] \in Passed
      BY <1>12, <3>2 DEF refusalChanges
    <3> QED BY <1>19, <3>3 DEF Taken
  <2>3. ASSUME OneStoryOf(p), NEW o \in Dirs
        PROVE  /\ p.store[o].rows.pass - p.store[o].rows.overrides = p.store[o].counts.pass
               /\ p.store[o].rows.fail + p.store[o].rows.overrides = p.store[o].counts.fail
    <3>1. /\ w.store[o].rows.pass - w.store[o].rows.overrides = w.store[o].counts.pass
          /\ w.store[o].rows.fail + w.store[o].rows.overrides = w.store[o].counts.fail
      BY <1>1, <2>1, <2>3 DEF BooksAgree
    <3>2. CASE o # d
      BY <1>22, <3>1, <3>2
    <3>3. CASE o = d
      <4>1. n = Taken(w.store[d], a) /\ n \in Int
        BY <1>19, <2>2, <2>3
      <4>2. /\ p.store[d].rows.pass = w.store[d].rows.pass /\ p.store[d].rows.fail = w.store[d].rows.fail
            /\ p.store[d].rows.overrides = w.store[d].rows.overrides + n
            /\ p.store[d].counts.pass = w.store[d].counts.pass - n
            /\ p.store[d].counts.fail = w.store[d].counts.fail + n
        BY <1>8, <1>20, <1>22, <4>1
      <4> QED BY <1>16, <3>1, <3>3, <4>1, <4>2
    <3> QED BY <3>2, <3>3
  <2>4. ASSUME OneStoryOf(p), NEW b \in Registrations
        PROVE  p.scored[b] = "pass" <=> \E o \in Dirs : p.store[o].scored[b] \in Passed
    <3>1. w.scored[b] = "pass" <=> \E o \in Dirs : w.store[o].scored[b] \in Passed
      BY <1>1, <2>1, <2>4 DEF BooksAgree
    <3>2. CASE b # a
      <4>1. \A o \in Dirs : p.store[o].scored[b] = w.store[o].scored[b]
        BY <1>8, <1>20, <1>22, <3>2
      <4> QED BY <1>3, <1>22, <3>1, <3>2, <4>1
    <3>3. CASE b = a
      <4>1. \A o \in Dirs : p.store[o].scored[a] \notin Passed
        BY <1>8, <1>20, <1>22, <1>23, <2>1, <2>4
      <4> QED BY <1>3, <1>22, <3>3, <4>1
    <3> QED BY <3>2, <3>3
  <2> QED BY <2>3, <2>4 DEF BooksAgree
<1>25. SignalsAreOne(p)
  <2>1. \A o \in Dirs : w.store[o].rows.refusals = w.store[o].counts.refusals
    BY <1>1 DEF SignalsAreOne
  <2>2. \A o \in Dirs : /\ p.store[o].signals = w.store[o].signals
                        /\ p.store[o].rows.refusals = p.store[o].counts.refusals
    <3>1. ASSUME NEW o \in Dirs \ {d}
          PROVE  p.store[o] = w.store[o]
      BY <1>22
    <3>2. p.store[d].signals = w.store[d].signals /\ p.store[d].rows.refusals = p.store[d].counts.refusals
      BY <1>8, <1>20, <1>22, <2>1
    <3> QED BY <2>1, <3>1, <3>2
  <2>3. ASSUME NEW o \in Dirs
        PROVE  FewRefusals(p, p.store[o].counts.refusals)
    <3>1. FewRefusals(w, w.store[o].counts.refusals)
      BY <1>1 DEF SignalsAreOne
    <3>2. CASE o # d
      BY <1>4, <1>22, <3>1, <3>2, FewMore
    <3>3. CASE o = d
      <4>1. p.store[o].counts.refusals = w.store[o].counts.refusals + 1
        BY <1>8, <1>20, <1>22, <3>3
      <4>2. FewRefusals(p, w.store[o].counts.refusals + 1)
        BY <1>4, <1>22, <3>1, FewOneMore
      <4> QED BY <4>1, <4>2
    <3> QED BY <3>2, <3>3
  <2>4. w.signalled \subseteq p.signalled
    BY <1>4, <1>22
  <2> QED BY <1>1, <2>2, <2>3, <2>4 DEF SignalsAreOne
<1>26. Good(p, {})
  BY <1>5, <1>20, <1>21, <1>24, <1>25, BooksPut DEF BooksSound
<1>27. Tidies(p, w)
  BY <1>20, <1>22, TidiesBooks DEF SameSteps
<1>28. v = touchDispatch(p)
  <2>1. u = [w EXCEPT !.scored[a] = "refusal", !.signalled = @ \union {RefusalKey(a)}]
    BY <1>1, <1>2, <1>4 DEF WorldType
  <2>2. st = IF over THEN RowAdded(r, "overrides") ELSE r
    BY <1>13, <1>14, <1>18
  <2>3. r = RowAdded(recordFalseRefusal(w.store[d], a), "refusals")
    BY <1>6, <1>9, <1>10
  <2> QED BY <1>12, <1>21, <2>1, <2>2, <2>3 DEF Refused
<1>29. Good(v, {}) /\ Tidies(v, p)
  BY <1>26, <1>28, TouchSound
<1> QED BY <1>27, <1>29, TidiesAdds

LEMMA OnVerdictSound ==
  ASSUME NEW w, Good(w, {}), NEW i \in Instances, NEW outcome \in {"pass", "fail", "unverifiable"},
         NEW grader, NEW v, v = onVerdict(w, i, outcome, grader)
  PROVE  Good(v, {}) /\ Tidies(v, w)
<1>1. CASE ~targetOf(w, i)
  BY <1>1, TidiesItself DEF onVerdict
<1>2. CASE targetOf(w, i)
  <2>1. PICK d, a, half : /\ d = settings(w, i) /\ a = w.slot.attempt
                          /\ half = (scenario.role /\ outcome # "unverifiable" /\ grader # Nil)
    OBVIOUS
  <2>2. d \in Dirs /\ settings(w, i) # Off /\ a \in Registrations /\ half \in BOOLEAN
    BY <1>2, <2>1, HostTypes DEF targetOf, Slot
  <2>3. PICK u : u = bundleFor(w, i)
    OBVIOUS
  <2>4. Good(u, {}) /\ Tidies(u, w)
    BY <2>2, <2>3, BundleSound
  <2>5. CASE outcome = "unverifiable"
    <3>1. v = Unverifiable(u, d, a)
      BY <1>2, <2>1, <2>3, <2>5 DEF onVerdict
    <3>2. Good(v, {}) /\ Tidies(v, u)
      BY <2>2, <2>4, <3>1, UnverifiableSound
    <3> QED BY <2>4, <3>2, TidiesAdds
  <2>6. CASE outcome # "unverifiable"
    <3>1. \/ v = touchDispatch(u)
          \/ v = Verdict(u, d, a, outcome, half)
      BY <1>2, <2>1, <2>3, <2>6 DEF onVerdict
    <3>2. CASE v = touchDispatch(u)
      <4>1. Good(v, {}) /\ Tidies(v, u)
        BY <2>4, <3>2, TouchSound
      <4> QED BY <2>4, <4>1, TidiesAdds
    <3>3. CASE v = Verdict(u, d, a, outcome, half)
      <4>1. outcome \in {"pass", "fail"}
        BY <2>6
      <4>2. CASE u.store[d].scored[a] # "none"
        BY <2>4, <3>3, <4>2 DEF Verdict
      <4>3. CASE u.store[d].scored[a] = "none"
        <5>1. v = Scored(u, d, a, outcome, half)
          BY <3>3, <4>3 DEF Verdict
        <5>2. Good(v, {}) /\ Tidies(v, u)
          BY <2>2, <2>4, <4>1, <4>3, <5>1, ScoredSound
        <5> QED BY <2>4, <5>2, TidiesAdds
      <4> QED BY <4>2, <4>3
    <3> QED BY <3>1, <3>2, <3>3
  <2> QED BY <2>5, <2>6
<1> QED BY <1>1, <1>2

\* Taking a bundle keeps the keys.
SameKeys(v, w) == "signalled" \in DOMAIN v /\ v.signalled = w.signalled

LEMMA BundleKeys ==
  ASSUME NEW w, WorldType(w), NEW i \in Instances
  PROVE  bundleFor(w, i).signalled = w.signalled
<1>1. SameKeys(w, w)
  BY DEF WorldType, SameKeys
<1>2. ASSUME NEW v, SameKeys(v, w)
      PROVE  /\ SameKeys(StillHeld(v, i), w) /\ SameKeys(Released(v), w)
             /\ \A d : /\ SameKeys(Acquired(v, i, d), w)
                       /\ \A due : SameKeys(settleAll(v, i, d, due), w)
  <2>1. SameKeys(StillHeld(v, i), w)
    BY <1>2 DEF SameKeys, StillHeld
  <2>2. SameKeys(Released(v), w)
    BY <1>2 DEF SameKeys, Released
  <2>3. ASSUME NEW d
        PROVE  SameKeys(Acquired(v, i, d), w)
    BY <1>2 DEF SameKeys, Acquired
  <2>4. ASSUME NEW d, NEW due
        PROVE  SameKeys(settleAll(v, i, d, due), w)
    <3>1. CASE due = {} \/ ~Reaches(v, i, d)
      BY <1>2, <3>1 DEF settleAll
    <3>2. CASE due # {} /\ Reaches(v, i, d)
      <4>1. PICK late : late = {h.attempt : h \in due} \ v.store[d].closed
        OBVIOUS
      <4>2. PICK last : last = [b \in late |-> <<(CHOOSE h \in due : h.attempt = b).step>>]
        OBVIOUS
      <4>3. PICK u : u = Stored(Acquired(v, i, d), d, foldAll(v.store[d], last))
        OBVIOUS
      <4>4. settleAll(v, i, d, due) =
              [u EXCEPT !.held = @ \ due, !.inst[i].owned = @ \ {<<d, h.attempt>> : h \in due}]
        BY <3>2, <4>1, <4>2, <4>3 DEF settleAll
      <4>5. SameKeys(u, w)
        BY <2>3, <4>3 DEF SameKeys, Stored
      <4> QED BY <4>4, <4>5 DEF SameKeys
    <3> QED BY <3>1, <3>2
  <2> QED BY <2>1, <2>2, <2>3, <2>4
<1>3. SameKeys(settleOwned(w, i), w)
  BY <1>1, <1>2 DEF settleOwned
<1>4. SameKeys(Holding(settleOwned(w, i), i, settings(w, i)), w)
  BY <1>2, <1>3 DEF Holding
<1>5. SameKeys(Acquired(w, i, settings(w, i)), w)
  BY <1>1, <1>2
<1>6. \/ bundleFor(w, i) = w
      \/ bundleFor(w, i) = Acquired(w, i, settings(w, i))
      \/ bundleFor(w, i) = Holding(settleOwned(w, i), i, settings(w, i))
  BY DEF bundleFor
<1> QED BY <1>4, <1>5, <1>6 DEF SameKeys

LEMMA OnRefusalSound ==
  ASSUME NEW w, Good(w, {}), NEW i \in Instances, NEW v, v = onFalseRefusal(w, i)
  PROVE  Good(v, {}) /\ Tidies(v, w)
<1>1. CASE ~targetOf(w, i) \/ RefusalKey(w.slot.attempt) \in w.signalled
  BY <1>1, TidiesItself DEF onFalseRefusal
<1>2. CASE ~(~targetOf(w, i) \/ RefusalKey(w.slot.attempt) \in w.signalled)
  <2>1. PICK d, a : d = settings(w, i) /\ a = w.slot.attempt
    OBVIOUS
  <2>2. d \in Dirs /\ settings(w, i) # Off /\ a \in Registrations
    BY <1>2, <2>1, HostTypes DEF targetOf, Slot
  <2>3. PICK u : u = bundleFor(w, i)
    OBVIOUS
  <2>4. Good(u, {}) /\ Tidies(u, w)
    BY <2>2, <2>3, BundleSound
  <2>5. RefusalKey(a) \notin u.signalled
    BY <1>2, <2>1, <2>3, BundleKeys DEF Good
  <2>6. v = Refused(u, d, a)
    BY <1>2, <2>1, <2>3 DEF onFalseRefusal
  <2>7. Good(v, {}) /\ Tidies(v, u)
    BY <2>2, <2>4, <2>5, <2>6, RefusedSound
  <2> QED BY <2>4, <2>7, TidiesAdds
<1> QED BY <1>1, <1>2

LEMMA OnSignalSound ==
  ASSUME NEW w, Good(w, {}), NEW i \in Instances, NEW kind \in SignalKinds, NEW v, v = onSignal(w, i, kind)
  PROVE  Good(v, {}) /\ Tidies(v, w)
<1>1. CASE ~targetOf(w, i)
  BY <1>1, TidiesItself DEF onSignal
<1>2. CASE targetOf(w, i)
  <2>1. PICK d, a : d = settings(w, i) /\ a = w.slot.attempt
    OBVIOUS
  <2>2. d \in Dirs /\ settings(w, i) # Off /\ a \in Registrations
    BY <1>2, <2>1, HostTypes DEF targetOf, Slot
  <2>3. PICK u : u = bundleFor(w, i)
    OBVIOUS
  <2>4. Good(u, {}) /\ Tidies(u, w)
    BY <2>2, <2>3, BundleSound
  <2>5. PICK p : p = appendSignal(u, d, a, kind)
    OBVIOUS
  <2>6. Good(p, {}) /\ Tidies(p, u)
    BY <2>2, <2>4, <2>5, AppendSignalSound
  <2>7. v = touchDispatch(p)
    BY <1>2, <2>1, <2>3, <2>5 DEF onSignal
  <2>8. Good(v, {}) /\ Tidies(v, p)
    BY <2>6, <2>7, TouchSound
  <2>9. Tidies(p, w)
    BY <2>4, <2>6, TidiesAdds
  <2> QED BY <2>8, <2>9, TidiesAdds
<1> QED BY <1>1, <1>2

HostPut(v, w, i, n) ==
  /\ v.inst[i] = n /\ v.slot = w.slot /\ \A j \in Instances \ {i} : v.inst[j] = w.inst[j]
  /\ v.seen = w.seen /\ v.last = w.last /\ v.held = w.held /\ v.store = w.store

LEMMA HostPutSound ==
  ASSUME NEW w, Good(w, {}), NEW i \in Instances, NEW n \in InstanceType,
         NEW v, v = [w EXCEPT !.inst = [w.inst EXCEPT ![i] = n]]
  PROVE  Good(v, {}) /\ HostPut(v, w, i, n)
<1>1. HostPut(v, w, i, n)
  BY DEF Good, WorldType, HostPut
<1>2. Good(v, {})
  BY HostSet
<1> QED BY <1>1, <1>2

Registered(v, w, a) ==
  /\ v.slot.attempt = a /\ v.seen = w.seen
  /\ \A j \in Instances : /\ settings(v, j) = settings(w, j)
                          /\ v.inst[j].disposed = w.inst[j].disposed
                          /\ v.inst[j].holds = w.inst[j].holds
  /\ \A d \in Dirs, b \in Registrations : LeftIn(v, d, b) => LeftIn(w, d, b)

\* A registration changes the slot, and gives the dispatching instance's recorder its bundle.
LEMMA RecordSound ==
  ASSUME NEW w, Good(w, {}), Len(bus) \in Nat, NEW a \in Registrations, NEW r \in Nat, NEW keep \in BOOLEAN,
         NEW v, v = record(w, a, r, keep)
  PROVE  Good(v, {}) /\ Registered(v, w, a)
<1>1. WorldType(w) /\ Owner \in Instances
  BY IngestAssumption DEF Good
<1>2. PICK carried : carried = (keep /\ w.slot # Nil)
  OBVIOUS
<1>3. PICK on : on = (settings(w, Owner) # Off)
  OBVIOUS
<1>4. PICK s : s = [attempt |-> a, outcomes |-> on, run |-> r, idle |-> FALSE,
                    from |-> IF carried THEN w.slot.from ELSE Len(bus),
                    noted |-> IF carried THEN w.slot.noted ELSE {},
                    ended |-> carried /\ w.slot.ended]
  OBVIOUS
<1>5. s \in Slot /\ s.attempt = a
  <2>1. w.slot # Nil => w.slot.from \in Nat /\ w.slot.noted \in SUBSET Nat /\ w.slot.ended \in BOOLEAN
    BY <1>1 DEF WorldType, Slot
  <2>2. carried => w.slot # Nil
    BY <1>2
  <2> QED BY <1>3, <1>4, <2>1, <2>2 DEF Slot
<1>6. PICK u : u = [w EXCEPT !.slot = s]
  OBVIOUS
<1>7. /\ Good(u, {}) /\ u.slot = s /\ u.inst = w.inst /\ u.held = w.held /\ u.store = w.store
      /\ u.seen = w.seen
  BY <1>5, <1>6, SlotSet
<1>8. u = rememberDispatch(w, a, on, r, Len(bus), keep)
  BY <1>2, <1>4, <1>6 DEF rememberDispatch
<1>9. CASE ~on
  <2>1. v = u
    BY <1>3, <1>8, <1>9 DEF record
  <2> QED BY <1>5, <1>7, <2>1 DEF settings, Registered, LeftIn, HeldFor
<1>10. CASE on
  <2>1. PICK d : d = settings(w, Owner)
    OBVIOUS
  <2>2. d \in Dirs
    BY <1>1, <1>3, <1>10, <2>1, HostTypes
  <2>3. PICK n : n = [u.inst[Owner] EXCEPT !.recorder = d]
    OBVIOUS
  <2>4. /\ n \in InstanceType /\ n.settings = u.inst[Owner].settings /\ n.disposed = u.inst[Owner].disposed
        /\ n.holds = u.inst[Owner].holds
    BY <1>1, <1>7, <2>2, <2>3 DEF WorldType, InstanceType
  <2>5. PICK p : p = [u EXCEPT !.inst[Owner].recorder = d]
    OBVIOUS
  <2>6. p = [u EXCEPT !.inst = [u.inst EXCEPT ![Owner] = n]]
    BY <1>7, <2>3, <2>5 DEF Good, WorldType
  <2>7. Good(p, {}) /\ HostPut(p, u, Owner, n)
    BY <1>1, <1>7, <2>4, <2>6, HostPutSound
  <2>8. v = Released(p)
    BY <1>3, <1>8, <1>10, <2>1, <2>5 DEF record
  <2>9. Good(v, {}) /\ Tidies(v, p) /\ v.inst = p.inst /\ v.slot = p.slot
    <3>1. Good(v, {}) /\ Tidies(v, p) /\ v.inst = p.inst
      BY <2>7, <2>8, ReleasedSound
    <3>2. v.slot = p.slot
      BY <2>7, <2>8 DEF Good, WorldType, Released
    <3> QED BY <3>1, <3>2
  <2>10. \A d1 \in Dirs, b \in Registrations : LeftIn(v, d1, b) => LeftIn(w, d1, b)
    <3>1. \A d1 \in Dirs, b \in Registrations : LeftIn(v, d1, b) => LeftIn(p, d1, b)
      BY <2>9 DEF Tidies, Lasts
    <3>2. p.held = w.held /\ p.store = w.store
      BY <1>7, <2>7 DEF HostPut
    <3> QED BY <3>1, <3>2 DEF LeftIn, HeldFor
  <2>11. \A j \in Instances : /\ settings(v, j) = settings(w, j)
                              /\ v.inst[j].disposed = w.inst[j].disposed
                              /\ v.inst[j].holds = w.inst[j].holds
    BY <1>7, <2>4, <2>7, <2>9 DEF settings, HostPut
  <2>12. v.slot.attempt = a /\ v.seen = w.seen
    BY <1>5, <1>7, <2>7, <2>9 DEF HostPut, Tidies
  <2> QED BY <2>9, <2>10, <2>11, <2>12 DEF Registered
<1> QED BY <1>9, <1>10

Disposed(v, w, i) ==
  /\ v.slot # Nil => /\ w.slot # Nil /\ v.slot.attempt = w.slot.attempt
                     /\ v.slot.outcomes = w.slot.outcomes
  /\ v.inst[i].disposed
  /\ \A j \in Instances \ {i} : settings(v, j) = settings(w, j) /\ v.inst[j].disposed = w.inst[j].disposed
  /\ v.seen = w.seen /\ \A j \in Instances : Steady(w, j) => Steady(v, j)
  /\ \A d \in Dirs, a \in Registrations : Lasts(v, w, d, a)

LEMMA DisposedSound ==
  ASSUME NEW w, Good(w, {}), NEW i \in Instances, NEW u, u = [w EXCEPT !.inst[i].disposed = TRUE],
         NEW v, v = Released([settleOwned(u, i) EXCEPT !.inst[i].holds = Nil, !.inst[i].recorder = Nil])
  PROVE  Good(v, {}) /\ Disposed(v, w, i)
<1>1. PICK m : m = [w.inst[i] EXCEPT !.disposed = TRUE]
  OBVIOUS
<1>2. /\ m \in InstanceType /\ m.disposed = TRUE /\ m.settings = w.inst[i].settings
      /\ m.holds = w.inst[i].holds
  <2>1. w.inst[i] \in InstanceType
    BY DEF Good, WorldType
  <2>2. m = [settings |-> w.inst[i].settings, holds |-> w.inst[i].holds, recorder |-> w.inst[i].recorder,
             owned |-> w.inst[i].owned, disposed |-> TRUE]
    BY <1>1, <2>1 DEF InstanceType
  <2> QED BY <2>1, <2>2 DEF InstanceType
<1>3. u = [w EXCEPT !.inst = [w.inst EXCEPT ![i] = m]]
  BY <1>1 DEF Good, WorldType
<1>4. Good(u, {}) /\ HostPut(u, w, i, m)
  BY <1>2, <1>3, HostPutSound
<1>5. PICK t : t = settleOwned(u, i)
  OBVIOUS
<1>6. Good(t, {}) /\ Tidies(t, u)
  BY <1>4, <1>5, SettleOwnedSound
<1>7. PICK n : n = [t.inst[i] EXCEPT !.holds = Nil, !.recorder = Nil]
  OBVIOUS
<1>8. /\ n \in InstanceType /\ n.settings = t.inst[i].settings /\ n.disposed = t.inst[i].disposed
      /\ n.holds = Nil
  <2>1. t.inst[i] \in InstanceType
    BY <1>6 DEF Good, WorldType
  <2>2. n = [settings |-> t.inst[i].settings, holds |-> Nil, recorder |-> Nil,
             owned |-> t.inst[i].owned, disposed |-> t.inst[i].disposed]
    BY <1>7, <2>1 DEF InstanceType
  <2> QED BY <2>1, <2>2 DEF InstanceType
<1>9. PICK p : p = [t EXCEPT !.inst[i].holds = Nil, !.inst[i].recorder = Nil]
  OBVIOUS
<1>10. p = [t EXCEPT !.inst = [t.inst EXCEPT ![i] = n]]
  <2>1. t.inst \in [Instances -> InstanceType] /\ WorldType(t)
    BY <1>6 DEF Good, WorldType
  <2>2. PICK q : q = [t EXCEPT !.inst[i].holds = Nil]
    OBVIOUS
  <2>3. p = [q EXCEPT !.inst[i].recorder = Nil]
    BY <1>9, <2>2
  <2>4. q = [t EXCEPT !.inst = [t.inst EXCEPT ![i] = [t.inst[i] EXCEPT !.holds = Nil]]]
    BY <2>1, <2>2 DEF WorldType
  <2>5. q.inst[i] = [t.inst[i] EXCEPT !.holds = Nil] /\ q.inst = [t.inst EXCEPT ![i] = [t.inst[i] EXCEPT !.holds = Nil]]
    BY <2>1, <2>4 DEF WorldType
  <2>6. p = [q EXCEPT !.inst = [q.inst EXCEPT ![i] = [q.inst[i] EXCEPT !.recorder = Nil]]]
    BY <2>1, <2>3, <2>4 DEF WorldType
  <2>7. [q.inst[i] EXCEPT !.recorder = Nil] = n
    BY <1>7, <2>1, <2>5 DEF InstanceType
  <2>8. [q.inst EXCEPT ![i] = n] = [t.inst EXCEPT ![i] = n]
    BY <2>1, <2>5
  <2> QED BY <2>1, <2>4, <2>6, <2>7, <2>8 DEF WorldType
<1>11. Good(p, {}) /\ Tidies(p, t)
  BY <1>6, <1>8, <1>10, HostSet
<1>12. v = Released(p)
  BY <1>5, <1>9
<1>13. Good(v, {}) /\ Tidies(v, p)
  BY <1>11, <1>12, ReleasedSound
<1>14. Tidies(p, u)
  BY <1>6, <1>11, TidiesAdds
<1>15. Tidies(v, u)
  BY <1>13, <1>14, TidiesAdds
<1>16. \A j \in Instances : Steady(w, j) => Steady(u, j)
  BY <1>2, <1>4 DEF HostPut, Steady, settings
<1>17. \A j \in Instances : Steady(w, j) => Steady(v, j)
  BY <1>15, <1>16 DEF Tidies, SameHosts
<1>18. \A d \in Dirs, a \in Registrations : Lasts(v, w, d, a)
  <2>1. \A d \in Dirs, a \in Registrations : LeftIn(u, d, a) => LeftIn(w, d, a)
    BY <1>4 DEF HostPut, LeftIn, HeldFor
  <2> QED BY <1>4, <1>15, <2>1 DEF HostPut, Tidies, Lasts
<1>19. /\ v.slot # Nil => /\ w.slot # Nil /\ v.slot.attempt = w.slot.attempt
                         /\ v.slot.outcomes = w.slot.outcomes
       /\ v.seen = w.seen
  BY <1>4, <1>15 DEF HostPut, Tidies, SameHosts
<1>20. /\ v.inst[i].disposed
       /\ \A j \in Instances \ {i} : settings(v, j) = settings(w, j) /\ v.inst[j].disposed = w.inst[j].disposed
  <2>1. \A j \in Instances : settings(v, j) = settings(u, j) /\ v.inst[j].disposed = u.inst[j].disposed
    BY <1>15 DEF Tidies, SameHosts
  <2>2. u.inst[i].disposed /\ \A j \in Instances \ {i} : u.inst[j] = w.inst[j]
    BY <1>2, <1>4 DEF HostPut
  <2>3. ASSUME NEW j \in Instances \ {i}
        PROVE  settings(v, j) = settings(w, j) /\ v.inst[j].disposed = w.inst[j].disposed
    <3>1. u.inst[j] = w.inst[j] /\ settings(u, j) = settings(w, j)
      BY <2>2 DEF settings
    <3> QED BY <2>1, <3>1, Zenon
  <2>4. v.inst[i].disposed
    BY <2>1, <2>2, Zenon
  <2> QED BY <2>3, <2>4
<1> QED BY <1>13, <1>17, <1>18, <1>19, <1>20 DEF Disposed

\* What is sound stays sound while events and registrations only grow.
LEMMA GoodHolds ==
  ASSUME Good(world', {}), \A a, e : Own(a, e) => Own(a, e)'
  PROVE  Good(world, {})'
<1>1. WorldType(world)'
  BY DEF Good, WorldType
<1>2. BooksSound(world)'
  BY DEF Good, BooksSound, BooksAgree, SignalsAreOne, OneStoryOf
<1>3. ASSUME NEW d \in Dirs
      PROVE  FoldsSound(world.store[d])'
  <2>1. FoldsSound(world'.store[d])
    BY DEF Good, StepsSound
  <2> QED BY <2>1 DEF FoldsSound, OpenSteps, StepSet, OnceEach, Own
<1>4. ASSUME NEW d \in Dirs
      PROVE  OpensSound(world.store[d])'
  <2>1. OpensSound(world'.store[d])
    BY DEF Good, StepsSound
  <2> QED BY <2>1 DEF OpensSound, StepSet, OnceEach, Own
<1>5. ASSUME NEW d \in Dirs
      PROVE  HeldSound(world.held, d, world.store[d])' /\ SeenSound(world, d, {})'
  <2>1. HeldSound(world'.held, d, world'.store[d]) /\ SeenSound(world', d, {})
    BY DEF Good, StepsSound
  <2> QED BY <2>1 DEF HeldSound, SeenSound, FoldedSteps, OpenSteps, StepSet, OnceEach, Own
<1> QED BY <1>1, <1>2, <1>3, <1>4, <1>5 DEF Good, StepsSound

-----------------------------------------------------------------------------
(* The steps of Ingest. *)

\* New events are of the run there is.
Grown ==
  /\ bus' \in Seq(Event) /\ DOMAIN bus \subseteq DOMAIN bus'
  /\ \A e \in DOMAIN bus : bus'[e] = bus[e]
  /\ \A e \in DOMAIN bus' \ DOMAIN bus : bus'[e].run = run.n

TroublesKept == troubles' \in Nat /\ troubles <= troubles' /\ troubles' <= scenario.troubles

\* An instance that records recorded before, or had taken every step.
HostsFollow ==
  /\ world'.slot # Nil => world.slot # Nil /\ world'.slot.attempt = world.slot.attempt
  /\ \A i \in Instances : ~world'.inst[i].disposed /\ settings(world', i) # Off =>
       \/ ~world.inst[i].disposed /\ settings(world, i) # Off
       \/ TakenAll(i, StepKinds)

PositionsKept == pos' \in [Instances -> Nat] /\ \A i \in Instances : pos[i] <= pos'[i]

PricingKept == handling' = [i \in Instances |-> handling'[i]] /\ \A i \in Instances : PricedOwn(handling'[i])

LEMMA SameAttempts ==
  ASSUME IngestInv, scenario' = scenario, attempts' = attempts, Grown, TroublesKept,
         run' \in ChildType, run'.n = run.n, Good(world', {}), HostsFollow, PositionsKept, PricingKept
  PROVE  IngestInv'
<1>1. AttemptsBounded /\ StepsOnTheirWay
  BY DEF IngestInv
<1>2. ASSUME NEW a, NEW e, Own(a, e)
      PROVE  Own(a, e)'
  BY <1>2 DEF Own, Grown
<1>3. Good(world, {})'
  BY <1>2, GoodHolds
<1>4. AttemptsBounded'
  <2>1. run.n \in Nat /\ scenario \in Scenarios
    BY <1>1 DEF AttemptsBounded, ChildType
  <2>2. scenario.troubles \in Nat /\ Len(attempts) \in Nat
    BY <1>1, <2>1, IngestAssumption DEF AttemptsBounded
  <2> QED BY <1>1, <2>1, <2>2 DEF AttemptsBounded, TroublesKept
<1>5. ASSUME NEW e \in DOMAIN bus' \ DOMAIN bus, attempts # <<>>
      PROVE  Own(Len(attempts), e)'
  <2>1. Len(attempts) \in DOMAIN attempts
    BY <1>1, <1>5 DEF AttemptsBounded
  <2> QED BY <1>1, <1>5, <2>1 DEF Own, Grown, AttemptsBounded
<1>6. ASSUME NEW i \in Instances
      PROVE  PendingOwn(i)'
  <2> SUFFICES ASSUME ~world'.inst[i].disposed, settings(world', i) # Off, attempts # <<>>,
                      NEW e \in DOMAIN bus', bus'[e].kind \in StepKinds, e > pos'[i]
               PROVE  Own(Len(attempts), e)'
    BY DEF PendingOwn, settings
  <2>1. CASE e \notin DOMAIN bus
    BY <1>5, <2>1
  <2>2. CASE e \in DOMAIN bus
    <3>1. e \in Nat /\ pos[i] \in Nat /\ pos'[i] \in Nat /\ pos[i] <= pos'[i] /\ bus'[e] = bus[e]
      BY <1>1, <2>2 DEF StepsOnTheirWay, PositionsKept, Grown
    <3>2. e > pos[i] /\ ~(e <= pos[i])
      BY <3>1
    <3>3. ~TakenAll(i, StepKinds)
      BY <2>2, <3>1, <3>2 DEF TakenAll
    <3>4. ~world.inst[i].disposed /\ settings(world, i) # Off
      BY <3>3 DEF HostsFollow
    <3>5. PendingOwn(i)
      BY <1>1 DEF StepsOnTheirWay
    <3>6. Own(Len(attempts), e)
      BY <2>2, <3>1, <3>2, <3>4, <3>5 DEF PendingOwn
    <3> QED BY <1>2, <3>6
  <2> QED BY <2>1, <2>2
<1>7. ASSUME NEW i \in Instances
      PROVE  PricedOwn(handling[i])'
  <2>1. PricedOwn(handling'[i])
    BY DEF PricingKept
  <2> QED BY <1>2, <2>1 DEF PricedOwn
<1>8. attempts = <<>> => \A e \in DOMAIN bus' : bus'[e].run = 1
  BY <1>1 DEF StepsOnTheirWay, AttemptsBounded, Grown
<1>9. world'.slot # Nil => world'.slot.attempt = Len(attempts)
  BY <1>1 DEF StepsOnTheirWay, HostsFollow
<1>10. StepsOnTheirWay'
  BY <1>6, <1>7, <1>8, <1>9 DEF StepsOnTheirWay, Grown, PositionsKept, PricingKept
<1> QED BY <1>3, <1>4, <1>10 DEF IngestInv

LEMMA BusKept ==
  ASSUME IngestInv
  PROVE  /\ bus' = bus => Grown
         /\ \A kind \in EventKinds : Emit(kind) => Grown
<1>1. bus \in Seq(Event) /\ run.n \in Nat
  BY DEF IngestInv, StepsOnTheirWay, AttemptsBounded, ChildType
<1>2. bus' = bus => Grown
  BY <1>1 DEF Grown
<1>3. ASSUME NEW kind \in EventKinds, Emit(kind)
      PROVE  Grown
  <2>1. PICK x : x = [kind |-> kind, run |-> run.n]
    OBVIOUS
  <2>2. x \in Event /\ x.run = run.n /\ bus' = Append(bus, x)
    BY <1>1, <1>3, <2>1 DEF Event, Emit
  <2>3. Len(bus) \in Nat /\ DOMAIN bus = 1..Len(bus)
    BY <1>1
  <2>4. /\ bus' \in Seq(Event) /\ Len(bus') = Len(bus) + 1 /\ bus'[Len(bus) + 1] = x
        /\ DOMAIN bus' = 1..(Len(bus) + 1) /\ \A e \in 1..Len(bus) : bus'[e] = bus[e]
    BY <1>1, <2>2
  <2>5. \A e \in DOMAIN bus' \ DOMAIN bus : e = Len(bus) + 1
    BY <2>3, <2>4
  <2> QED BY <2>2, <2>3, <2>4, <2>5 DEF Grown
<1> QED BY <1>2, <1>3

LEMMA TroublesMove ==
  ASSUME IngestInv
  PROVE  /\ troubles' = troubles => TroublesKept
         /\ \A fault : Disturbance(fault) => TroublesKept
<1>1. troubles \in Nat /\ troubles <= scenario.troubles /\ scenario.troubles \in Nat
  BY IngestAssumption DEF IngestInv, AttemptsBounded
<1> QED BY <1>1 DEF TroublesKept, Disturbance

LEMMA PositionsMove ==
  ASSUME IngestInv
  PROVE  /\ pos' = pos => PositionsKept
         /\ \A i \in Instances : pos' = [pos EXCEPT ![i] = pos[i] + 1] => PositionsKept
<1>1. pos \in [Instances -> Nat]
  BY DEF IngestInv, StepsOnTheirWay
<1> QED BY <1>1 DEF PositionsKept

LEMMA PricingMoves ==
  ASSUME IngestInv
  PROVE  /\ handling' = handling => PricingKept
         /\ \A i \in Instances : handling' = [handling EXCEPT ![i] = Nil] => PricingKept
         /\ \A i \in Instances : handling' = Resolved(i) => PricingKept
<1>1. handling = [i \in Instances |-> handling[i]] /\ \A i \in Instances : PricedOwn(handling[i])
  BY DEF IngestInv, StepsOnTheirWay
<1>2. PricedOwn(Nil)
  BY DEF PricedOwn
<1>3. ASSUME NEW i \in Instances, handling' = Resolved(i)
      PROVE  PricingKept
  <2>1. PICK h : h = handling[i]
    OBVIOUS
  <2>2. PICK n : n = IF h = Nil THEN h ELSE [h EXCEPT !.wait = FALSE]
    OBVIOUS
  <2>3. handling' = [handling EXCEPT ![i] = n]
    BY <1>1, <1>3, <2>1, <2>2 DEF Resolved
  <2>4. CASE h = Nil
    BY <1>1, <1>2, <2>2, <2>3, <2>4 DEF PricingKept
  <2>5. CASE h # Nil
    <3>1. h \in [step : Nat, attempt : Registrations, wait : {h.wait}] /\ Own(h.attempt, h.step)
      BY <1>1, <2>1, <2>5 DEF PricedOwn
    <3>2. n = [step |-> h.step, attempt |-> h.attempt, wait |-> FALSE]
      BY <2>2, <2>5, <3>1
    <3>3. PricedOwn(n)
      BY <3>1, <3>2 DEF PricedOwn
    <3> QED BY <1>1, <2>3, <3>3 DEF PricingKept
  <2> QED BY <2>4, <2>5
<1> QED BY <1>1, <1>2, <1>3 DEF PricingKept

LEMMA HostsMove ==
  ASSUME SameHosts(world', world) \/ world' = world
  PROVE  HostsFollow
BY DEF HostsFollow, SameHosts, settings

LEMMA WorldMoves ==
  ASSUME IngestInv, scenario' = scenario, attempts' = attempts, bus' = bus, run' = run, TroublesKept,
         Good(world', {}), HostsFollow, PositionsKept, PricingKept
  PROVE  IngestInv'
<1>1. Grown
  BY BusKept
<1>2. run' \in ChildType /\ run'.n = run.n
  BY DEF IngestInv, AttemptsBounded
<1> QED BY <1>1, <1>2, SameAttempts

\* The host and the child.
LEMMA ChildMoves ==
  ASSUME IngestInv,
         (\E kind \in StepKinds : Step(kind)) \/ EndRun \/ Delete
  PROVE  IngestInv'
<1>1. run \in ChildType /\ Good(world, {})
  BY DEF IngestInv, AttemptsBounded
<1>2. Grown
  BY BusKept DEF Step, EndRun, Delete, StepKinds, EventKinds
<1>3. TroublesKept
  BY TroublesMove DEF Step, EndRun, Delete
<1>4. run' \in ChildType /\ run'.n = run.n
  <2>1. PICK s, l, d, g : run' = [n |-> run.n, live |-> l, steps |-> s, due |-> d, gone |-> g]
                          /\ s \in Nat /\ l \in BOOLEAN /\ g \in BOOLEAN
                          /\ d \in [Registrations -> Stages]
    <3>1. CASE \E kind \in StepKinds : Step(kind)
      <4>1. run' = [run EXCEPT !.steps = run.steps + 1]
        BY <3>1 DEF Step
      <4>2. run' = [n |-> run.n, live |-> run.live, steps |-> run.steps + 1, due |-> run.due,
                    gone |-> run.gone]
        BY <1>1, <4>1 DEF ChildType
      <4>3. run.steps + 1 \in Nat /\ run.live \in BOOLEAN /\ run.gone \in BOOLEAN
            /\ run.due \in [Registrations -> Stages]
        BY <1>1 DEF ChildType
      <4>4. PICK s, l, d, g : s = run.steps + 1 /\ l = run.live /\ d = run.due /\ g = run.gone
        OBVIOUS
      <4>5. run' = [n |-> run.n, live |-> l, steps |-> s, due |-> d, gone |-> g]
        BY <4>2, <4>4
      <4>6. s \in Nat /\ l \in BOOLEAN /\ g \in BOOLEAN /\ d \in [Registrations -> Stages]
        BY <4>3, <4>4
      <4> QED BY <4>5, <4>6, Zenon
    <3>2. CASE EndRun
      <4>1. run' = [run EXCEPT !.live = FALSE, !.due[run.n] = "return"]
        BY <3>2 DEF EndRun
      <4>2. PICK f \in BOOLEAN : f = FALSE
        OBVIOUS
      <4>3. PICK d : d = [run.due EXCEPT ![run.n] = "return"]
        OBVIOUS
      <4>4. run' = [n |-> run.n, live |-> f, steps |-> run.steps, due |-> d, gone |-> run.gone]
        BY <1>1, <4>1, <4>2, <4>3 DEF ChildType
      <4>5. d \in [Registrations -> Stages]
        BY <1>1, <4>3 DEF ChildType, Stages
      <4> QED BY <1>1, <4>2, <4>4, <4>5 DEF ChildType
    <3>3. CASE Delete
      <4>1. run' = [run EXCEPT !.gone = TRUE]
        BY <3>3 DEF Delete
      <4>2. PICK f \in BOOLEAN : f = TRUE
        OBVIOUS
      <4>3. run' = [n |-> run.n, live |-> run.live, steps |-> run.steps, due |-> run.due, gone |-> f]
        BY <1>1, <4>1, <4>2 DEF ChildType
      <4> QED BY <1>1, <4>2, <4>3 DEF ChildType
    <3> QED BY <3>1, <3>2, <3>3
  <2> QED BY <1>1, <2>1 DEF ChildType
<1>5. scenario' = scenario /\ attempts' = attempts /\ world' = world /\ pos' = pos /\ handling' = handling
  BY DEF Step, EndRun, Delete
<1>6. HostsFollow /\ PositionsKept /\ PricingKept
  BY <1>5, HostsMove, PositionsMove, PricingMoves
<1> QED BY <1>1, <1>2, <1>3, <1>4, <1>5, <1>6, SameAttempts

\* Half an hour without a step marks what is held and what is open.
LEMMA IdleSound ==
  ASSUME NEW w, Good(w, {}), NEW s \in Slot \union {Nil}, NEW H, H = {[h EXCEPT !.idle = TRUE] : h \in w.held},
         NEW I, \A d \in Dirs : I[d] \in SUBSET Registrations,
         NEW S, S = [d \in Dirs |-> [w.store[d] EXCEPT !.idle = I[d]]],
         s # Nil => w.slot # Nil /\ s.attempt = w.slot.attempt /\ s.outcomes = w.slot.outcomes,
         NEW v, v = [w EXCEPT !.slot = s, !.held = H, !.store = S]
  PROVE  Good(v, {}) /\ Tidies(v, w)
<1>1. WorldType(w) /\ w.held \subseteq HeldStep
  BY DEF Good, WorldType
<1>2. ASSUME NEW g \in H
      PROVE  g \in HeldStep /\ \E h \in w.held : g = [dir |-> h.dir, attempt |-> h.attempt, step |-> h.step, idle |-> TRUE]
  <2>1. PICK h \in w.held : g = [h EXCEPT !.idle = TRUE]
    OBVIOUS
  <2>2. h \in HeldStep
    BY <1>1
  <2>3. g = [dir |-> h.dir, attempt |-> h.attempt, step |-> h.step, idle |-> TRUE]
    BY <2>1, <2>2 DEF HeldStep
  <2> QED BY <2>2, <2>3 DEF HeldStep
<1>3. ASSUME NEW d \in Dirs
      PROVE  /\ S[d] \in StoreType /\ SameSteps(S[d], w.store[d]) /\ S[d].rows = w.store[d].rows
             /\ S[d].counts = w.store[d].counts /\ S[d].scored = w.store[d].scored
             /\ S[d].signals = w.store[d].signals
  <2>1. w.store[d] \in StoreType
    BY <1>1 DEF WorldType
  <2>2. PICK i \in SUBSET Registrations : i = I[d]
    OBVIOUS
  <2>3. S[d] = [w.store[d] EXCEPT !.idle = i]
    BY <2>2
  <2>4. S[d] = [open |-> w.store[d].open, idle |-> i, closed |-> w.store[d].closed,
                scored |-> w.store[d].scored, renewed |-> w.store[d].renewed, folded |-> w.store[d].folded,
                counts |-> w.store[d].counts, rows |-> w.store[d].rows, signals |-> w.store[d].signals]
    BY <2>1, <2>3 DEF StoreType
  <2>5. S[d] \in StoreType
    BY <2>1, <2>2, <2>4 DEF StoreType
  <2> QED BY <2>4, <2>5 DEF SameSteps
<1>4. S \in [Dirs -> StoreType] /\ H \subseteq HeldStep
  BY <1>2, <1>3
<1>5. /\ WorldType(v) /\ v.slot = s /\ v.held = H /\ v.store = S
      /\ v.inst = w.inst /\ v.seen = w.seen /\ v.scored = w.scored /\ v.signalled = w.signalled
      /\ v.last = w.last
  BY <1>1, <1>4 DEF WorldType
<1>6. BooksSound(v)
  <2>1. \A d \in Dirs : /\ v.store[d].rows = w.store[d].rows /\ v.store[d].counts = w.store[d].counts
                        /\ v.store[d].scored = w.store[d].scored /\ v.store[d].signals = w.store[d].signals
                        /\ v.store[d].renewed = w.store[d].renewed
    BY <1>3, <1>5 DEF SameSteps
  <2>2. BooksAgree(w) /\ SignalsAreOne(w)
    BY DEF Good, BooksSound
  <2>3. v.scored = w.scored /\ w.signalled \subseteq v.signalled
    BY <1>5
  <2> QED BY <2>1, <2>2, <2>3, BooksSame
<1>7. ASSUME NEW d \in Dirs
      PROVE  /\ FoldsSound(S[d]) /\ OpensSound(S[d]) /\ HeldSound(H, d, S[d]) /\ SeenSound(v, d, {})
  <2>1. /\ FoldsSound(w.store[d]) /\ OpensSound(w.store[d])
        /\ HeldSound(w.held, d, w.store[d]) /\ SeenSound(w, d, {})
    BY InStore
  <2>2. SameSteps(S[d], w.store[d])
    BY <1>3
  <2>3. /\ FoldsSound(S[d]) /\ OpensSound(S[d])
        /\ FoldedSteps(S[d]) = FoldedSteps(w.store[d]) /\ OpenSteps(S[d]) = OpenSteps(w.store[d])
    BY <2>1, <2>2, SameStepsSound
  <2>4. HeldSound(H, d, S[d])
    <3> SUFFICES ASSUME NEW g \in H, g.dir = d
                 PROVE  /\ g.step \notin FoldedSteps(S[d]) \union OpenSteps(S[d])
                        /\ Own(g.attempt, g.step)
                        /\ \A o \in H : o.dir = d /\ (o.step = g.step \/ o.attempt = g.attempt) => o = g
      BY DEF HeldSound
    <3>1. PICK h \in w.held : g = [dir |-> h.dir, attempt |-> h.attempt, step |-> h.step, idle |-> TRUE]
      BY <1>2
    <3>2. h.dir = d /\ g.step = h.step /\ g.attempt = h.attempt
      BY <3>1
    <3>3. g.step \notin FoldedSteps(S[d]) \union OpenSteps(S[d]) /\ Own(g.attempt, g.step)
      BY <2>1, <2>3, <3>2 DEF HeldSound
    <3>4. ASSUME NEW o \in H, o.dir = d, o.step = g.step \/ o.attempt = g.attempt
          PROVE  o = g
      <4>1. PICK x \in w.held : o = [dir |-> x.dir, attempt |-> x.attempt, step |-> x.step, idle |-> TRUE]
        BY <1>2
      <4>2. x.dir = d /\ (x.step = h.step \/ x.attempt = h.attempt)
        BY <3>2, <3>4, <4>1
      <4>3. x = h
        BY <2>1, <3>2, <4>2 DEF HeldSound
      <4> QED BY <3>1, <4>1, <4>3
    <3> QED BY <3>3, <3>4
  <2>5. ASSUME NEW g \in H, g.dir = d
        PROVE  \E h \in w.held : h.dir = d /\ h.step = g.step
    BY <1>2, <2>5
  <2>6. SeenSound(v, d, {})
    BY <1>5, <2>1, <2>3, <2>5 DEF SeenSound
  <2> QED BY <2>3, <2>4, <2>6
<1>8. Tidies(v, w)
  <2>1. SameHosts(v, w)
    <3>1. \A j \in Instances : /\ settings(v, j) = settings(w, j)
                               /\ v.inst[j].disposed = w.inst[j].disposed
                               /\ Steady(w, j) => Steady(v, j)
      <4>1. v.inst = w.inst
        BY <1>5
      <4> QED BY <4>1 DEF settings, Steady
    <3> QED BY <1>5, <3>1 DEF SameHosts
  <2>2. ASSUME NEW d \in Dirs, NEW a \in Registrations, LeftIn(v, d, a)
        PROVE  LeftIn(w, d, a)
    <3>1. CASE HeldFor(v, d, a) # {}
      <4>1. PICK g \in H : g.dir = d /\ g.attempt = a
        BY <1>5, <3>1 DEF HeldFor
      <4>2. PICK h \in w.held : g = [dir |-> h.dir, attempt |-> h.attempt, step |-> h.step, idle |-> TRUE]
        BY <1>2
      <4>3. h.dir = d /\ h.attempt = a
        BY <4>1, <4>2
      <4> QED BY <4>3 DEF LeftIn, HeldFor
    <3>2. CASE v.store[d].open[a] # <<>>
      BY <1>3, <1>5, <3>2 DEF LeftIn, SameSteps
    <3> QED BY <2>2, <3>1, <3>2 DEF LeftIn
  <2>3. \A d \in Dirs, a \in Registrations : Lasts(v, w, d, a)
    BY <1>5, <2>2 DEF Lasts
  <2> QED BY <1>5, <2>1, <2>3 DEF Tidies
<1> QED BY <1>5, <1>6, <1>7, <1>8 DEF Good, StepsSound

LEMMA SilenceSound ==
  ASSUME IngestInv, NEW long \in BOOLEAN, Silence(long)
  PROVE  Good(world', {}) /\ Tidies(world', world)
<1>1. run \in ChildType /\ Good(world, {}) /\ WorldType(world)
  BY DEF IngestInv, AttemptsBounded, Good
<1>2. PICK s : s = IF world.slot = Nil \/ ~long THEN world.slot ELSE [world.slot EXCEPT !.idle = TRUE]
  OBVIOUS
<1>3. /\ s \in Slot \union {Nil}
      /\ s # Nil => /\ world.slot # Nil /\ s.attempt = world.slot.attempt
                    /\ s.outcomes = world.slot.outcomes
  <2>1. world.slot \in Slot \union {Nil}
    BY <1>1 DEF WorldType
  <2>2. CASE world.slot = Nil \/ ~long
    BY <1>2, <2>1, <2>2
  <2>3. CASE world.slot # Nil /\ long
    <3>1. PICK q : q = world.slot
      OBVIOUS
    <3>2. q \in Slot /\ s = [q EXCEPT !.idle = TRUE]
      BY <1>2, <2>1, <2>3, <3>1
    <3>3. s = [attempt |-> q.attempt, outcomes |-> q.outcomes, run |-> q.run, idle |-> TRUE,
               from |-> q.from, noted |-> q.noted, ended |-> q.ended]
      BY <3>2 DEF Slot
    <3> QED BY <2>3, <3>1, <3>2, <3>3 DEF Slot
  <2> QED BY <2>2, <2>3
<1>4. PICK I : I = [d \in Dirs |-> {a \in Registrations : world.store[d].open[a] # <<>>}]
  OBVIOUS
<1>5. PICK S : S = [d \in Dirs |-> [world.store[d] EXCEPT !.idle = I[d]]]
  OBVIOUS
<1>6. PICK H : H = {[h EXCEPT !.idle = TRUE] : h \in world.held}
  OBVIOUS
<1>7. S = [d \in Dirs |-> [world.store[d] EXCEPT
                        !.idle = {a \in Registrations : world.store[d].open[a] # <<>>}]]
  BY <1>4, <1>5
<1>8. world' = [world EXCEPT !.slot = s, !.held = H, !.store = S]
  BY <1>2, <1>6, <1>7 DEF Silence
<1>9. \A d \in Dirs : I[d] \in SUBSET Registrations
  BY <1>4
<1>10. PICK v : v = world'
  OBVIOUS
<1>11. Good(v, {}) /\ Tidies(v, world)
  BY <1>1, <1>3, <1>5, <1>6, <1>8, <1>9, <1>10, IdleSound
<1> QED BY <1>10, <1>11

LEMMA SilenceMoves ==
  ASSUME IngestInv, NEW long \in BOOLEAN, Silence(long)
  PROVE  IngestInv'
<1>1. run \in ChildType /\ Good(world', {}) /\ HostsFollow
  BY SilenceSound, HostsMove DEF Tidies, IngestInv, AttemptsBounded
<1>2. Grown /\ TroublesKept
  BY BusKept, TroublesMove DEF Silence, EventKinds
<1>3. scenario' = scenario /\ attempts' = attempts /\ run' = run /\ pos' = pos /\ handling' = handling
  BY DEF Silence
<1>4. PositionsKept /\ PricingKept
  BY <1>3, PositionsMove, PricingMoves
<1> QED BY <1>1, <1>2, <1>3, <1>4, SameAttempts

LEMMA UntakenIs == IngestInv => Untaken \in SUBSET Nat
BY DEF Untaken, IngestInv, StepsOnTheirWay

LEMMA AttemptAdded ==
  ASSUME IngestInv, scenario' = scenario, bus' = bus, pos' = pos, handling' = handling, TroublesKept,
         NEW r \in Nat, 1 <= r, r <= scenario.runs, Len(attempts) + 1 <= r + troubles',
         NEW A \in Seq(AttemptType), Len(A) = Len(attempts),
         \A a \in DOMAIN attempts : A[a].runs = attempts[a].runs /\ A[a].late = attempts[a].late,
         NEW c \in BOOLEAN, attempts' = NewAttempt(A, r, c), run' \in ChildType, run'.n = r,
         Good(world', {}), Registered(world', world, Len(attempts) + 1)
  PROVE  IngestInv'
<1>1. AttemptsBounded /\ StepsOnTheirWay
  BY DEF IngestInv
<1>2. PICK l, x : l = Untaken /\ x = [runs |-> {r}, clean |-> c, late |-> l]
  OBVIOUS
<1>3. x \in AttemptType /\ x.runs = {r} /\ x.late = l /\ attempts' = Append(A, x)
  <2>1. l \in SUBSET Nat
    BY <1>2, UntakenIs
  <2>2. attempts' = Append(A, x)
    BY <1>2 DEF NewAttempt
  <2> QED BY <1>2, <2>1, <2>2 DEF AttemptType
<1>4. attempts \in Seq(AttemptType) /\ Len(attempts) \in Nat /\ DOMAIN attempts = 1..Len(attempts)
  BY <1>1 DEF AttemptsBounded
<1>5. /\ attempts' \in Seq(AttemptType) /\ Len(attempts') = Len(attempts) + 1
      /\ DOMAIN attempts' = 1..(Len(attempts) + 1) /\ attempts'[Len(attempts) + 1] = x
      /\ \A a \in DOMAIN attempts : attempts'[a] = A[a]
  BY <1>3, <1>4
<1>6. ASSUME NEW a, NEW e, Own(a, e)
      PROVE  Own(a, e)'
  BY <1>4, <1>5, <1>6 DEF Own
<1>7. Good(world, {})'
  BY <1>6, GoodHolds
<1>8. attempts' # <<>>
  BY <1>4, <1>5
<1>9. AttemptsBounded'
  BY <1>1, <1>3, <1>5, <1>8 DEF AttemptsBounded, TroublesKept
<1>10. ASSUME NEW i \in Instances
       PROVE  PendingOwn(i)'
  <2> SUFFICES ASSUME ~world'.inst[i].disposed, settings(world', i) # Off,
                      NEW e \in DOMAIN bus, bus[e].kind \in StepKinds, e > pos[i]
               PROVE  Own(Len(attempts), e)'
    BY DEF PendingOwn, settings
  <2>1. ~world.inst[i].disposed /\ settings(world, i) # Off
    BY DEF Registered
  <2>2. e \in l
    BY <1>2, <2>1 DEF Untaken, Alive
  <2>3. Len(attempts) + 1 \in DOMAIN attempts' /\ Len(attempts') = Len(attempts) + 1
    BY <1>4, <1>5
  <2>4. e \in attempts'[Len(attempts')].late
    BY <1>3, <1>5, <2>2
  <2> QED BY <2>3, <2>4 DEF Own
<1>11. ASSUME NEW i \in Instances
       PROVE  PricedOwn(handling[i])'
  <2>1. PricedOwn(handling[i])
    BY <1>1 DEF StepsOnTheirWay
  <2> QED BY <1>6, <2>1 DEF PricedOwn
<1>12. world'.slot.attempt = Len(attempts')
  BY <1>5 DEF Registered
<1>13. StepsOnTheirWay'
  BY <1>1, <1>8, <1>10, <1>11, <1>12 DEF StepsOnTheirWay
<1> QED BY <1>7, <1>9, <1>13 DEF IngestInv

\* What a registration starts from.
LEMMA Registering ==
  ASSUME IngestInv
  PROVE  /\ Good(world, {}) /\ run \in ChildType /\ run.n \in Nat /\ 1 <= run.n /\ run.n <= scenario.runs
         /\ scenario.runs \in Nat /\ scenario.troubles \in Nat /\ scenario.runs + scenario.troubles <= MaxRegistrations /\ MaxRegistrations \in Nat
         /\ attempts \in Seq(AttemptType) /\ Len(attempts) \in Nat /\ DOMAIN attempts = 1..Len(attempts)
         /\ Len(attempts) <= run.n + troubles /\ troubles \in Nat /\ troubles <= scenario.troubles
         /\ Len(bus) \in Nat /\ DOMAIN bus = 1..Len(bus) /\ bus \in Seq(Event)
         /\ \A i \in Instances : pos[i] \in Nat
<1>1. AttemptsBounded /\ StepsOnTheirWay /\ Good(world, {})
  BY DEF IngestInv
<1>2. scenario.runs \in Nat /\ scenario.troubles \in Nat /\ scenario.runs + scenario.troubles <= MaxRegistrations /\ MaxRegistrations \in Nat
  BY <1>1, IngestAssumption DEF AttemptsBounded
<1>3. run \in ChildType /\ run.n \in Nat /\ 1 <= run.n /\ run.n <= scenario.runs
  BY <1>1 DEF AttemptsBounded, ChildType
<1>4. /\ attempts \in Seq(AttemptType) /\ Len(attempts) \in Nat /\ DOMAIN attempts = 1..Len(attempts)
      /\ Len(attempts) <= run.n + troubles /\ troubles \in Nat /\ troubles <= scenario.troubles
  BY <1>1 DEF AttemptsBounded
<1>5. Len(bus) \in Nat /\ DOMAIN bus = 1..Len(bus) /\ bus \in Seq(Event)
  BY <1>1 DEF StepsOnTheirWay
<1>6. \A i \in Instances : pos[i] \in Nat
  BY <1>1 DEF StepsOnTheirWay
<1> QED BY <1>1, <1>2, <1>3, <1>4, <1>5, <1>6

LEMMA RegisterMoves ==
  ASSUME IngestInv, Register
  PROVE  IngestInv'
<1>1. StepsOnTheirWay /\ AttemptsBounded
  BY DEF IngestInv
<1>2. attempts = <<>> /\ Len(attempts) = 0 /\ run.n = 1
  BY <1>1 DEF Register, AttemptsBounded
<1>3. PICK c \in BOOLEAN : c = (run.steps = 0)
  OBVIOUS
<1>4. attempts' = NewAttempt(attempts, run.n, c)
  BY <1>3 DEF Register
<1>5. PICK f \in BOOLEAN : f = FALSE
  OBVIOUS
<1>6. world' = record(world, 1, run.n, f)
  BY <1>5 DEF Register
<1>7. 1 \in Registrations
  BY Registering DEF Registrations
<1>8. Good(world', {}) /\ Registered(world', world, 1)
  BY <1>6, <1>7, Registering, RecordSound
<1>10. /\ scenario' = scenario /\ bus' = bus /\ pos' = pos /\ handling' = handling /\ run' = run
       /\ troubles' = troubles
  BY DEF Register
<1>11. TroublesKept
  BY <1>10, TroublesMove
<1>12. Len(attempts) + 1 <= run.n + troubles' /\ Len(attempts) + 1 = 1
  BY <1>2, <1>10, Registering
<1>13. run' \in ChildType /\ run'.n = run.n
  BY <1>10, Registering
<1> QED BY <1>3, <1>4, <1>8, <1>10, <1>11, <1>12, <1>13, Registering, AttemptAdded

LEMMA CorrectMoves ==
  ASSUME IngestInv, Correct
  PROVE  IngestInv'
<1>1. StepsOnTheirWay /\ AttemptsBounded
  BY DEF IngestInv
<1>2. PICK n : n = Len(attempts)
  OBVIOUS
<1>3. /\ n \in DOMAIN attempts /\ n \in Nat /\ attempts[n].runs = {run.n} /\ attempts # <<>>
      /\ n <= run.n + troubles /\ troubles < scenario.troubles /\ troubles' = troubles + 1
  BY <1>2, Registering DEF Correct, Last, Disturbance
<1>4. PICK f \in BOOLEAN : f = FALSE
  OBVIOUS
<1>5. PICK A : A = [attempts EXCEPT ![n].clean = f]
  OBVIOUS
<1>6. /\ A \in Seq(AttemptType) /\ Len(A) = Len(attempts)
      /\ \A a \in DOMAIN attempts : A[a].runs = attempts[a].runs /\ A[a].late = attempts[a].late
  <2>1. attempts \in Seq(AttemptType) /\ attempts[n] \in AttemptType
    BY <1>3, Registering
  <2>2. PICK x : x = [runs |-> attempts[n].runs, clean |-> f, late |-> attempts[n].late]
    OBVIOUS
  <2>3. x \in AttemptType /\ x.runs = attempts[n].runs /\ x.late = attempts[n].late
    BY <1>4, <2>1, <2>2 DEF AttemptType
  <2>4. [attempts[n] EXCEPT !.clean = f] = x
    BY <2>1, <2>2 DEF AttemptType
  <2>5. A = [attempts EXCEPT ![n] = x]
    BY <1>5, <2>4
  <2>6. n \in 1..Len(attempts)
    BY <1>3, Registering
  <2>7. /\ A \in Seq(AttemptType) /\ Len(A) = Len(attempts)
        /\ \A a \in 1..Len(attempts) : A[a] = IF a = n THEN x ELSE attempts[a]
    BY <2>1, <2>3, <2>5, <2>6, ExceptSeq
  <2>8. DOMAIN attempts = 1..Len(attempts)
    BY Registering
  <2> QED BY <2>3, <2>7, <2>8
<1>7. attempts' = NewAttempt(A, run.n, f)
  BY <1>2, <1>4, <1>5 DEF Correct
<1>8. PICK g \in BOOLEAN : g = TRUE
  OBVIOUS
<1>9. world' = record(world, n + 1, run.n, g)
  BY <1>2, <1>8 DEF Correct
<1>10. n + 1 \in Registrations
  <2>1. /\ run.n \in Nat /\ run.n <= scenario.runs /\ scenario.runs \in Nat /\ scenario.troubles \in Nat
        /\ scenario.runs + scenario.troubles <= MaxRegistrations /\ MaxRegistrations \in Nat /\ troubles \in Nat
    BY Registering
  <2>2. n + 1 \in 1..MaxRegistrations
    BY <1>3, <2>1
  <2> QED BY <2>2 DEF Registrations
<1>11. Good(world', {}) /\ Registered(world', world, n + 1)
  BY <1>9, <1>10, Registering, RecordSound
<1>13. scenario' = scenario /\ bus' = bus /\ pos' = pos /\ handling' = handling /\ run' = run
  BY DEF Correct
<1>14. TroublesKept
  BY TroublesMove DEF Correct
<1>15. Len(attempts) + 1 <= run.n + troubles'
  BY <1>2, <1>3, Registering
<1>16. run' \in ChildType /\ run'.n = run.n
  BY <1>13, Registering
<1> QED BY <1>2, <1>4, <1>6, <1>7, <1>11, <1>13, <1>14, <1>15, <1>16, Registering, AttemptAdded

LEMMA NextRunIs ==
  ASSUME IngestInv, NEW r, r = run.n + 1, NEW q, q = NextRun
  PROVE  q \in ChildType /\ q.n = r
<1>1. run \in ChildType /\ run.n \in Nat
  BY Registering
<1>2. PICK l \in BOOLEAN : l = TRUE
  OBVIOUS
<1>3. q = [n |-> r, live |-> l, steps |-> 0, due |-> run.due, gone |-> run.gone]
  BY <1>1, <1>2 DEF NextRun, ChildType
<1>4. run.gone \in BOOLEAN /\ r \in Nat /\ run.due \in [Registrations -> Stages]
  BY <1>1 DEF ChildType
<1> QED BY <1>3, <1>4 DEF ChildType

LEMMA ResumeMoves ==
  ASSUME IngestInv, ResumeRegistered
  PROVE  IngestInv'
<1>1. PICK n, r : n = Len(attempts) /\ r = run.n + 1
  OBVIOUS
<1>2. /\ r \in Nat /\ 1 <= r /\ r <= scenario.runs /\ run.n \in Nat
      /\ run.n < scenario.runs /\ troubles' = troubles /\ attempts # <<>>
  BY <1>1, Registering DEF ResumeRegistered
<1>3. n + 1 <= r + troubles /\ n + 1 \in Registrations
  <2>1. /\ n \in Nat /\ n <= run.n + troubles /\ troubles \in Nat /\ troubles <= scenario.troubles
        /\ scenario.runs \in Nat /\ scenario.troubles \in Nat
        /\ scenario.runs + scenario.troubles <= MaxRegistrations /\ MaxRegistrations \in Nat
    BY <1>1, Registering
  <2>2. r = run.n + 1 /\ r <= scenario.runs
    BY <1>1, <1>2
  <2>3. n + 1 <= r + troubles
    BY <2>1, <2>2, <1>2
  <2>4. r + troubles <= scenario.runs + scenario.troubles
    BY <2>1, <2>2, <1>2
  <2>5. n + 1 <= MaxRegistrations
    BY <2>1, <2>3, <2>4, <1>2
  <2> QED BY <2>1, <2>3, <2>5 DEF Registrations
<1>4. PICK c \in BOOLEAN : c = TRUE
  OBVIOUS
<1>5. PICK f \in BOOLEAN : f = FALSE
  OBVIOUS
<1>6. attempts' = NewAttempt(attempts, r, c)
  BY <1>1, <1>4 DEF ResumeRegistered
<1>7. world' = record(world, n + 1, r, f)
  BY <1>1, <1>5 DEF ResumeRegistered
<1>8. Good(world', {}) /\ Registered(world', world, n + 1)
  BY <1>2, <1>3, <1>7, Registering, RecordSound
<1>10. scenario' = scenario /\ bus' = bus /\ pos' = pos /\ handling' = handling /\ run' = NextRun
  BY DEF ResumeRegistered
<1>11. TroublesKept
  BY <1>2, TroublesMove
<1>12. run' \in ChildType /\ run'.n = r
  BY <1>1, <1>10, NextRunIs
<1> QED BY <1>1, <1>2, <1>3, <1>4, <1>6, <1>8, <1>10, <1>11, <1>12, Registering, AttemptAdded

LEMMA ContinueMoves ==
  ASSUME IngestInv, ResumeUnregistered
  PROVE  IngestInv'
<1>1. StepsOnTheirWay /\ AttemptsBounded
  BY DEF IngestInv
<1>2. PICK n, r : n = Len(attempts) /\ r = run.n + 1
  OBVIOUS
<1>3. /\ r \in Nat /\ 1 <= r /\ r <= scenario.runs /\ n \in 1..Len(attempts) /\ n \in Nat
      /\ attempts[n] \in AttemptType /\ run.n \in Nat
  BY <1>2, Registering DEF ResumeUnregistered
<1>4. PICK f \in BOOLEAN : f = FALSE
  OBVIOUS
<1>5. PICK x : x = [attempts[n] EXCEPT !.runs = attempts[n].runs \union {r}, !.clean = f]
  OBVIOUS
<1>6. /\ x \in AttemptType /\ attempts[n].runs \subseteq x.runs /\ r \in x.runs
      /\ x.late = attempts[n].late
  <2>1. x = [runs |-> attempts[n].runs \union {r}, clean |-> f, late |-> attempts[n].late]
    BY <1>3, <1>5 DEF AttemptType
  <2> QED BY <1>3, <1>4, <2>1 DEF AttemptType
<1>7. attempts' = [attempts EXCEPT ![n] = x]
  <2>1. PICK now : now = [runs |-> attempts[n].runs \union {r}, clean |-> f, late |-> attempts[n].late]
    OBVIOUS
  <2>2. attempts' = [attempts EXCEPT ![n] = now]
    BY <1>2, <1>4, <2>1 DEF ResumeUnregistered
  <2>3. now = x
    BY <1>3, <1>5, <2>1 DEF AttemptType
  <2> QED BY <2>2, <2>3
<1>8. /\ attempts' \in Seq(AttemptType) /\ Len(attempts') = Len(attempts)
      /\ \A a \in 1..Len(attempts) : attempts'[a] = IF a = n THEN x ELSE attempts[a]
  BY <1>3, <1>6, <1>7, Registering, ExceptSeq
<1>9. DOMAIN attempts = 1..Len(attempts) /\ DOMAIN attempts' = 1..Len(attempts)
  BY <1>7, Registering
<1>10. bus' = bus /\ scenario' = scenario /\ pos' = pos /\ handling' = handling /\ world' = world
       /\ troubles' = troubles /\ run' = NextRun
  BY DEF ResumeUnregistered
<1>11. ASSUME NEW a, NEW e, Own(a, e)
       PROVE  Own(a, e)'
  BY <1>6, <1>8, <1>9, <1>10, <1>11 DEF Own
<1>12. Good(world', {})
  BY <1>10, Registering
<1>13. Good(world, {})'
  BY <1>11, <1>12, GoodHolds
<1>14. run' \in ChildType /\ run'.n = r
  BY <1>2, <1>10, NextRunIs
<1>15. attempts' # <<>> /\ attempts # <<>>
  BY <1>3, <1>8
<1>16. AttemptsBounded'
  <2>1. r \in attempts'[Len(attempts')].runs
    BY <1>2, <1>3, <1>6, <1>8
  <2>2. Len(attempts') <= r + troubles
    BY <1>2, <1>3, <1>8, Registering
  <2> QED BY <1>1, <1>3, <1>8, <1>10, <1>14, <1>15, <2>1, <2>2 DEF AttemptsBounded
<1>17. ASSUME NEW i \in Instances
       PROVE  PendingOwn(i)'
  <2> SUFFICES ASSUME ~world.inst[i].disposed, settings(world, i) # Off,
                      NEW e \in DOMAIN bus, bus[e].kind \in StepKinds, e > pos[i]
               PROVE  Own(Len(attempts), e)'
    BY <1>10 DEF PendingOwn, settings
  <2>1. Own(n, e)
    BY <1>1, <1>2, <1>15 DEF StepsOnTheirWay, PendingOwn
  <2>2. Own(n, e)'
    BY <1>11, <2>1
  <2> QED BY <1>2, <1>8, <2>2
<1>18. ASSUME NEW i \in Instances
       PROVE  PricedOwn(handling[i])'
  <2>1. PricedOwn(handling[i])
    BY <1>1 DEF StepsOnTheirWay
  <2> QED BY <1>10, <1>11, <2>1 DEF PricedOwn
<1>19. StepsOnTheirWay'
  BY <1>1, <1>8, <1>10, <1>15, <1>17, <1>18 DEF StepsOnTheirWay
<1> QED BY <1>13, <1>16, <1>19 DEF IngestInv

\* The judgement changes what the child's tool call owes, and the world by what Owner does.
LEMMA JudgementMoves ==
  ASSUME IngestInv, NEW n \in Registrations, NEW due \in Stages, run' = [run EXCEPT !.due[n] = due],
         Good(world', {}), Tidies(world', world), scenario' = scenario, bus' = bus,
         attempts' = attempts, pos' = pos, handling' = handling, troubles' = troubles
  PROVE  IngestInv'
<1>1. run' \in ChildType /\ run'.n = run.n
  <2>1. run \in ChildType
    BY Registering
  <2>2. PICK d : d = [run.due EXCEPT ![n] = due]
    OBVIOUS
  <2>3. run' = [n |-> run.n, live |-> run.live, steps |-> run.steps, due |-> d, gone |-> run.gone]
    BY <2>1, <2>2 DEF ChildType
  <2>4. d \in [Registrations -> Stages]
    BY <2>1, <2>2 DEF ChildType
  <2> QED BY <2>1, <2>3, <2>4 DEF ChildType
<1>2. HostsFollow
  BY HostsMove DEF Tidies
<1> QED BY <1>1, <1>2, BusKept, TroublesMove, PositionsMove, PricingMoves, SameAttempts

Judges(n) ==
  \/ Refuse(n)
  \/ \E outcome \in {"pass", "fail", "unverifiable"}, g \in scenario.graders : Judge(n, outcome, g)
  \/ \E kind \in ReturnSignals \union {"run"} : Signal(n, kind)

LEMMA JudgesMove ==
  ASSUME IngestInv, NEW n \in Registrations, Judges(n)
  PROVE  IngestInv' /\ Tidies(world', world)
<1>1. Owner \in Instances /\ Good(world, {})
  BY IngestAssumption, Registering
<1>2. CASE Refuse(n)
  <2>1. Judging(n, "verdict", onFalseRefusal(world, Owner))
    BY <1>2 DEF Refuse
  <2>2. world' = onFalseRefusal(world, Owner)
    BY <2>1 DEF Judging
  <2>3. Good(world', {}) /\ Tidies(world', world)
    BY <1>1, <2>2, OnRefusalSound
  <2>4. /\ run' = [run EXCEPT !.due[n] = "verdict"] /\ scenario' = scenario /\ bus' = bus
        /\ attempts' = attempts /\ pos' = pos /\ handling' = handling /\ troubles' = troubles
    BY <2>1 DEF Judging
  <2>5. "verdict" \in Stages
    BY DEF Stages
  <2> QED BY <2>3, <2>4, <2>5, JudgementMoves
<1>3. CASE \E outcome \in {"pass", "fail", "unverifiable"}, g \in scenario.graders : Judge(n, outcome, g)
  <2>1. PICK outcome \in {"pass", "fail", "unverifiable"}, g \in scenario.graders : Judge(n, outcome, g)
    BY <1>3
  <2>2. Judging(n, "no", onVerdict(world, Owner, outcome, g))
    BY <2>1 DEF Judge
  <2>3. world' = onVerdict(world, Owner, outcome, g)
    BY <2>2 DEF Judging
  <2>4. Good(world', {}) /\ Tidies(world', world)
    BY <1>1, <2>3, OnVerdictSound
  <2>5. /\ run' = [run EXCEPT !.due[n] = "no"] /\ scenario' = scenario /\ bus' = bus
        /\ attempts' = attempts /\ pos' = pos /\ handling' = handling /\ troubles' = troubles
    BY <2>2 DEF Judging
  <2>6. "no" \in Stages
    BY DEF Stages
  <2> QED BY <2>4, <2>5, <2>6, JudgementMoves
<1>4. CASE \E kind \in ReturnSignals \union {"run"} : Signal(n, kind)
  <2>1. PICK kind \in ReturnSignals \union {"run"} : Signal(n, kind)
    BY <1>4
  <2>2. kind \in SignalKinds
    BY <2>1 DEF ReturnSignals, returnSignal, SignalKinds
  <2>3. PICK next : next = IF kind = "run" THEN "refusal" ELSE "run"
    OBVIOUS
  <2>4. Judging(n, next, onSignal(world, Owner, kind))
    BY <2>1, <2>3 DEF Signal
  <2>5. world' = onSignal(world, Owner, kind)
    BY <2>4 DEF Judging
  <2>6. Good(world', {}) /\ Tidies(world', world)
    BY <1>1, <2>2, <2>5, OnSignalSound
  <2>7. /\ run' = [run EXCEPT !.due[n] = next] /\ scenario' = scenario /\ bus' = bus
        /\ attempts' = attempts /\ pos' = pos /\ handling' = handling /\ troubles' = troubles
    BY <2>4 DEF Judging
  <2>8. next \in Stages
    BY <2>3 DEF Stages
  <2> QED BY <2>6, <2>7, <2>8, JudgementMoves
<1> QED BY <1>2, <1>3, <1>4 DEF Judges

LEMMA JudgesIs ==
  ASSUME NEW n \in Registrations, Judges(n)
  PROVE  \E due : Judging(n, due, world')
<1>1. CASE Refuse(n)
  BY <1>1 DEF Refuse, Judging
<1>2. CASE \E outcome \in {"pass", "fail", "unverifiable"}, g \in scenario.graders : Judge(n, outcome, g)
  BY <1>2 DEF Judge, Judging
<1>3. CASE \E kind \in ReturnSignals \union {"run"} : Signal(n, kind)
  BY <1>3 DEF Signal, Judging
<1> QED BY <1>1, <1>2, <1>3 DEF Judges

\* A taken step is noted, and waits with the attempt that is looked up.
LEMMA TakeStepMoves ==
  ASSUME IngestInv, NEW i \in Instances, TakeStep(i)
  PROVE  IngestInv'
<1>1. StepsOnTheirWay /\ AttemptsBounded /\ Good(world, {})
  BY DEF IngestInv
<1>2. PICK e : e = pos[i] + 1
  OBVIOUS
<1>3. e \in DOMAIN bus /\ e > pos[i] /\ e \in Nat
  BY <1>2, Registering DEF TakeStep, Pending
<1>4. PICK c : c = Looked(catalog[i])
  OBVIOUS
<1>5. PICK w : w = IF bus[e].kind = "failed" THEN world ELSE noteStepContext(world, e)
  OBVIOUS
<1>6. /\ bus[e].kind \in StepKinds /\ world' = w /\ pos' = [pos EXCEPT ![i] = pos[i] + 1]
      /\ IF targetOf(w, i)
         THEN handling' = [handling EXCEPT ![i] =
                 [step |-> e, attempt |-> w.slot.attempt, wait |-> Waits(c)]]
         ELSE handling' = handling
      /\ ~world.inst[i].disposed
  BY <1>2, <1>4, <1>5 DEF TakeStep, Pending
<1>7. Good(w, {}) /\ Tidies(w, world)
  <2>1. CASE bus[e].kind = "failed"
    BY <1>1, <1>5, <2>1, TidiesItself
  <2>2. CASE bus[e].kind # "failed"
    <3>1. w = noteStepContext(world, e)
      BY <1>5, <2>2
    <3> QED BY <1>1, <1>3, <3>1, NotedSound
  <2> QED BY <2>1, <2>2
<1>8. PricingKept
  <2>1. CASE ~targetOf(w, i)
    BY <1>6, <2>1, PricingMoves
  <2>2. CASE targetOf(w, i)
    <3>1. settings(world, i) # Off /\ world.slot # Nil /\ w.slot # Nil /\ w.slot.attempt = Len(attempts)
      BY <1>1, <1>7, <2>2 DEF targetOf, Tidies, SameHosts, StepsOnTheirWay
    <3>2. w.slot.attempt \in Registrations
      BY <1>7, <3>1, HostTypes DEF Slot
    <3>3. attempts # <<>>
      <4>1. Len(attempts) \in 1..MaxRegistrations
        BY <3>1, <3>2 DEF Registrations
      <4>2. Len(attempts) # 0
        BY <4>1
      <4> QED BY <4>2
    <3>4. PendingOwn(i)
      BY <1>1 DEF StepsOnTheirWay
    <3>5. Own(w.slot.attempt, e)
      BY <1>3, <1>6, <3>1, <3>3, <3>4 DEF PendingOwn
    <3>6. PICK h : h = [step |-> e, attempt |-> w.slot.attempt, wait |-> Waits(c)]
      OBVIOUS
    <3>7. PricedOwn(h)
      BY <1>3, <3>2, <3>5, <3>6 DEF PricedOwn
    <3>8. handling' = [handling EXCEPT ![i] = h]
      BY <1>6, <2>2, <3>6
    <3> QED BY <1>1, <3>7, <3>8 DEF PricingKept, StepsOnTheirWay
  <2> QED BY <2>1, <2>2
<1>9. HostsFollow
  BY <1>6, <1>7, HostsMove DEF Tidies
<1>10. PositionsKept
  BY <1>6, PositionsMove
<1>11. scenario' = scenario /\ bus' = bus /\ run' = run /\ attempts' = attempts /\ troubles' = troubles
  BY DEF TakeStep
<1>12. TroublesKept
  BY <1>11, TroublesMove
<1> QED BY <1>6, <1>7, <1>8, <1>9, <1>10, <1>11, <1>12, WorldMoves

LEMMA PricedMoves ==
  ASSUME IngestInv, NEW i \in Instances, Priced(i)
  PROVE  IngestInv'
<1>1. Good(world, {}) /\ StepsOnTheirWay
  BY DEF IngestInv
<1>2. PICK h : h = handling[i]
  OBVIOUS
<1>3. h # Nil
  BY <1>2 DEF Priced
<1>4. PICK a, e : a = h.attempt /\ e = h.step
  OBVIOUS
<1>5. a \in Registrations /\ e \in Nat /\ Own(a, e)
  BY <1>1, <1>2, <1>3, <1>4 DEF StepsOnTheirWay, PricedOwn
<1>6. PICK kind : kind = bus[e].kind
  OBVIOUS
<1>7. world' = onStepPriced(world, i, settings(world, i), a, e, kind)
  BY <1>2, <1>4, <1>6 DEF Priced
<1>8. Good(world', {}) /\ (SameHosts(world', world) \/ world' = world)
  <2>1. PICK v : v = world'
    OBVIOUS
  <2>2. v = onStepPriced(world, i, settings(world, i), a, e, kind)
    BY <1>7, <2>1
  <2>3. /\ Good(v, {})
        /\ \/ Delivers(v, world, i, settings(world, i), a, e)
           \/ v = world /\ (StepDue(world, i, a) => <<settings(world, i), "step", e>> \in world.seen)
    BY <1>1, <1>5, <2>2, PricedSound
  <2> QED BY <2>1, <2>3 DEF Delivers
<1>9. /\ handling' = [handling EXCEPT ![i] = Nil] /\ scenario' = scenario /\ bus' = bus
      /\ run' = run /\ attempts' = attempts /\ troubles' = troubles /\ pos' = pos
  BY DEF Priced
<1>10. HostsFollow /\ PositionsKept /\ PricingKept /\ TroublesKept
  BY <1>8, <1>9, HostsMove, PositionsMove, PricingMoves, TroublesMove
<1> QED BY <1>8, <1>9, <1>10, WorldMoves

LEMMA TakesMove ==
  ASSUME IngestInv, NEW i \in Instances, TakeFlush(i) \/ TakeGone(i)
  PROVE  IngestInv'
<1>1. Good(world, {})
  BY DEF IngestInv
<1>2. PICK e : e = pos[i] + 1
  OBVIOUS
<1>3. e \in Nat
  BY <1>2, Registering
<1>4. Good(world', {}) /\ SameHosts(world', world)
  <2>0. ~world.inst[i].disposed
    BY DEF TakeFlush, TakeGone, Pending
  <2>1. CASE TakeFlush(i)
    <3>1. PICK u : u = IF bus[e].kind = "end" THEN onExecutionEnded(world, i, e) ELSE world
      OBVIOUS
    <3>2. world' = sweep(u, i)
      BY <1>2, <2>1, <3>1 DEF TakeFlush
    <3>3. Good(u, {}) /\ SameHosts(u, world)
      <4>1. CASE bus[e].kind = "end"
        <5>1. u = onExecutionEnded(world, i, e)
          BY <3>1, <4>1
        <5>2. Good(u, {}) /\ (u = world \/ SameHosts(u, world))
          BY <1>1, <1>3, <2>0, <5>1, EndedSound DEF Ends
        <5> QED BY <5>2 DEF SameHosts
      <4>2. CASE bus[e].kind # "end"
        BY <1>1, <3>1, <4>2 DEF SameHosts
      <4> QED BY <4>1, <4>2
    <3>4. ~u.inst[i].disposed
      BY <2>0, <3>3 DEF SameHosts
    <3>5. Good(world', {}) /\ Tidies(world', u)
      BY <3>2, <3>3, <3>4, SweepWorldSound
    <3> QED BY <3>3, <3>5, SameHostsAdds DEF Tidies
  <2>2. CASE TakeGone(i)
    <3>1. world' = onSessionGone(world, i)
      BY <2>2 DEF TakeGone
    <3> QED BY <1>1, <2>0, <3>1, GoneSound DEF Tidies
  <2> QED BY <2>1, <2>2
<1>5. /\ pos' = [pos EXCEPT ![i] = pos[i] + 1] /\ handling' = handling /\ scenario' = scenario
      /\ bus' = bus /\ run' = run /\ attempts' = attempts /\ troubles' = troubles
  BY DEF TakeFlush, TakeGone
<1>6. HostsFollow /\ PositionsKept /\ PricingKept /\ TroublesKept
  BY <1>4, <1>5, HostsMove, PositionsMove, PricingMoves, TroublesMove
<1> QED BY <1>4, <1>5, <1>6, WorldMoves

LEMMA ChatMoves ==
  ASSUME IngestInv, NEW i \in Instances, ChatMessage(i)
  PROVE  IngestInv' /\ Tidies(world', world)
<1>1. Good(world, {})
  BY DEF IngestInv
<1>2. PICK u : u = sweep(world, i)
  OBVIOUS
<1>3. Good(u, {}) /\ Tidies(u, world)
  BY <1>1, <1>2, SweepWorldSound DEF ChatMessage
<1>4. world' = recorderSweep(u, i)
  BY <1>2 DEF ChatMessage
<1>5. Good(world', {}) /\ Tidies(world', u)
  BY <1>3, <1>4, RecorderSwept
<1>6. Tidies(world', world)
  BY <1>3, <1>5, TidiesAdds
<1>7. /\ pos' = pos /\ handling' = handling /\ scenario' = scenario
      /\ bus' = bus /\ run' = run /\ attempts' = attempts
  BY DEF ChatMessage
<1>8. TroublesKept
  BY TroublesMove DEF ChatMessage
<1>9. HostsFollow /\ PositionsKept /\ PricingKept
  BY <1>6, <1>7, HostsMove, PositionsMove, PricingMoves DEF Tidies
<1> QED BY <1>5, <1>6, <1>7, <1>8, <1>9, WorldMoves

LEMMA CatalogMoves ==
  ASSUME IngestInv, NEW i \in Instances, LoadDone(i) \/ CatalogFails(i) \/ WaitTimesOut(i) \/ TimePasses(i)
  PROVE  IngestInv'
<1>1. Good(world, {})
  BY DEF IngestInv
<1>2. /\ pos' = pos /\ scenario' = scenario /\ bus' = bus /\ run' = run /\ attempts' = attempts
      /\ world' = world /\ (handling' = handling \/ handling' = Resolved(i))
  BY DEF LoadDone, CatalogFails, WaitTimesOut, TimePasses
<1>3. TroublesKept
  BY TroublesMove DEF LoadDone, CatalogFails, WaitTimesOut, TimePasses
<1>4. HostsFollow /\ PositionsKept /\ PricingKept
  BY <1>2, HostsMove, PositionsMove, PricingMoves
<1> QED BY <1>1, <1>2, <1>3, <1>4, WorldMoves

LEMMA SwitchMoves ==
  ASSUME IngestInv, NEW i \in Instances, NEW s \in Dirs \union {Off}, Switch(i, s)
  PROVE  IngestInv'
<1>1. Good(world, {}) /\ WorldType(world)
  BY DEF IngestInv, Good
<1>2. PICK o : o = world.inst[i]
  OBVIOUS
<1>3. o \in InstanceType
  BY <1>1, <1>2 DEF WorldType
<1>4. PICK n : n = [settings |-> s, holds |-> o.holds, recorder |-> o.recorder, owned |-> o.owned,
                    disposed |-> o.disposed]
  OBVIOUS
<1>5. n \in InstanceType /\ n = [o EXCEPT !.settings = s]
  BY <1>3, <1>4 DEF InstanceType
<1>6. world' = [world EXCEPT !.inst = [world.inst EXCEPT ![i] = n]]
  <2>1. world' = [world EXCEPT !.inst[i].settings = s]
    BY DEF Switch
  <2> QED BY <1>1, <1>2, <1>5, <2>1 DEF WorldType
<1>7. Good(world', {}) /\ HostPut(world', world, i, n)
  BY <1>1, <1>5, <1>6, HostPutSound
<1>8. TakenAll(i, StepKinds)
  BY DEF Switch
<1>9. HostsFollow
  BY <1>7, <1>8 DEF HostsFollow, HostPut, settings
<1>10. /\ pos' = pos /\ handling' = handling /\ scenario' = scenario
       /\ bus' = bus /\ run' = run /\ attempts' = attempts
  BY DEF Switch
<1>11. TroublesKept
  BY TroublesMove DEF Switch
<1>12. PositionsKept /\ PricingKept
  BY <1>10, PositionsMove, PricingMoves
<1> QED BY <1>7, <1>9, <1>10, <1>11, <1>12, WorldMoves

LEMMA DisposeMoves ==
  ASSUME IngestInv, NEW i \in Instances, Dispose(i)
  PROVE  IngestInv' /\ Disposed(world', world, i)
<1>1. Good(world, {})
  BY DEF IngestInv
<1>2. PICK u : u = [world EXCEPT !.inst[i].disposed = TRUE]
  OBVIOUS
<1>3. world' = Released([settleOwned(u, i) EXCEPT !.inst[i].holds = Nil, !.inst[i].recorder = Nil])
  BY <1>2 DEF Dispose
<1>4. Good(world', {}) /\ Disposed(world', world, i)
  BY <1>1, <1>2, <1>3, DisposedSound
<1>5. HostsFollow
  BY <1>4 DEF HostsFollow, Disposed
<1>6. /\ pos' = pos /\ handling' = Resolved(i) /\ scenario' = scenario
      /\ bus' = bus /\ run' = run /\ attempts' = attempts
  BY DEF Dispose
<1>7. TroublesKept
  BY TroublesMove DEF Dispose
<1>8. PositionsKept /\ PricingKept
  BY <1>6, PositionsMove, PricingMoves
<1> QED BY <1>4, <1>5, <1>6, <1>7, <1>8, WorldMoves

LEMMA IngestStep ==
  ASSUME IngestInv, [IngestNext]_ivars
  PROVE  IngestInv'
<1>1. CASE UNCHANGED ivars
  <2>1. /\ scenario' = scenario /\ bus' = bus /\ run' = run /\ attempts' = attempts /\ pos' = pos
        /\ handling' = handling /\ world' = world /\ troubles' = troubles
    BY <1>1 DEF ivars
  <2>2. HostsFollow /\ PositionsKept /\ PricingKept /\ TroublesKept /\ Good(world', {})
    BY <2>1, HostsMove, PositionsMove, PricingMoves, TroublesMove DEF IngestInv
  <2> QED BY <2>1, <2>2, WorldMoves
<1>2. CASE (\E kind \in StepKinds : Step(kind)) \/ EndRun \/ Delete
  BY <1>2, ChildMoves
<1>3. CASE \E long \in BOOLEAN : Silence(long)
  BY <1>3, SilenceMoves
<1>4. CASE Register
  BY <1>4, RegisterMoves
<1>5. CASE Correct
  BY <1>5, CorrectMoves
<1>6. CASE ResumeRegistered
  BY <1>6, ResumeMoves
<1>7. CASE ResumeUnregistered
  BY <1>7, ContinueMoves
<1>8. CASE \E n \in Registrations : Judges(n)
  BY <1>8, JudgesMove
<1>9. ASSUME NEW i \in Instances,
             \/ TakeStep(i) \/ Priced(i) \/ TakeFlush(i) \/ TakeGone(i) \/ ChatMessage(i)
             \/ LoadDone(i) \/ CatalogFails(i) \/ WaitTimesOut(i) \/ TimePasses(i)
             \/ Dispose(i) \/ \E s \in Dirs \union {Off} : Switch(i, s)
      PROVE  IngestInv'
  BY <1>9, TakeStepMoves, PricedMoves, TakesMove, ChatMoves, CatalogMoves, DisposeMoves, SwitchMoves
<1> QED BY <1>1, <1>2, <1>3, <1>4, <1>5, <1>6, <1>7, <1>8, <1>9 DEF IngestNext, Judges

LEMMA NewStoreSound ==
  NewStore \in StoreType /\ FoldsSound(NewStore) /\ OpensSound(NewStore) /\ StepsIn(NewStore) = {}
<1>1. PICK f \in BOOLEAN : f = FALSE
  OBVIOUS
<1>2. PICK none \in [Registrations -> Seq(Nat)] : none = [a \in Registrations |-> <<>>]
  BY NoStep
<1>3. Unscored \in [Registrations -> Scores]
  BY DEF Unscored, Scores
<1>4. <<>> \in Seq(Fold) /\ <<>> \in Seq(Registrations \X SignalKinds)
  OBVIOUS
<1>5. NewStore = [open |-> none, idle |-> {}, closed |-> {}, scored |-> Unscored, renewed |-> f,
                  folded |-> <<>>, counts |-> [pass |-> 0, fail |-> 0, refusals |-> 0],
                  rows |-> [pass |-> 0, fail |-> 0, refusals |-> 0, overrides |-> 0, unverifiable |-> 0],
                  signals |-> <<>>]
  BY <1>1, <1>2 DEF NewStore
<1>6. NewStore \in StoreType
  BY <1>1, <1>2, <1>3, <1>4, <1>5 DEF StoreType
<1>7. DOMAIN NewStore.folded = {} /\ \A a \in Registrations : NewStore.open[a] = <<>>
  BY <1>2, <1>5
<1>8. OpenSteps(NewStore) = {} /\ FoldedSteps(NewStore) = {}
  BY <1>7, NoStep DEF OpenSteps, FoldedSteps
<1>9. FoldsSound(NewStore)
  BY <1>7 DEF FoldsSound
<1>10. OpensSound(NewStore)
  BY <1>7, NoStep DEF OpensSound
<1> QED BY <1>6, <1>8, <1>9, <1>10 DEF StepsIn

LEMMA IngestInitial ==
  ASSUME IngestInit
  PROVE  IngestInv
<1>1. scenario \in Scenarios /\ scenario.home \in [Instances -> Dirs \union {Off}]
      /\ scenario.runs \in Nat \ {0} /\ scenario.troubles \in Nat
  BY IngestAssumption DEF IngestInit
<1>2. PICK f \in BOOLEAN : f = FALSE
  OBVIOUS
<1>3. PICK I : I = [i \in Instances |-> [settings |-> scenario.home[i], holds |-> Nil, recorder |-> Nil,
                                         owned |-> {}, disposed |-> f]]
  OBVIOUS
<1>4. I \in [Instances -> InstanceType]
  <2>1. ASSUME NEW i \in Instances
        PROVE  I[i] \in InstanceType
    <3>1. I[i] = [settings |-> scenario.home[i], holds |-> Nil, recorder |-> Nil,
                  owned |-> {}, disposed |-> f]
      BY <1>3
    <3>2. scenario.home[i] \in Dirs \union {Off}
      BY <1>1
    <3> QED BY <1>2, <3>1, <3>2 DEF InstanceType
  <2> QED BY <1>3, <2>1
<1>5. PICK S : S = [d \in Dirs |-> NewStore]
  OBVIOUS
<1>6. PICK L : L = [d \in Dirs |-> 0]
  OBVIOUS
<1>7. world = [slot |-> Nil, seen |-> {}, seenEnds |-> {}, held |-> {}, signalled |-> {},
               last |-> L, scored |-> Unscored, store |-> S, inst |-> I]
  BY <1>2, <1>3, <1>5, <1>6 DEF IngestInit
<1>8. /\ S \in [Dirs -> StoreType] /\ L \in [Dirs -> Registrations \union {0}]
      /\ Unscored \in [Registrations -> {"none", "pass", "fail", "refusal"}]
  BY <1>5, <1>6, NewStoreSound DEF Unscored
<1>9. WorldType(world)
  BY <1>4, <1>7, <1>8 DEF WorldType
<1>10. StepsSound(world, {})
  BY <1>5, <1>7, NewStoreSound DEF StepsSound, HeldSound, SeenSound, StepsIn
<1>11. \A d \in Dirs : /\ world.store[d].rows.pass = 0 /\ world.store[d].rows.fail = 0
                       /\ world.store[d].rows.overrides = 0 /\ world.store[d].rows.refusals = 0
                       /\ world.store[d].counts.pass = 0 /\ world.store[d].counts.fail = 0
                       /\ world.store[d].counts.refusals = 0 /\ DOMAIN world.store[d].signals = {}
                       /\ world.store[d].scored = Unscored
  BY <1>5, <1>7 DEF NewStore
<1>12. \A a \in Registrations : Unscored[a] = "none" /\ Unscored[a] \notin Passed
  BY DEF Unscored, Passed
<1>13. BooksSound(world)
  <2>1. SignalsAreOne(world)
    <3>1. FewRefusals(world, 0)
      <4>1. Cardinality({a \in Registrations : RefusalKey(a) \in world.signalled}) \in Nat
        BY RefusalsFinite
      <4> QED BY <4>1 DEF FewRefusals
    <3> QED BY <1>11, <3>1 DEF SignalsAreOne
  <2>2. \A a \in Registrations : world.scored[a] = "none"
    BY <1>7, <1>12
  <2>3. BooksAgree(world)
    BY <1>11, <1>12, <2>2 DEF BooksAgree
  <2> QED BY <2>1, <2>3 DEF BooksSound
<1>14. AttemptsBounded
  <2>1. PICK t \in BOOLEAN : t = TRUE
    OBVIOUS
  <2>2. PICK due \in [Registrations -> Stages] : due = [n \in Registrations |-> "no"]
    BY DEF Stages
  <2>3. run = [n |-> 1, live |-> t, steps |-> 0, due |-> due, gone |-> f]
    BY <1>2, <2>1, <2>2 DEF IngestInit
  <2>4. run \in ChildType /\ run.n = 1
    BY <1>2, <2>1, <2>3 DEF ChildType
  <2>5. attempts = <<>> /\ attempts \in Seq(AttemptType) /\ Len(attempts) = 0 /\ troubles = 0
    BY DEF IngestInit
  <2> QED BY <1>1, <2>4, <2>5 DEF AttemptsBounded
<1>15. StepsOnTheirWay
  <2>1. bus = <<>> /\ bus \in Seq(Event) /\ DOMAIN bus = {}
    BY DEF IngestInit
  <2>2. pos \in [Instances -> Nat] /\ handling = [i \in Instances |-> Nil]
    BY DEF IngestInit
  <2>3. world.slot = Nil
    BY <1>7
  <2>4. \A i \in Instances : PricedOwn(handling[i]) /\ PendingOwn(i)
    BY <2>1, <2>2 DEF PricedOwn, PendingOwn
  <2> QED BY <2>1, <2>2, <2>3, <2>4 DEF StepsOnTheirWay
<1> QED BY <1>9, <1>10, <1>13, <1>14, <1>15 DEF IngestInv, Good

THEOREM IngestAlways == IngestSpec => []IngestInv
<1>1. IngestInit => IngestInv
  BY IngestInitial
<1>2. IngestInv /\ [IngestNext]_ivars => IngestInv'
  BY IngestStep
<1> QED BY <1>1, <1>2, PTL DEF IngestSpec

LEMMA RecordedIs ==
  ASSUME NEW st \in StoreType, FoldsSound(st), OpensSound(st), NEW x \in Recorded(st)
  PROVE  /\ OnceEach(x.steps) /\ \A k \in DOMAIN x.steps : Own(x.attempt, x.steps[k])
         /\ \A y \in Recorded(st) : \A j \in DOMAIN x.steps, k \in DOMAIN y.steps :
              x.steps[j] = y.steps[k] => x = y
<1>1. DOMAIN st.folded \subseteq Nat \ {0}
  BY DEF StoreType
<1>2. ASSUME NEW y \in Recorded(st)
      PROVE  \/ \E n \in DOMAIN st.folded :
                  y = [nr |-> n, attempt |-> st.folded[n].attempt, steps |-> st.folded[n].steps]
             \/ \E a \in Registrations : y = [nr |-> 0, attempt |-> a, steps |-> st.open[a]]
  BY DEF Recorded
<1>3. ASSUME NEW n \in DOMAIN st.folded
      PROVE  /\ OnceEach(st.folded[n].steps)
             /\ \A e \in StepSet(st.folded[n].steps) : Own(st.folded[n].attempt, e)
             /\ StepSet(st.folded[n].steps) \cap OpenSteps(st) = {}
             /\ \A m \in DOMAIN st.folded :
                  m # n => StepSet(st.folded[m].steps) \cap StepSet(st.folded[n].steps) = {}
  BY DEF FoldsSound
<1>4. ASSUME NEW a \in Registrations
      PROVE  /\ OnceEach(st.open[a])
             /\ \A e \in StepSet(st.open[a]) : Own(a, e) /\ e \in OpenSteps(st)
             /\ \A b \in Registrations : b # a => StepSet(st.open[a]) \cap StepSet(st.open[b]) = {}
  BY DEF OpensSound, OpenSteps
<1>5. ASSUME NEW s, NEW k \in DOMAIN s
      PROVE  s[k] \in StepSet(s)
  BY DEF StepSet
<1>6. OnceEach(x.steps) /\ \A k \in DOMAIN x.steps : Own(x.attempt, x.steps[k])
  <2>1. CASE \E n \in DOMAIN st.folded :
               x = [nr |-> n, attempt |-> st.folded[n].attempt, steps |-> st.folded[n].steps]
    BY <1>3, <1>5, <2>1
  <2>2. CASE \E a \in Registrations : x = [nr |-> 0, attempt |-> a, steps |-> st.open[a]]
    BY <1>4, <1>5, <2>2
  <2> QED BY <1>2, <2>1, <2>2
<1>7. ASSUME NEW y \in Recorded(st), NEW j \in DOMAIN x.steps, NEW k \in DOMAIN y.steps,
             x.steps[j] = y.steps[k]
      PROVE  x = y
  <2>1. PICK e : e = x.steps[j] /\ e \in StepSet(x.steps) /\ e \in StepSet(y.steps)
    BY <1>5, <1>7
  <2>2. ASSUME NEW n \in DOMAIN st.folded, NEW m \in DOMAIN st.folded,
               x = [nr |-> n, attempt |-> st.folded[n].attempt, steps |-> st.folded[n].steps],
               y = [nr |-> m, attempt |-> st.folded[m].attempt, steps |-> st.folded[m].steps]
        PROVE  x = y
    <3>1. m = n
      BY <1>3, <2>1, <2>2
    <3> QED BY <2>2, <3>1
  <2>3. ASSUME NEW a \in Registrations, NEW b \in Registrations,
               x = [nr |-> 0, attempt |-> a, steps |-> st.open[a]],
               y = [nr |-> 0, attempt |-> b, steps |-> st.open[b]]
        PROVE  x = y
    <3>1. a = b
      BY <1>4, <2>1, <2>3
    <3> QED BY <2>3, <3>1
  <2>4. ASSUME NEW n \in DOMAIN st.folded, NEW b \in Registrations,
               e \in StepSet(st.folded[n].steps), e \in StepSet(st.open[b])
        PROVE  FALSE
    BY <1>3, <1>4, <2>4
  <2>5. CASE \E n \in DOMAIN st.folded :
               x = [nr |-> n, attempt |-> st.folded[n].attempt, steps |-> st.folded[n].steps]
    <3>1. PICK n \in DOMAIN st.folded :
            x = [nr |-> n, attempt |-> st.folded[n].attempt, steps |-> st.folded[n].steps]
      BY <2>5
    <3>2. x.steps = st.folded[n].steps
      BY <3>1
    <3>3. ASSUME NEW b \in Registrations, y = [nr |-> 0, attempt |-> b, steps |-> st.open[b]]
          PROVE  FALSE
      <4>1. y.steps = st.open[b]
        BY <3>3
      <4> QED BY <2>1, <2>4, <3>2, <4>1
    <3> QED BY <1>2, <2>2, <3>1, <3>3
  <2>6. CASE \E a \in Registrations : x = [nr |-> 0, attempt |-> a, steps |-> st.open[a]]
    <3>1. PICK a \in Registrations : x = [nr |-> 0, attempt |-> a, steps |-> st.open[a]]
      BY <2>6
    <3>2. x.steps = st.open[a]
      BY <3>1
    <3>3. ASSUME NEW n \in DOMAIN st.folded,
                 y = [nr |-> n, attempt |-> st.folded[n].attempt, steps |-> st.folded[n].steps]
          PROVE  FALSE
      <4>1. y.steps = st.folded[n].steps
        BY <3>3
      <4> QED BY <2>1, <2>4, <3>2, <4>1
    <3> QED BY <1>2, <2>3, <3>1, <3>3
  <2> QED BY <1>2, <2>5, <2>6
<1> QED BY <1>6, <1>7

\* For every number of instances, directories and registrations, and every scenario: a step
\* reaches a directory's statistics at most once, and under an attempt of its own run, unless an
\* instance that records had yet to take it when the attempt was registered; a store that lives
\* on folds an attempt once (onStepEnded with its re-check after the await, firstDelivery per
\* directory, settle and closeAttempt).
THEOREM StepsOnce == IngestSpec => []StepsCountedOnce
<1>1. IngestInv => StepsCountedOnce
  <2> SUFFICES ASSUME IngestInv, NEW d \in Dirs
               PROVE  /\ \A x, y \in Recorded(world.store[d]) :
                           \A j \in DOMAIN x.steps, k \in DOMAIN y.steps :
                              x.steps[j] = y.steps[k] => x = y /\ j = k
                      /\ \A x \in Recorded(world.store[d]) : \A k \in DOMAIN x.steps :
                           \/ bus[x.steps[k]].run \in attempts[x.attempt].runs
                           \/ x.steps[k] \in attempts[x.attempt].late
                      /\ ~world.store[d].renewed =>
                           \A m, n \in DOMAIN world.store[d].folded :
                              m # n => world.store[d].folded[m].attempt # world.store[d].folded[n].attempt
    BY DEF StepsCountedOnce
  <2>1. PICK st : st = world.store[d]
    OBVIOUS
  <2>2. st \in StoreType /\ FoldsSound(st) /\ OpensSound(st)
    BY <2>1, InStore DEF IngestInv
  <2>3. ASSUME NEW x \in Recorded(st), NEW y \in Recorded(st), NEW j \in DOMAIN x.steps,
               NEW k \in DOMAIN y.steps, x.steps[j] = y.steps[k]
        PROVE  x = y /\ j = k
    <3>1. x = y /\ OnceEach(x.steps)
      BY <2>2, <2>3, RecordedIs
    <3> QED BY <2>3, <3>1 DEF OnceEach
  <2>4. ASSUME NEW x \in Recorded(st), NEW k \in DOMAIN x.steps
        PROVE  \/ bus[x.steps[k]].run \in attempts[x.attempt].runs
               \/ x.steps[k] \in attempts[x.attempt].late
    <3>1. Own(x.attempt, x.steps[k])
      BY <2>2, RecordedIs
    <3> QED BY <3>1 DEF Own
  <2>5. ~st.renewed => \A m, n \in DOMAIN st.folded : m # n => st.folded[m].attempt # st.folded[n].attempt
    BY <2>2 DEF FoldsSound
  <2> QED BY <2>1, <2>3, <2>4, <2>5
<1> QED BY <1>1, IngestAlways, PTL

\* For the same: the decision log and the statistics count the same verdicts and refusals, no
\* more refusals than attempts that had one, and an attempt has one signal of a kind, whatever
\* the order in which the calls of a child are judged (onVerdict, onFalseRefusal, onSignal, the
\* signalled keys).
THEOREM RowsAgree == IngestSpec => []RowsFollowStore
<1>1. IngestInv => RowsFollowStore
  <2> SUFFICES ASSUME IngestInv, NEW d \in Dirs
               PROVE  /\ OneStory =>
                           /\ world.store[d].rows.pass - world.store[d].rows.overrides = world.store[d].counts.pass
                           /\ world.store[d].rows.fail + world.store[d].rows.overrides = world.store[d].counts.fail
                      /\ world.store[d].rows.refusals = world.store[d].counts.refusals
                      /\ world.store[d].counts.refusals <=
                           Cardinality({a \in Registrations : RefusalKey(a) \in world.signalled})
                      /\ \A m, n \in DOMAIN world.store[d].signals :
                           m # n => world.store[d].signals[m] # world.store[d].signals[n]
    BY DEF RowsFollowStore
  <2>1. BooksAgree(world) /\ SignalsAreOne(world)
    BY DEF IngestInv, Good, BooksSound
  <2>2. OneStory => OneStoryOf(world)
    BY DEF OneStory, OneStoryOf
  <2>3. OneStory => /\ world.store[d].rows.pass - world.store[d].rows.overrides = world.store[d].counts.pass
                    /\ world.store[d].rows.fail + world.store[d].rows.overrides = world.store[d].counts.fail
    BY <2>1, <2>2 DEF BooksAgree
  <2>4. world.store[d].counts.refusals <=
          Cardinality({a \in Registrations : RefusalKey(a) \in world.signalled})
    BY <2>1 DEF SignalsAreOne, FewRefusals
  <2> QED BY <2>1, <2>3, <2>4 DEF SignalsAreOne
<1> QED BY <1>1, IngestAlways, PTL

-----------------------------------------------------------------------------
(* The end of a run. *)

Latest == Len(attempts)

\* The latest attempt was registered before the run's first step, and no settings have changed since.
Settled ==
  attempts # <<>> /\ attempts[Latest].clean /\ attempts[Latest].late = {} /\ moved = {}

RunStep(s) == s \in DOMAIN bus /\ bus[s].kind \in StepKinds /\ bus[s].run = run.n
RunEnd(e) == e \in DOMAIN bus /\ bus[e].kind = "end" /\ bus[e].run = run.n

\* No step is recorded without a registration made while ingestion was on.
Untracked(w) == w.slot = Nil \/ ~w.slot.outcomes

Placed(w, d, s) == Untracked(w) \/ <<d, "step", s>> \in w.seen

\* Nothing of the run is left in directory d, and nothing of it comes any more.
FoldedIn(w, d) == ~LeftIn(w, d, Latest) /\ \A s \in DOMAIN bus : RunStep(s) => Placed(w, d, s)

EventsInOrder ==
  /\ \A e \in DOMAIN bus : bus[e].run <= run.n
  /\ run.steps = 0 => \A s \in DOMAIN bus : ~RunStep(s)
  /\ run.live <=> \A e \in DOMAIN bus : ~RunEnd(e)
  /\ \A e, s \in DOMAIN bus : RunEnd(e) /\ RunStep(s) => s < e
  /\ \A i \in Instances : pos[i] <= Len(bus)
  /\ \A i \in Instances : handling[i] # Nil => bus[handling[i].step].kind \in StepKinds
  /\ \A k \in world.seen : k[2] = "end" => k[3] \in DOMAIN bus

Works(i, d) == ~world.inst[i].disposed /\ settings(world, i) = d

PricesLatest(i) == handling[i] # Nil /\ RunStep(handling[i].step) => handling[i].attempt = Latest

\* What an instance has taken is placed, or it awaits its price; an end it has taken, or that was
\* delivered for a directory, has folded what was there.
Onward ==
  /\ attempts[Latest].runs = {run.n}
  /\ \A i \in Instances : Steady(world, i)
  /\ \A d \in Dirs : LeftIn(world, d, Latest) => world.last[d] = Latest
  /\ \A i \in Instances : PricesLatest(i)
  /\ \A i \in Instances, d \in Dirs : Works(i, d) =>
       \A s \in DOMAIN bus : s <= pos[i] =>
         /\ RunStep(s) => Placed(world, d, s) \/ (handling[i] # Nil /\ handling[i].step = s)
         /\ RunEnd(s) => FoldedIn(world, d)
  /\ \A d \in Dirs, e \in DOMAIN bus : RunEnd(e) /\ <<d, "end", e>> \in world.seen => FoldedIn(world, d)

EndInv == EventsInOrder /\ (Settled => Onward)

\* The instances that live keep their settings and the directory they hold; a registration that
\* is not tracked stays so.
Calm(v, w) ==
  /\ Untracked(w) => Untracked(v)
  /\ w.seen \subseteq v.seen
  /\ \A j \in Instances : Steady(w, j) => Steady(v, j)
  /\ \A j \in Instances : ~v.inst[j].disposed => ~w.inst[j].disposed /\ settings(v, j) = settings(w, j)

LEMMA CalmHosts ==
  ASSUME NEW w, NEW v, SameHosts(v, w)
  PROVE  Calm(v, w)
BY DEF SameHosts, Calm, Untracked

\* A run's steps that are placed stay placed, and so does what is folded.
LEMMA FoldedStays ==
  ASSUME NEW d \in Dirs, Calm(world', world), attempts' = attempts, Lasts(world', world, d, Latest),
         \A s \in DOMAIN bus' : RunStep(s)' => RunStep(s), DOMAIN bus \subseteq DOMAIN bus',
         FoldedIn(world, d)
  PROVE  FoldedIn(world, d)'
<1>1. Latest' = Latest
  BY DEF Latest
<1>2. ~LeftIn(world', d, Latest)
  BY DEF FoldedIn, Lasts
<1>3. ASSUME NEW s \in DOMAIN bus', RunStep(s)'
      PROVE  Placed(world', d, s)
  <2>1. RunStep(s) /\ s \in DOMAIN bus
    BY <1>3 DEF RunStep
  <2>2. Placed(world, d, s)
    BY <2>1 DEF FoldedIn
  <2> QED BY <2>2 DEF Placed, Calm
<1> QED BY <1>1, <1>2, <1>3 DEF FoldedIn, LeftIn, HeldFor, Placed, Untracked


\* What an instance takes next, or has been paid for, is placed; the end it takes next folds.
TakenBy(i, d) ==
  \A s \in DOMAIN bus : s <= pos'[i] =>
    /\ RunStep(s) /\ (s <= pos[i] => handling[i] # Nil /\ handling[i].step = s)
         => Placed(world', d, s) \/ (handling'[i] # Nil /\ handling'[i].step = s)
    /\ RunEnd(s) => s <= pos[i] \/ FoldedIn(world, d)'

\* An end that has been delivered for a directory was, or has folded what was there.
EndsDelivered ==
  \A d \in Dirs, e \in DOMAIN bus' : RunEnd(e)' /\ <<d, "end", e>> \in world'.seen =>
    RunEnd(e) /\ (<<d, "end", e>> \in world.seen \/ FoldedIn(world, d)')

FoldsStay ==
  \A d \in Dirs : (\E e \in DOMAIN bus : RunEnd(e)) /\ FoldedIn(world, d) => FoldedIn(world, d)'

LEMMA EventsSame ==
  ASSUME Grown, run'.n = run.n, NEW s \in DOMAIN bus
  PROVE  s \in DOMAIN bus' /\ (RunStep(s)' <=> RunStep(s)) /\ (RunEnd(s)' <=> RunEnd(s))
BY DEF Grown, RunStep, RunEnd

LEMMA OnwardKept ==
  ASSUME IngestInv, EventsInOrder, Onward, attempts' = attempts, run'.n = run.n, Grown,
         Calm(world', world), FoldsStay, EndsDelivered,
         \A d \in Dirs : LeftIn(world', d, Latest) => world'.last[d] = Latest,
         \A i \in Instances : PricesLatest(i)',
         \A i \in Instances : pos'[i] <= Len(bus),
         PositionsKept,
         \A i \in Instances, d \in Dirs : Works(i, d) => TakenBy(i, d)
  PROVE  Onward'
<1>1. Latest' = Latest /\ attempts'[Latest].runs = {run'.n}
  BY DEF Latest, Onward
<1>2. \A i \in Instances : Steady(world', i)
  BY DEF Onward, Calm
<1>3. ASSUME NEW i \in Instances, NEW d \in Dirs, Works(i, d)',
             NEW s \in DOMAIN bus', s <= pos'[i]
      PROVE  /\ RunStep(s)' => Placed(world', d, s) \/ (handling'[i] # Nil /\ handling'[i].step = s)
             /\ RunEnd(s)' => FoldedIn(world, d)'
  <2>1. Works(i, d)
    BY <1>3 DEF Works, Calm, settings
  <2>2. TakenBy(i, d)
    BY <2>1
  <2>3. s \in DOMAIN bus
    <3>1. DOMAIN bus = 1..Len(bus) /\ Len(bus) \in Nat
      BY Registering
    <3>2. DOMAIN bus' \subseteq Nat \ {0}
      BY DEF Grown
    <3>3. pos'[i] \in Nat /\ pos'[i] <= Len(bus)
      BY DEF PositionsKept
    <3> QED BY <1>3, <3>1, <3>2, <3>3
  <2>4. (RunStep(s)' <=> RunStep(s)) /\ (RunEnd(s)' <=> RunEnd(s))
    BY <2>3, EventsSame
  <2>5. ASSUME s <= pos[i], RunStep(s), ~(handling[i] # Nil /\ handling[i].step = s)
        PROVE  Placed(world', d, s)
    <3>1. Placed(world, d, s)
      BY <2>1, <2>3, <2>5 DEF Onward
    <3> QED BY <3>1 DEF Placed, Calm
  <2>6. ASSUME s <= pos[i], RunEnd(s)
        PROVE  FoldedIn(world, d)'
    <3>1. FoldedIn(world, d)
      BY <2>1, <2>3, <2>6 DEF Onward
    <3> QED BY <2>3, <2>6, <3>1 DEF FoldsStay
  <2> QED BY <1>3, <2>2, <2>3, <2>4, <2>5, <2>6 DEF TakenBy
<1>4. ASSUME NEW d \in Dirs, NEW e \in DOMAIN bus', RunEnd(e)', <<d, "end", e>> \in world'.seen
      PROVE  FoldedIn(world, d)'
  <2>1. RunEnd(e) /\ (<<d, "end", e>> \in world.seen \/ FoldedIn(world, d)')
    BY <1>4 DEF EndsDelivered
  <2>2. e \in DOMAIN bus
    BY <2>1 DEF RunEnd
  <2>3. CASE <<d, "end", e>> \in world.seen
    <3>1. FoldedIn(world, d)
      BY <2>1, <2>2, <2>3 DEF Onward
    <3> QED BY <2>1, <2>2, <3>1 DEF FoldsStay
  <2> QED BY <2>1, <2>3
<1>5. \A i \in Instances : Steady(world, i)'
  BY <1>2 DEF Steady, settings
<1>6. \A d \in Dirs : LeftIn(world, d, Latest)' => world'.last[d] = Latest'
  BY <1>1 DEF LeftIn, HeldFor
<1>8. \A d \in Dirs, s \in DOMAIN bus' : Placed(world', d, s) => Placed(world, d, s)'
  BY DEF Placed, Untracked
<1>9. \A i \in Instances, d \in Dirs : Works(i, d)' =>
        \A s \in DOMAIN bus' : s <= pos'[i] =>
          /\ RunStep(s)' => Placed(world, d, s)' \/ (handling'[i] # Nil /\ handling'[i].step = s)
          /\ RunEnd(s)' => FoldedIn(world, d)'
  BY <1>3, <1>8
<1> QED BY <1>1, <1>4, <1>5, <1>6, <1>9 DEF Onward


LEMMA LatestIs ==
  ASSUME IngestInv
  PROVE  /\ attempts # <<>> => Latest \in Registrations /\ Latest \in DOMAIN attempts
         /\ \A i \in Instances : handling[i] # Nil => handling[i].step \in DOMAIN bus
         /\ \A i \in Instances : pos[i] \in Nat
         /\ world.slot # Nil => world.slot.attempt = Latest
<1>1. attempts # <<>> => Latest \in Registrations /\ Latest \in DOMAIN attempts
  BY Registering DEF Latest, Registrations
<1>2. \A i \in Instances : handling[i] # Nil => handling[i].step \in DOMAIN bus
  BY DEF IngestInv, StepsOnTheirWay, PricedOwn, Own
<1> QED BY <1>1, <1>2 DEF IngestInv, StepsOnTheirWay, Latest

\* The events that are neither the run's steps nor its end.
Others == EventKinds \ (StepKinds \union {"end"})

OthersCome == \A e \in DOMAIN bus' \ DOMAIN bus : bus'[e].kind \in Others

LEMMA EventsKept ==
  ASSUME IngestInv, EventsInOrder, Grown, OthersCome,
         run'.n = run.n, run'.steps = run.steps, run'.live = run.live,
         \A i \in Instances : pos'[i] <= Len(bus), PositionsKept,
         \A i \in Instances : handling'[i] # Nil =>
            handling'[i].step \in DOMAIN bus /\ bus[handling'[i].step].kind \in StepKinds,
         \A k \in world'.seen : k[2] = "end" => k[3] \in DOMAIN bus
  PROVE  EventsInOrder'
<1>1. /\ DOMAIN bus = 1..Len(bus) /\ Len(bus) \in Nat /\ DOMAIN bus' = 1..Len(bus') /\ Len(bus') \in Nat
      /\ Len(bus) <= Len(bus') /\ run.n \in Nat
  <2>1. DOMAIN bus = 1..Len(bus) /\ Len(bus) \in Nat /\ run.n \in Nat
    BY Registering
  <2>2. DOMAIN bus' = 1..Len(bus') /\ Len(bus') \in Nat /\ DOMAIN bus \subseteq DOMAIN bus'
    BY DEF Grown
  <2>3. Len(bus) = 0 \/ Len(bus) \in 1..Len(bus')
    BY <2>1, <2>2
  <2> QED BY <2>1, <2>2, <2>3
<1>2. ASSUME NEW e \in DOMAIN bus'
      PROVE  (RunStep(e)' => e \in DOMAIN bus /\ RunStep(e)) /\ (RunEnd(e)' => e \in DOMAIN bus /\ RunEnd(e))
  <2>1. CASE e \in DOMAIN bus
    BY <2>1, EventsSame
  <2>2. CASE e \notin DOMAIN bus
    BY <2>2 DEF OthersCome, Others, RunStep, RunEnd
  <2> QED BY <2>1, <2>2
<1>3. (\A e \in DOMAIN bus : bus[e].run <= run.n)'
  <2>1. ASSUME NEW e \in DOMAIN bus'
        PROVE  bus'[e].run <= run'.n
    <3>1. CASE e \in DOMAIN bus
      BY <3>1 DEF EventsInOrder, Grown
    <3>2. CASE e \notin DOMAIN bus
      BY <1>1, <3>2 DEF Grown
    <3> QED BY <3>1, <3>2
  <2> QED BY <2>1
<1>4. (run.steps = 0 => \A s \in DOMAIN bus : ~RunStep(s))'
  BY <1>2 DEF EventsInOrder
<1>5. (run.live <=> \A e \in DOMAIN bus : ~RunEnd(e))'
  BY <1>2, EventsSame DEF EventsInOrder
<1>6. (\A e, s \in DOMAIN bus : RunEnd(e) /\ RunStep(s) => s < e)'
  BY <1>2 DEF EventsInOrder
<1>7. (\A i \in Instances : pos[i] <= Len(bus))'
  BY <1>1 DEF PositionsKept
<1>8. (\A i \in Instances : handling[i] # Nil => bus[handling[i].step].kind \in StepKinds)'
  BY DEF Grown
<1>9. (\A k \in world.seen : k[2] = "end" => k[3] \in DOMAIN bus)'
  BY DEF Grown
<1> QED BY <1>3, <1>4, <1>5, <1>6, <1>7, <1>8, <1>9 DEF EventsInOrder

\* The handlers await what they awaited.
StillAwaits ==
  \A i \in Instances :
    /\ handling'[i] = Nil <=> handling[i] = Nil
    /\ handling[i] # Nil => /\ handling'[i].step = handling[i].step
                            /\ handling'[i].attempt = handling[i].attempt

LEMMA AwaitsStill ==
  ASSUME IngestInv, handling' = handling \/ \E i \in Instances : handling' = Resolved(i)
  PROVE  StillAwaits
<1>1. CASE handling' = handling
  BY <1>1 DEF StillAwaits
<1>2. ASSUME NEW i \in Instances, handling' = Resolved(i)
      PROVE  StillAwaits
  <2>1. handling = [j \in Instances |-> handling[j]] /\ PricedOwn(handling[i])
    BY DEF IngestInv, StepsOnTheirWay
  <2>2. PICK h : h = handling[i]
    OBVIOUS
  <2>3. PICK n : n = IF h = Nil THEN h ELSE [h EXCEPT !.wait = FALSE]
    OBVIOUS
  <2>4. handling' = [handling EXCEPT ![i] = n]
    BY <1>2, <2>2, <2>3 DEF Resolved
  <2>5. handling'[i] = n /\ \A j \in Instances \ {i} : handling'[j] = handling[j]
    BY <2>1, <2>4
  <2>6. (n = Nil <=> h = Nil) /\ (h # Nil => n.step = h.step /\ n.attempt = h.attempt)
    <3>1. CASE h = Nil
      BY <2>3, <3>1
    <3>2. CASE h # Nil
      <4>1. h \in [step : Nat, attempt : Registrations, wait : {h.wait}]
        BY <2>1, <2>2, <3>2 DEF PricedOwn
      <4>2. n = [step |-> h.step, attempt |-> h.attempt, wait |-> FALSE]
        BY <2>3, <3>2, <4>1
      <4>3. n \in [step : Nat, attempt : Nat, wait : BOOLEAN]
        BY <4>1, <4>2 DEF Registrations
      <4> QED BY <3>2, <4>2, <4>3, IngestAssumption
    <3> QED BY <3>1, <3>2
  <2> QED BY <2>2, <2>5, <2>6 DEF StillAwaits
<1> QED BY <1>1, <1>2


\* An instance takes only events that are neither the run's steps nor its end.
TakesOthers ==
  \A i \in Instances :
    /\ pos[i] <= pos'[i] /\ pos'[i] <= Len(bus)
    /\ \A s \in DOMAIN bus : s <= pos'[i] => s <= pos[i] \/ bus[s].kind \in Others

LEMMA OthersAre == \A kind \in Others : kind \notin StepKinds /\ kind # "end"
BY DEF Others

\* A step that neither adds to the run nor delivers of it leaves it as it is.
LEMMA QuietKeeps ==
  ASSUME IngestInv, EndInv, attempts' = attempts, Settled' => Settled, Grown, OthersCome,
         run'.n = run.n, run'.steps = run.steps, run'.live = run.live,
         PositionsKept, TakesOthers, StillAwaits, Calm(world', world), world'.seen = world.seen,
         \A d \in Dirs, a \in Registrations : Lasts(world', world, d, a)
  PROVE  EndInv'
<1>1. EventsInOrder
  BY DEF EndInv
<1>2. \A i \in Instances : handling'[i] # Nil =>
         /\ handling[i] # Nil /\ handling'[i].step = handling[i].step
         /\ handling'[i].attempt = handling[i].attempt /\ handling'[i].step \in DOMAIN bus
  BY LatestIs DEF StillAwaits
<1>3. EventsInOrder'
  <2>1. \A i \in Instances : handling'[i] # Nil =>
           handling'[i].step \in DOMAIN bus /\ bus[handling'[i].step].kind \in StepKinds
    BY <1>1, <1>2 DEF EventsInOrder
  <2>2. \A k \in world'.seen : k[2] = "end" => k[3] \in DOMAIN bus
    BY <1>1 DEF EventsInOrder
  <2> QED BY <1>1, <2>1, <2>2, EventsKept DEF TakesOthers
<1>4. ASSUME Settled'
      PROVE  Onward'
  <2>1. Onward /\ attempts # <<>>
    BY <1>4 DEF EndInv, Settled
  <2>2. Latest \in Registrations
    BY <2>1, LatestIs
  <2>3. \A s \in DOMAIN bus' : (RunStep(s)' => RunStep(s)) /\ (RunEnd(s)' => RunEnd(s))
    <3>1. ASSUME NEW s \in DOMAIN bus', s \notin DOMAIN bus
          PROVE  ~RunStep(s)' /\ ~RunEnd(s)'
      BY <3>1, OthersAre DEF OthersCome, RunStep, RunEnd
    <3> QED BY <3>1, EventsSame
  <2>4. FoldsStay
    <3>1. DOMAIN bus \subseteq DOMAIN bus'
      BY DEF Grown
    <3>2. ASSUME NEW d \in Dirs, FoldedIn(world, d)
          PROVE  FoldedIn(world, d)'
      BY <2>2, <2>3, <3>1, <3>2, FoldedStays
    <3> QED BY <3>2 DEF FoldsStay
  <2>5. EndsDelivered
    BY <2>3 DEF EndsDelivered
  <2>6. \A d \in Dirs : LeftIn(world', d, Latest) => world'.last[d] = Latest
    BY <2>1, <2>2 DEF Onward, Lasts
  <2>7. ASSUME NEW i \in Instances
        PROVE  PricesLatest(i)'
    <3> SUFFICES ASSUME handling'[i] # Nil, RunStep(handling[i].step)'
                 PROVE  handling'[i].attempt = Latest'
      BY DEF PricesLatest
    <3>1. handling[i].step = handling'[i].step /\ handling[i] # Nil
      BY <1>2
    <3>2. handling'[i].step \in DOMAIN bus' /\ bus'[handling'[i].step] = bus[handling'[i].step]
      BY <1>2 DEF Grown
    <3>3. RunStep(handling[i].step)
      BY <1>2, <3>1, <3>2 DEF RunStep
    <3> QED BY <1>2, <2>1, <3>1, <3>3 DEF Onward, PricesLatest, Latest
  <2>8. ASSUME NEW i \in Instances, NEW d \in Dirs
        PROVE  TakenBy(i, d)
    <3>1. ASSUME NEW s \in DOMAIN bus, s <= pos'[i], RunStep(s) \/ RunEnd(s)
          PROVE  s <= pos[i]
      BY <3>1, OthersAre DEF TakesOthers, RunStep, RunEnd
    <3> QED BY <1>2, <3>1 DEF TakenBy, StillAwaits
  <2>9. \A i \in Instances : pos'[i] <= Len(bus)
    BY DEF TakesOthers
  <2> QED BY <1>1, <2>1, <2>4, <2>5, <2>6, <2>7, <2>8, <2>9, OnwardKept
<1> QED BY <1>3, <1>4 DEF EndInv


LEMMA EmitIs ==
  ASSUME IngestInv, NEW kind \in EventKinds, Emit(kind)
  PROVE  /\ Grown /\ DOMAIN bus = 1..Len(bus) /\ Len(bus) \in Nat
         /\ DOMAIN bus' = 1..(Len(bus) + 1) /\ Len(bus') = Len(bus) + 1
         /\ bus'[Len(bus) + 1].kind = kind /\ bus'[Len(bus) + 1].run = run.n
<1>1. Grown
  BY BusKept
<1>2. PICK x : x = [kind |-> kind, run |-> run.n]
  OBVIOUS
<1>3. x.kind = kind /\ x.run = run.n /\ bus' = Append(bus, x)
  BY <1>2 DEF Emit
<1>4. bus \in Seq(Event) /\ DOMAIN bus = 1..Len(bus) /\ Len(bus) \in Nat
  BY Registering
<1>5. x \in Event
  BY <1>2, Registering DEF Event
<1>6. DOMAIN bus' = 1..(Len(bus) + 1) /\ bus'[Len(bus) + 1] = x /\ Len(bus') = Len(bus) + 1
  BY <1>3, <1>4, <1>5
<1> QED BY <1>1, <1>3, <1>4, <1>6

\* While the run lives it has no end that a new step could come after; its end comes last.
LEMMA ChildEnds ==
  ASSUME IngestInv, EndInv, (\E kind \in StepKinds : Step(kind)) \/ EndRun
  PROVE  EndInv'
<1>1. EventsInOrder /\ run.live /\ \A e \in DOMAIN bus : ~RunEnd(e)
  BY DEF EndInv, EventsInOrder, Step, EndRun
<1>2. PICK kind \in StepKinds \union {"end"} :
         /\ Emit(kind)
         /\ kind # "end" => run' = [run EXCEPT !.steps = run.steps + 1]
         /\ kind = "end" => run' = [run EXCEPT !.live = FALSE, !.due[run.n] = "return"]
  BY DEF Step, EndRun, StepKinds
<1>3. PICK new : new = Len(bus) + 1
  OBVIOUS
<1>4. /\ Grown /\ DOMAIN bus = 1..Len(bus) /\ Len(bus) \in Nat /\ new \in Nat
      /\ DOMAIN bus' = 1..new /\ Len(bus') = new /\ bus'[new].kind = kind /\ bus'[new].run = run.n
  <2>1. kind \in EventKinds
    BY DEF EventKinds, StepKinds
  <2>2. Emit(kind)
    BY <1>2
  <2>3. /\ Grown /\ DOMAIN bus = 1..Len(bus) /\ Len(bus) \in Nat
        /\ DOMAIN bus' = 1..(Len(bus) + 1) /\ Len(bus') = Len(bus) + 1
        /\ bus'[Len(bus) + 1].kind = kind /\ bus'[Len(bus) + 1].run = run.n
    BY <2>1, <2>2, EmitIs
  <2> QED BY <1>3, <2>3
<1>5. /\ run'.n = run.n /\ run.n \in Nat
      /\ kind = "end" => ~run'.live /\ run'.steps = run.steps
      /\ kind # "end" => run'.live /\ run'.steps # 0
  <2>1. run \in ChildType
    BY Registering
  <2>2. run.n \in Nat /\ run.steps \in Nat
    BY <2>1 DEF ChildType
  <2>3. CASE kind = "end"
    <3>1. run' = [run EXCEPT !.live = FALSE, !.due[run.n] = "return"]
      BY <1>2, <2>3
    <3>2. run'.n = run.n /\ ~run'.live /\ run'.steps = run.steps
      BY <2>1, <3>1 DEF ChildType
    <3> QED BY <2>2, <2>3, <3>2
  <2>4. CASE kind # "end"
    <3>1. run' = [run EXCEPT !.steps = run.steps + 1]
      BY <1>2, <2>4
    <3>2. run'.n = run.n /\ run'.live = run.live /\ run'.steps = run.steps + 1
      BY <2>1, <3>1 DEF ChildType
    <3> QED BY <1>1, <2>2, <2>4, <3>2
  <2> QED BY <2>3, <2>4
<1>6. /\ attempts' = attempts /\ world' = world /\ pos' = pos /\ handling' = handling /\ moved' = moved
  BY DEF Step, EndRun
<1>7. ASSUME NEW e \in DOMAIN bus'
      PROVE  /\ e # new => e \in DOMAIN bus /\ (RunStep(e)' <=> RunStep(e)) /\ ~RunEnd(e)'
             /\ e = new => (RunStep(e)' <=> kind # "end") /\ (RunEnd(e)' <=> kind = "end")
  <2>1. CASE e # new
    <3>1. e \in DOMAIN bus
      BY <1>3, <1>4, <2>1
    <3> QED BY <1>1, <1>4, <1>5, <2>1, <3>1, EventsSame
  <2>2. CASE e = new
    BY <1>2, <1>4, <1>5, <2>2 DEF RunStep, RunEnd, StepKinds
  <2> QED BY <2>1, <2>2
<1>8. EventsInOrder'
  <2>1. (\A e \in DOMAIN bus : bus[e].run <= run.n)'
    <3>1. ASSUME NEW e \in DOMAIN bus'
          PROVE  bus'[e].run <= run'.n
      BY <1>1, <1>4, <1>5, <1>7 DEF EventsInOrder, Grown
    <3> QED BY <3>1
  <2>2. (run.steps = 0 => \A s \in DOMAIN bus : ~RunStep(s))'
    BY <1>1, <1>5, <1>7 DEF EventsInOrder
  <2>3. (run.live <=> \A e \in DOMAIN bus : ~RunEnd(e))'
    <3>1. new \in DOMAIN bus'
      BY <1>3, <1>4
    <3> QED BY <1>5, <1>7, <3>1
  <2>4. (\A e, s \in DOMAIN bus : RunEnd(e) /\ RunStep(s) => s < e)'
    <3>1. ASSUME NEW e \in DOMAIN bus', NEW s \in DOMAIN bus', RunEnd(e)', RunStep(s)'
          PROVE  s < e
      <4>1. e = new /\ s # new
        BY <1>7, <3>1
      <4> QED BY <1>3, <1>4, <4>1
    <3> QED BY <3>1
  <2>5. (\A i \in Instances : pos[i] <= Len(bus))'
    <3>1. \A i \in Instances : pos[i] \in Nat /\ pos[i] <= Len(bus)
      BY <1>1, LatestIs DEF EventsInOrder
    <3> QED BY <1>3, <1>4, <1>6, <3>1
  <2>6. (\A i \in Instances : handling[i] # Nil => bus[handling[i].step].kind \in StepKinds)'
    <3>1. \A i \in Instances : handling[i] # Nil =>
             handling[i].step \in DOMAIN bus /\ bus[handling[i].step].kind \in StepKinds
      BY <1>1, LatestIs DEF EventsInOrder
    <3> QED BY <1>4, <1>6, <3>1 DEF Grown
  <2>7. (\A k \in world.seen : k[2] = "end" => k[3] \in DOMAIN bus)'
    BY <1>1, <1>4, <1>6 DEF EventsInOrder, Grown
  <2> QED BY <2>1, <2>2, <2>3, <2>4, <2>5, <2>6, <2>7 DEF EventsInOrder
<1>9. ASSUME Settled'
      PROVE  Onward'
  <2>1. Onward
    BY <1>6, <1>9 DEF EndInv, Settled, Latest
  <2>2. Calm(world', world)
    BY <1>6 DEF Calm
  <2>3. FoldsStay
    BY <1>1 DEF FoldsStay
  <2>4. EndsDelivered
    <3>1. ASSUME NEW d \in Dirs, NEW e \in DOMAIN bus', RunEnd(e)', <<d, "end", e>> \in world.seen
          PROVE  FALSE
      <4>1. e \in DOMAIN bus
        <5>1. PICK k \in world.seen : k = <<d, "end", e>>
          BY <3>1
        <5>2. k[2] = "end" /\ k[3] = e
          BY <5>1
        <5> QED BY <1>1, <5>1, <5>2 DEF EventsInOrder
      <4> QED BY <1>3, <1>4, <1>7, <3>1, <4>1
    <3> QED BY <1>6, <3>1 DEF EndsDelivered
  <2>5. \A d \in Dirs : LeftIn(world', d, Latest) => world'.last[d] = Latest
    BY <1>6, <2>1 DEF Onward
  <2>6. ASSUME NEW i \in Instances
        PROVE  PricesLatest(i)'
    <3> SUFFICES ASSUME handling'[i] # Nil, RunStep(handling[i].step)'
                 PROVE  handling'[i].attempt = Latest'
      BY DEF PricesLatest
    <3>1. handling[i].step \in DOMAIN bus /\ handling[i] # Nil
      BY <1>6, LatestIs
    <3>2. RunStep(handling[i].step)
      BY <1>4, <1>5, <1>6, <3>1 DEF RunStep, Grown
    <3> QED BY <1>6, <2>1, <3>1, <3>2 DEF Onward, PricesLatest, Latest
  <2>7. \A i \in Instances, d \in Dirs : TakenBy(i, d)
    BY <1>6 DEF TakenBy
  <2>8. (\A i \in Instances : pos'[i] <= Len(bus)) /\ PositionsKept
    BY <1>1, <1>6, PositionsMove DEF EventsInOrder
  <2> QED BY <1>1, <1>4, <1>5, <1>6, <2>1, <2>2, <2>3, <2>4, <2>5, <2>6, <2>7, <2>8, OnwardKept
<1> QED BY <1>8, <1>9 DEF EndInv


\* Between two runs nothing of the next one is on the bus.
LEMMA NextEvents ==
  ASSUME IngestInv, EventsInOrder, run' = NextRun, bus' = bus, pos' = pos, handling' = handling,
         world'.seen = world.seen
  PROVE  EventsInOrder' /\ \A s \in DOMAIN bus : ~RunStep(s)' /\ ~RunEnd(s)'
<1>1. PICK r : r = run.n + 1
  OBVIOUS
<1>2. run'.n = r /\ run'.live /\ run'.steps = 0
  <2>1. run \in ChildType
    BY Registering
  <2> QED BY <1>1, <2>1 DEF NextRun, ChildType
<1>3. run.n \in Nat /\ bus \in Seq(Event)
  BY Registering
<1>4. \A e \in DOMAIN bus : bus[e].run \in Nat /\ bus[e].run <= run.n
  <2>1. ASSUME NEW e \in DOMAIN bus
        PROVE  bus[e] \in Event
    BY <1>3
  <2> QED BY <2>1 DEF EventsInOrder, Event
<1>5. \A e \in DOMAIN bus : bus[e].run <= r /\ bus[e].run # r
  BY <1>1, <1>3, <1>4
<1>6. \A s \in DOMAIN bus : ~RunStep(s)' /\ ~RunEnd(s)'
  BY <1>2, <1>5 DEF RunStep, RunEnd
<1>7. (\A e \in DOMAIN bus : bus[e].run <= run.n)'
  BY <1>2, <1>5
<1>8. (run.live <=> \A e \in DOMAIN bus : ~RunEnd(e))'
  BY <1>2, <1>6
<1>9. /\ (run.steps = 0 => \A s \in DOMAIN bus : ~RunStep(s))'
      /\ (\A e, s \in DOMAIN bus : RunEnd(e) /\ RunStep(s) => s < e)'
  BY <1>6
<1>10. /\ (\A i \in Instances : pos[i] <= Len(bus))'
       /\ (\A i \in Instances : handling[i] # Nil => bus[handling[i].step].kind \in StepKinds)'
       /\ (\A k \in world.seen : k[2] = "end" => k[3] \in DOMAIN bus)'
  BY DEF EventsInOrder
<1> QED BY <1>6, <1>7, <1>8, <1>9, <1>10 DEF EventsInOrder

\* Nothing is left of an attempt that is not registered.
LEMMA NothingLeft ==
  ASSUME IngestInv, NEW a \in Registrations, a \notin DOMAIN attempts, NEW d \in Dirs
  PROVE  ~LeftIn(world, d, a)
<1>1. StepsSound(world, {}) /\ WorldType(world)
  BY DEF IngestInv, Good
<1>2. ASSUME NEW h \in HeldFor(world, d, a)
      PROVE  FALSE
  BY <1>1 DEF HeldFor, StepsSound, HeldSound, Own
<1>3. ASSUME world.store[d].open[a] # <<>>
      PROVE  FALSE
  <2>1. PICK o : o = world.store[d].open[a]
    OBVIOUS
  <2>2. o \in Seq(Nat)
    BY <1>1, <2>1 DEF WorldType, StoreType
  <2>3. 1 \in DOMAIN o
    BY <1>3, <2>1, <2>2
  <2>4. o[1] \in StepSet(o)
    BY <2>3 DEF StepSet
  <2>5. Own(a, o[1])
    BY <1>1, <2>1, <2>4 DEF StepsSound, OpensSound
  <2> QED BY <2>5 DEF Own
<1> QED BY <1>2, <1>3 DEF LeftIn

\* A registration before the run's first step starts with nothing to fold.
LEMMA RegisteredEnds ==
  ASSUME IngestInv, EventsInOrder, NEW n, n = Len(attempts) + 1, n \in Registrations,
         NEW r, NEW c, attempts' = NewAttempt(attempts, r, c), run'.n = r,
         Registered(world', world, n), bus' = bus, handling' = handling,
         c => \A s \in DOMAIN bus : ~RunStep(s)', moved' = Unsettled
  PROVE  Settled' => Onward'
<1> SUFFICES ASSUME Settled' PROVE Onward'
  OBVIOUS
<1>1. /\ Latest' = n /\ attempts'[n].runs = {r} /\ attempts'[n].clean = c /\ n \notin DOMAIN attempts
  <2>1. PICK l, x : l = Untaken /\ x = [runs |-> {r}, clean |-> c, late |-> l]
    OBVIOUS
  <2>2. attempts' = Append(attempts, x) /\ x.runs = {r} /\ x.clean = c
    BY <2>1 DEF NewAttempt
  <2>3. Len(attempts) \in Nat /\ DOMAIN attempts = 1..Len(attempts) /\ attempts \in Seq(AttemptType)
    BY Registering
  <2>4. Len(attempts') = n /\ attempts'[n] = x /\ n \notin DOMAIN attempts
    BY <2>2, <2>3
  <2> QED BY <2>2, <2>4 DEF Latest
<1>2. c /\ Unsettled = {}
  BY <1>1 DEF Settled
<1>3. \A s \in DOMAIN bus' : ~RunStep(s)'
  BY <1>2
<1>4. \A d \in Dirs : ~LeftIn(world', d, n)
  BY <1>1, NothingLeft DEF Registered
<1>5. \A d \in Dirs : FoldedIn(world, d)'
  BY <1>1, <1>3, <1>4 DEF FoldedIn, LeftIn, HeldFor
<1>6. \A i \in Instances : Steady(world, i)'
  BY <1>2 DEF Unsettled, Steady, Registered, settings
<1>7. \A d \in Dirs : LeftIn(world, d, Latest)' => world'.last[d] = Latest'
  BY <1>1, <1>4 DEF LeftIn, HeldFor
<1>8. ASSUME NEW i \in Instances
      PROVE  PricesLatest(i)'
  <2>1. handling'[i] # Nil => handling'[i].step \in DOMAIN bus'
    BY LatestIs
  <2> QED BY <1>3, <2>1 DEF PricesLatest, RunStep
<1>9. (attempts[Latest].runs = {run.n})'
  BY <1>1
<1> QED BY <1>3, <1>5, <1>6, <1>7, <1>8, <1>9 DEF Onward


LEMMA UnchangedEvents ==
  ASSUME IngestInv, EventsInOrder, run' = run, bus' = bus, pos' = pos, handling' = handling,
         world'.seen = world.seen
  PROVE  EventsInOrder'
<1>1. /\ (\A e \in DOMAIN bus : bus[e].run <= run.n)'
      /\ (run.steps = 0 => \A s \in DOMAIN bus : ~RunStep(s))'
      /\ (run.live <=> \A e \in DOMAIN bus : ~RunEnd(e))'
      /\ (\A e, s \in DOMAIN bus : RunEnd(e) /\ RunStep(s) => s < e)'
  BY DEF EventsInOrder, RunStep, RunEnd
<1>2. /\ (\A i \in Instances : pos[i] <= Len(bus))'
      /\ (\A i \in Instances : handling[i] # Nil => bus[handling[i].step].kind \in StepKinds)'
      /\ (\A k \in world.seen : k[2] = "end" => k[3] \in DOMAIN bus)'
  BY DEF EventsInOrder
<1> QED BY <1>1, <1>2 DEF EventsInOrder

LEMMA RegisterEnds ==
  ASSUME IngestInv, EndInv, Register
  PROVE  EndInv'
<1>1. PICK n : n = Len(attempts) + 1
  OBVIOUS
<1>2. attempts = <<>> /\ n = 1 /\ n \in Registrations /\ run.n \in Nat
  BY <1>1, Registering DEF Register, Registrations
<1>3. PICK c \in BOOLEAN : c = (run.steps = 0)
  OBVIOUS
<1>4. PICK f \in BOOLEAN : f = FALSE
  OBVIOUS
<1>5. /\ world' = record(world, n, run.n, f) /\ attempts' = NewAttempt(attempts, run.n, c)
      /\ run' = run /\ bus' = bus /\ pos' = pos /\ handling' = handling /\ moved' = Unsettled
  BY <1>2, <1>3, <1>4 DEF Register
<1>6. Registered(world', world, n)
  <2>1. PICK v : v = world'
    OBVIOUS
  <2>2. Registered(v, world, n)
    BY <1>2, <1>5, <2>1, Registering, RecordSound
  <2> QED BY <2>1, <2>2
<1>7. EventsInOrder /\ EventsInOrder'
  BY <1>5, <1>6, UnchangedEvents DEF EndInv, Registered
<1>8. c => \A s \in DOMAIN bus : ~RunStep(s)'
  BY <1>3, <1>5, <1>7 DEF EventsInOrder
<1>9. run'.n = run.n
  BY <1>5
<1>10. Settled' => Onward'
  BY <1>1, <1>2, <1>5, <1>6, <1>7, <1>8, <1>9, RegisteredEnds
<1> QED BY <1>7, <1>10 DEF EndInv

LEMMA ResumeEnds ==
  ASSUME IngestInv, EndInv, ResumeRegistered
  PROVE  EndInv'
<1>1. PICK n, r : n = Len(attempts) + 1 /\ r = run.n + 1
  OBVIOUS
<1>2. n \in Registrations /\ r \in Nat
  <2>1. /\ run.n \in Nat /\ Len(attempts) \in Nat /\ Len(attempts) <= run.n + troubles /\ troubles \in Nat
        /\ troubles <= scenario.troubles /\ scenario.runs \in Nat /\ scenario.troubles \in Nat
        /\ scenario.runs + scenario.troubles <= MaxRegistrations /\ MaxRegistrations \in Nat
    BY Registering
  <2>2. run.n < scenario.runs
    BY DEF ResumeRegistered
  <2>3. n \in 1..MaxRegistrations /\ r \in Nat
    BY <1>1, <2>1, <2>2
  <2> QED BY <2>3 DEF Registrations
<1>3. PICK c \in BOOLEAN : c = TRUE
  OBVIOUS
<1>4. PICK f \in BOOLEAN : f = FALSE
  OBVIOUS
<1>5. /\ world' = record(world, n, r, f) /\ attempts' = NewAttempt(attempts, r, c)
      /\ run' = NextRun /\ bus' = bus /\ pos' = pos /\ handling' = handling /\ moved' = Unsettled
  BY <1>1, <1>3, <1>4 DEF ResumeRegistered
<1>6. Registered(world', world, n)
  <2>1. PICK v : v = world'
    OBVIOUS
  <2>2. Registered(v, world, n)
    BY <1>2, <1>5, <2>1, Registering, RecordSound
  <2> QED BY <2>1, <2>2
<1>7. EventsInOrder /\ EventsInOrder' /\ \A s \in DOMAIN bus : ~RunStep(s)'
  BY <1>5, <1>6, NextEvents DEF EndInv, Registered
<1>8. run'.n = r
  BY <1>1, <1>5, NextRunIs
<1>9. Settled' => Onward'
  BY <1>1, <1>2, <1>5, <1>6, <1>7, <1>8, RegisteredEnds
<1> QED BY <1>7, <1>9 DEF EndInv

\* A corrected claim and an unregistered resume leave the end to the sweep.
LEMMA OthersEnd ==
  ASSUME IngestInv, EndInv, Correct \/ ResumeUnregistered
  PROVE  EndInv'
<1>1. PICK n : n = Len(attempts)
  OBVIOUS
<1>2. n \in Nat /\ n \in DOMAIN attempts /\ DOMAIN attempts = 1..n /\ attempts \in Seq(AttemptType)
  <2>1. attempts # <<>>
    BY DEF Correct, ResumeUnregistered
  <2>2. attempts \in Seq(AttemptType) /\ n \in Nat /\ DOMAIN attempts = 1..n
    BY <1>1, Registering
  <2>3. n # 0
    BY <1>1, <2>1, <2>2
  <2> QED BY <2>2, <2>3
<1>3. CASE Correct
  <2>1. PICK A : A = [attempts EXCEPT ![n].clean = FALSE]
    OBVIOUS
  <2>2. PICK l, x : l = Untaken /\ x = [runs |-> {run.n}, clean |-> FALSE, late |-> l]
    OBVIOUS
  <2>3. attempts' = Append(A, x) /\ x.clean = FALSE
    BY <1>1, <1>3, <2>1, <2>2 DEF Correct, NewAttempt
  <2>4. \E B \in Seq({A[a] : a \in 1..n}) : B = A /\ Len(A) = n
    BY <1>2, <2>1
  <2>5. Len(attempts') = n + 1 /\ attempts'[n + 1] = x
    BY <1>2, <2>3, <2>4
  <2>6. ~Settled'
    BY <2>3, <2>5 DEF Settled, Latest
  <2>7. PICK f \in BOOLEAN : f = TRUE
    OBVIOUS
  <2>8. /\ world' = record(world, n + 1, run.n, f) /\ run' = run /\ bus' = bus /\ pos' = pos
        /\ handling' = handling
    BY <1>1, <1>3, <2>7 DEF Correct
  <2>9. n + 1 \in Registrations /\ run.n \in Nat
    BY <1>1, <1>3, Registering DEF Correct, Disturbance, Registrations
  <2>10. world'.seen = world.seen
    <3>1. PICK v : v = world'
      OBVIOUS
    <3>2. Registered(v, world, n + 1)
      BY <2>8, <2>9, <3>1, Registering, RecordSound
    <3> QED BY <3>1, <3>2 DEF Registered
  <2>11. EventsInOrder'
    BY <2>8, <2>10, UnchangedEvents DEF EndInv
  <2> QED BY <2>6, <2>11 DEF EndInv
<1>4. CASE ResumeUnregistered
  <2>0. PICK f \in BOOLEAN : f = FALSE
    OBVIOUS
  <2>1. PICK x : x = [runs |-> attempts[n].runs \union {run.n + 1}, clean |-> f, late |-> attempts[n].late]
    OBVIOUS
  <2>2. attempts' = [attempts EXCEPT ![n] = x] /\ x.clean = FALSE
    BY <1>1, <1>4, <2>0, <2>1 DEF ResumeUnregistered
  <2>3. Len(attempts') = n /\ attempts'[n] = x
    BY <1>2, <2>2
  <2>4. ~Settled'
    BY <2>2, <2>3 DEF Settled, Latest
  <2>5. world' = world /\ run' = NextRun /\ bus' = bus /\ pos' = pos /\ handling' = handling
    BY <1>4 DEF ResumeUnregistered
  <2>6. EventsInOrder'
    BY <2>5, NextEvents DEF EndInv
  <2> QED BY <2>4, <2>6 DEF EndInv
<1> QED BY <1>3, <1>4


LEMMA TidyKeeps ==
  ASSUME IngestInv, EndInv, Tidies(world', world), attempts' = attempts, moved' = moved, Grown, OthersCome,
         run'.n = run.n, run'.steps = run.steps, run'.live = run.live, PositionsKept, TakesOthers, StillAwaits
  PROVE  EndInv'
<1>1. Settled' => Settled
  BY DEF Settled, Latest
<1>2. PICK v : v = world'
  OBVIOUS
<1>3. Tidies(v, world)
  BY <1>2
<1>4. Calm(v, world) /\ v.seen = world.seen /\ \A d \in Dirs, a \in Registrations : Lasts(v, world, d, a)
  BY <1>3, CalmHosts DEF Tidies
<1> QED BY <1>1, <1>2, <1>4, QuietKeeps

LEMMA TakesNothing ==
  ASSUME IngestInv, EndInv, pos' = pos
  PROVE  PositionsKept /\ TakesOthers
<1>1. \A i \in Instances : pos[i] \in Nat /\ pos[i] <= Len(bus)
  BY LatestIs DEF EndInv, EventsInOrder
<1> QED BY <1>1, PositionsMove DEF TakesOthers

LEMMA OnlyDue ==
  ASSUME IngestInv,
         \/ run' = run
         \/ \E gone : run' = [run EXCEPT !.gone = gone]
         \/ \E n, due : run' = [run EXCEPT !.due[n] = due]
  PROVE  run'.n = run.n /\ run'.steps = run.steps /\ run'.live = run.live
<1>1. run \in ChildType
  BY Registering
<1> QED BY <1>1 DEF ChildType

\* What the host and the instances do besides: the judgement, a chat message, the catalog, time.
LEMMA QuietEnds ==
  ASSUME IngestInv, EndInv,
         \/ UNCHANGED ivars \/ Delete \/ \E long \in BOOLEAN : Silence(long)
         \/ \E n \in Registrations : Judges(n)
         \/ \E i \in Instances : \/ ChatMessage(i) \/ LoadDone(i) \/ CatalogFails(i)
                                 \/ WaitTimesOut(i) \/ TimePasses(i)
  PROVE  EndInv'
<1>0. \/ UNCHANGED ivars \/ Delete \/ \E long \in BOOLEAN : Silence(long)
      \/ \E n, due : Judging(n, due, world')
      \/ \E i \in Instances : \/ ChatMessage(i) \/ LoadDone(i) \/ CatalogFails(i)
                              \/ WaitTimesOut(i) \/ TimePasses(i)
  BY JudgesIs
<1>1. attempts' = attempts /\ moved' = moved /\ pos' = pos
  BY <1>0 DEF ivars, Delete, Silence, Judging, ChatMessage, LoadDone, CatalogFails, WaitTimesOut, TimePasses
<1>2. handling' = handling \/ \E i \in Instances : handling' = Resolved(i)
  BY <1>0 DEF ivars, Delete, Silence, Judging, ChatMessage, LoadDone, CatalogFails, WaitTimesOut, TimePasses
<1>3. \/ run' = run
      \/ \E gone : run' = [run EXCEPT !.gone = gone]
      \/ \E n, due : run' = [run EXCEPT !.due[n] = due]
  BY <1>0 DEF ivars, Delete, Silence, Judging, ChatMessage, LoadDone, CatalogFails, WaitTimesOut, TimePasses
<1>4. bus' = bus \/ Emit("gone") \/ Emit("idle")
  BY <1>0 DEF ivars, Delete, Silence, Judging, ChatMessage, LoadDone, CatalogFails, WaitTimesOut, TimePasses
<1>5. Grown /\ OthersCome
  <2>1. CASE bus' = bus
    BY <2>1, BusKept DEF OthersCome
  <2>2. ASSUME NEW kind \in {"gone", "idle"}, Emit(kind)
        PROVE  Grown /\ OthersCome
    <3>1. kind \in EventKinds /\ kind \in Others
      BY DEF EventKinds, Others, StepKinds
    <3>2. PICK new : new = Len(bus) + 1
      OBVIOUS
    <3>3. /\ Grown /\ DOMAIN bus = 1..Len(bus) /\ Len(bus) \in Nat
          /\ DOMAIN bus' = 1..(Len(bus) + 1) /\ bus'[Len(bus) + 1].kind = kind
      BY <2>2, <3>1, EmitIs
    <3>4. \A e \in DOMAIN bus' \ DOMAIN bus : e = Len(bus) + 1
      BY <3>3
    <3> QED BY <3>1, <3>3, <3>4 DEF OthersCome
  <2> QED BY <1>4, <2>1, <2>2
<1>6. Tidies(world', world)
  <2>1. CASE world' = world
    BY <2>1, TidiesItself
  <2>2. CASE \E long \in BOOLEAN : Silence(long)
    BY <2>2, SilenceSound
  <2>3. CASE \E n \in Registrations : Judges(n)
    BY <2>3, JudgesMove
  <2>4. CASE \E i \in Instances : ChatMessage(i)
    BY <2>4, ChatMoves
  <2> QED BY <2>1, <2>2, <2>3, <2>4 DEF ivars, Delete, LoadDone, CatalogFails, WaitTimesOut, TimePasses
<1>7. PositionsKept /\ TakesOthers /\ StillAwaits
  BY <1>1, <1>2, TakesNothing, AwaitsStill
<1>8. run'.n = run.n /\ run'.steps = run.steps /\ run'.live = run.live
  BY <1>3, OnlyDue
<1> QED BY <1>1, <1>5, <1>6, <1>7, <1>8, TidyKeeps

\* An instance that is disposed of no longer records; one whose settings change unsettles the run.
LEMMA HostsEnd ==
  ASSUME IngestInv, EndInv, NEW i \in Instances, Dispose(i) \/ \E s \in Dirs \union {Off} : Switch(i, s)
  PROVE  EndInv'
<1>1. attempts' = attempts /\ pos' = pos /\ run' = run /\ bus' = bus
      /\ (handling' = handling \/ handling' = Resolved(i))
  BY DEF Dispose, Switch
<1>2. PositionsKept /\ TakesOthers /\ StillAwaits
  BY <1>1, TakesNothing, AwaitsStill
<1>3. Grown /\ OthersCome
  BY <1>1, BusKept DEF OthersCome
<1>4. CASE Dispose(i)
  <2>1. PICK v : v = world'
    OBVIOUS
  <2>2. Disposed(v, world, i)
    BY <1>4, <2>1, DisposeMoves
  <2>3. Calm(v, world)
    <3>1. \A j \in Instances : ~v.inst[j].disposed => ~world.inst[j].disposed /\ settings(v, j) = settings(world, j)
      BY <2>2 DEF Disposed
    <3> QED BY <2>2, <3>1 DEF Disposed, Calm, Untracked
  <2>4. Settled' => Settled
    BY <1>1, <1>4 DEF Dispose, Settled, Latest
  <2>5. v.seen = world.seen /\ \A d \in Dirs, a \in Registrations : Lasts(v, world, d, a)
    BY <2>2 DEF Disposed
  <2> QED BY <1>1, <1>2, <1>3, <2>1, <2>3, <2>4, <2>5, QuietKeeps
<1>5. CASE \E s \in Dirs \union {Off} : Switch(i, s)
  <2>1. ~Settled'
    BY <1>5 DEF Switch, Settled
  <2>2. world'.seen = world.seen
    BY <1>5 DEF Switch, IngestInv, Good, WorldType
  <2>3. handling' = handling
    BY <1>5 DEF Switch
  <2>4. EventsInOrder'
    BY <1>1, <2>2, <2>3, UnchangedEvents DEF EndInv
  <2> QED BY <2>1, <2>4 DEF EndInv
<1> QED BY <1>4, <1>5


Takes(i, e) ==
  /\ PositionsKept /\ e \in DOMAIN bus /\ e \in Nat /\ ~(e <= pos[i]) /\ pos'[i] = e
  /\ \A j \in Instances : pos[j] <= pos'[j] /\ pos'[j] <= Len(bus)
  /\ \A s \in DOMAIN bus : s < e => s <= pos[i]
  /\ \A j \in Instances, s \in DOMAIN bus : s <= pos'[j] => s <= pos[j] \/ (j = i /\ s = e)

LEMMA TakesNext ==
  ASSUME IngestInv, EventsInOrder, NEW i \in Instances, pos[i] < Len(bus),
         NEW e, e = pos[i] + 1, pos' = [pos EXCEPT ![i] = e]
  PROVE  Takes(i, e)
<1>1. pos \in [Instances -> Nat] /\ DOMAIN bus = 1..Len(bus) /\ Len(bus) \in Nat
  BY Registering DEF IngestInv, StepsOnTheirWay
<1>2. e \in Nat /\ e \in DOMAIN bus /\ e > pos[i]
  BY <1>1
<1>3. PositionsKept
  BY PositionsMove
<1>4. pos'[i] = e /\ \A j \in Instances \ {i} : pos'[j] = pos[j]
  BY <1>1
<1>5. \A j \in Instances : pos[j] <= pos'[j] /\ pos'[j] <= Len(bus)
  BY <1>1, <1>2, <1>4 DEF EventsInOrder
<1>6. ASSUME NEW j \in Instances, NEW s \in DOMAIN bus, s <= pos'[j]
      PROVE  s <= pos[j] \/ (j = i /\ s = e)
  <2>1. CASE j = i
    BY <1>1, <1>2, <1>4, <1>6, <2>1
  <2>2. CASE j # i
    BY <1>4, <1>6, <2>2
  <2> QED BY <2>1, <2>2
<1>7. ASSUME NEW s \in DOMAIN bus, s < e
      PROVE  s <= pos[i]
  BY <1>1, <1>7
<1> QED BY <1>1, <1>2, <1>3, <1>4, <1>5, <1>6, <1>7 DEF Takes

LEMMA GoneEnds ==
  ASSUME IngestInv, EndInv, NEW i \in Instances, TakeGone(i)
  PROVE  EndInv'
<1>1. PICK e : e = pos[i] + 1
  OBVIOUS
<1>2. /\ pos[i] < Len(bus) /\ pos' = [pos EXCEPT ![i] = e] /\ bus[e].kind = "gone" /\ ~world.inst[i].disposed
      /\ world' = onSessionGone(world, i) /\ attempts' = attempts /\ moved' = moved /\ bus' = bus
      /\ run' = run /\ handling' = handling
  BY <1>1 DEF TakeGone, Pending
<1>3. PICK v : v = world'
  OBVIOUS
<1>4. Good(world, {})
  BY DEF IngestInv
<1>5. Tidies(v, world)
  BY <1>2, <1>3, <1>4, GoneSound
<1>6. bus[e].kind \in Others
  BY <1>2 DEF Others, EventKinds, StepKinds
<1>7. PositionsKept /\ TakesOthers
  <2>1. EventsInOrder /\ pos[i] < Len(bus) /\ pos' = [pos EXCEPT ![i] = e]
    BY <1>2 DEF EndInv
  <2>2. Takes(i, e)
    BY <1>1, <2>1, TakesNext
  <2> QED BY <1>6, <2>2 DEF Takes, TakesOthers
<1>8. Grown /\ OthersCome /\ StillAwaits
  BY <1>2, BusKept, AwaitsStill DEF OthersCome
<1> QED BY <1>2, <1>3, <1>5, <1>7, <1>8, TidyKeeps

LEMMA TakeStepEnds ==
  ASSUME IngestInv, EndInv, IngestInv', NEW i \in Instances, TakeStep(i)
  PROVE  EndInv'
<1>1. PICK e : e = pos[i] + 1
  OBVIOUS
<1>2. PICK c : c = Looked(catalog[i])
  OBVIOUS
<1>3. PICK w : w = IF bus[e].kind = "failed" THEN world ELSE noteStepContext(world, e)
  OBVIOUS
<1>4. /\ pos[i] < Len(bus) /\ pos' = [pos EXCEPT ![i] = e] /\ bus[e].kind \in StepKinds
      /\ ~world.inst[i].disposed /\ handling[i] = Nil
      /\ world' = w /\ attempts' = attempts /\ moved' = moved /\ bus' = bus /\ run' = run
      /\ IF targetOf(w, i)
         THEN handling' = [handling EXCEPT ![i] =
                 [step |-> e, attempt |-> w.slot.attempt, wait |-> Waits(c)]]
         ELSE handling' = handling
  BY <1>1, <1>2, <1>3 DEF TakeStep, Pending
<1>5. Good(world, {}) /\ EventsInOrder /\ Grown /\ handling = [j \in Instances |-> handling[j]]
  BY <1>4, BusKept DEF IngestInv, StepsOnTheirWay, EndInv
<1>6. /\ PositionsKept /\ e \in DOMAIN bus /\ e \in Nat /\ ~(e <= pos[i]) /\ pos'[i] = e
      /\ \A j \in Instances : pos[j] <= pos'[j] /\ pos'[j] <= Len(bus)
      /\ \A s \in DOMAIN bus : s < e => s <= pos[i]
      /\ \A j \in Instances, s \in DOMAIN bus : s <= pos'[j] => s <= pos[j] \/ (j = i /\ s = e)
  <2>1. EventsInOrder /\ pos[i] < Len(bus) /\ pos' = [pos EXCEPT ![i] = e]
    BY <1>4, <1>5
  <2>2. Takes(i, e)
    BY <1>1, <2>1, TakesNext
  <2> QED BY <2>2 DEF Takes
<1>7. Tidies(w, world)
  <2>1. CASE bus[e].kind = "failed"
    BY <1>3, <2>1, TidiesItself
  <2>2. CASE bus[e].kind # "failed"
    <3>1. w = noteStepContext(world, e)
      BY <1>3, <2>2
    <3> QED BY <1>5, <1>6, <3>1, NotedSound
  <2> QED BY <2>1, <2>2
<1>8. /\ Calm(w, world) /\ w.seen = world.seen /\ settings(w, i) = settings(world, i)
      /\ \A d \in Dirs, a \in Registrations : Lasts(w, world, d, a)
  BY <1>7, CalmHosts DEF Tidies, SameHosts
<1>9. w.slot # Nil => w.slot.attempt = Latest
  <2>1. world'.slot # Nil => world'.slot.attempt = Latest'
    BY DEF IngestInv, StepsOnTheirWay, Latest
  <2> QED BY <1>4, <2>1 DEF Latest
<1>10. /\ targetOf(w, i) => /\ handling'[i] # Nil /\ handling'[i].step = e
                            /\ handling'[i].attempt = w.slot.attempt
       /\ ~targetOf(w, i) => handling'[i] = Nil
       /\ \A j \in Instances \ {i} : handling'[j] = handling[j]
  <2>1. CASE ~targetOf(w, i)
    BY <1>4, <2>1
  <2>2. CASE targetOf(w, i)
    <3>1. PICK h : h = [step |-> e, attempt |-> w.slot.attempt, wait |-> Waits(c)]
      OBVIOUS
    <3>2. handling' = [handling EXCEPT ![i] = h]
      BY <1>4, <2>2, <3>1
    <3>3. w.slot.attempt \in Nat
      <4>1. w.slot # Nil
        BY <2>2 DEF targetOf
      <4> QED BY <1>9, <4>1, Registering DEF Latest
    <3>4. Waits(c) \in BOOLEAN
      BY DEF Waits
    <3>5. h \in [step : Nat, attempt : Nat, wait : BOOLEAN]
      BY <1>6, <3>1, <3>3, <3>4
    <3>6. h # Nil
      BY <3>5, IngestAssumption
    <3> QED BY <1>5, <2>2, <3>1, <3>2, <3>6
  <2> QED BY <2>1, <2>2
<1>11. EventsInOrder'
  <2>1. \A j \in Instances : handling'[j] # Nil =>
          handling'[j].step \in DOMAIN bus /\ bus[handling'[j].step].kind \in StepKinds
    BY <1>4, <1>5, <1>6, <1>10, LatestIs DEF EventsInOrder
  <2>2. \A k \in world'.seen : k[2] = "end" => k[3] \in DOMAIN bus
    BY <1>4, <1>5, <1>8 DEF EventsInOrder
  <2>3. OthersCome
    BY <1>4 DEF OthersCome
  <2> QED BY <1>4, <1>5, <1>6, <2>1, <2>2, <2>3, EventsKept
<1>12. ASSUME Settled'
       PROVE  Onward'
  <2>1. Onward /\ Latest \in Registrations
    BY <1>4, <1>12, LatestIs DEF EndInv, Settled, Latest
  <2>2. FoldsStay
    <3>1. \A s \in DOMAIN bus' : RunStep(s)' => RunStep(s)
      BY <1>4 DEF RunStep
    <3>2. ASSUME NEW d \in Dirs, FoldedIn(world, d)
          PROVE  FoldedIn(world, d)'
      BY <1>4, <1>8, <2>1, <3>1, <3>2, FoldedStays
    <3> QED BY <3>2 DEF FoldsStay
  <2>3. EndsDelivered
    BY <1>4, <1>8 DEF EndsDelivered, RunEnd
  <2>4. \A d \in Dirs : LeftIn(world', d, Latest) => world'.last[d] = Latest
    BY <1>4, <1>8, <2>1 DEF Onward, Lasts
  <2>5. ASSUME NEW j \in Instances
        PROVE  PricesLatest(j)'
    <3>1. CASE j = i
      BY <1>4, <1>9, <1>10, <3>1 DEF PricesLatest, targetOf, Latest
    <3>2. CASE j # i
      <4>1. handling'[j] = handling[j] /\ PricesLatest(j)
        BY <1>10, <2>1, <3>2 DEF Onward
      <4> QED BY <1>4, <4>1 DEF PricesLatest, RunStep, Latest
    <3> QED BY <3>1, <3>2
  <2>6. ASSUME NEW j \in Instances, NEW d \in Dirs, Works(j, d)
        PROVE  TakenBy(j, d)
    <3>1. ASSUME NEW s \in DOMAIN bus, s <= pos'[j], RunStep(s),
                 s <= pos[j] => handling[j] # Nil /\ handling[j].step = s
          PROVE  Placed(world', d, s) \/ (handling'[j] # Nil /\ handling'[j].step = s)
      <4>1. CASE j = i
        <5>1. s = e
          BY <1>4, <1>6, <3>1, <4>1
        <5>2. CASE targetOf(w, i)
          BY <1>10, <4>1, <5>1, <5>2
        <5>3. CASE ~targetOf(w, i)
          <6>1. settings(w, i) # Off
            BY <1>8, <2>6, <4>1, IngestAssumption DEF Works
          <6> QED BY <1>4, <5>3, <6>1 DEF targetOf, Placed, Untracked
        <5> QED BY <5>2, <5>3
      <4>2. CASE j # i
        BY <1>6, <1>10, <3>1, <4>2
      <4> QED BY <4>1, <4>2
    <3>2. ASSUME NEW s \in DOMAIN bus, s <= pos'[j], RunEnd(s)
          PROVE  s <= pos[j]
      BY <1>4, <1>6, <3>2, <3>1 DEF RunEnd, StepKinds
    <3> QED BY <3>1, <3>2 DEF TakenBy
  <2>7. Calm(world', world) /\ run'.n = run.n
    BY <1>4, <1>8
  <2> QED BY <1>4, <1>5, <1>6, <2>1, <2>2, <2>3, <2>4, <2>5, <2>6, <2>7, OnwardKept
<1> QED BY <1>11, <1>12 DEF EndInv


LEMMA PricedEnds ==
  ASSUME IngestInv, EndInv, NEW i \in Instances, Priced(i)
  PROVE  EndInv'
<1>1. Good(world, {}) /\ EventsInOrder /\ StepsOnTheirWay
  BY DEF IngestInv, EndInv
<1>2. PICK h : h = handling[i]
  OBVIOUS
<1>3. PICK a, e : a = h.attempt /\ e = h.step
  OBVIOUS
<1>4. handling[i] # Nil
  BY DEF Priced
<1>5. /\ a \in Registrations /\ e \in Nat /\ Own(a, e) /\ e \in DOMAIN bus /\ bus[e].kind \in StepKinds
      /\ (bus[e].run \in attempts[a].runs \/ e \in attempts[a].late)
  BY <1>1, <1>2, <1>3, <1>4 DEF StepsOnTheirWay, PricedOwn, EventsInOrder, Own
<1>6. PICK kind, d : kind = bus[e].kind /\ d = settings(world, i)
  OBVIOUS
<1>7. PICK v : v = world'
  OBVIOUS
<1>8. v = onStepPriced(world, i, settings(world, i), a, e, kind)
  BY <1>2, <1>3, <1>6, <1>7 DEF Priced
<1>9. \/ Delivers(v, world, i, d, a, e)
      \/ v = world /\ (StepDue(world, i, a) => <<d, "step", e>> \in world.seen)
  <2>1. /\ Good(v, {})
        /\ \/ Delivers(v, world, i, settings(world, i), a, e)
           \/ v = world /\ (StepDue(world, i, a) => <<settings(world, i), "step", e>> \in world.seen)
    BY <1>1, <1>5, <1>8, PricedSound
  <2> QED BY <1>6, <2>1
<1>10. /\ handling' = [handling EXCEPT ![i] = Nil] /\ bus' = bus /\ run' = run
       /\ attempts' = attempts /\ moved' = moved /\ pos' = pos
  BY DEF Priced
<1>11. handling'[i] = Nil /\ \A j \in Instances \ {i} : handling'[j] = handling[j]
  BY <1>1, <1>10 DEF StepsOnTheirWay
<1>12. Calm(v, world)
  <2>1. SameHosts(v, world)
    BY <1>9, TidiesItself DEF Delivers, Tidies
  <2> QED BY <2>1, CalmHosts
<1>13. \A k \in v.seen : k[2] = "end" => k \in world.seen
  BY <1>9 DEF Delivers
<1>14. PositionsKept /\ (\A j \in Instances : pos'[j] <= Len(bus)) /\ Grown
  BY <1>1, <1>10, BusKept, PositionsMove DEF EventsInOrder
<1>15. EventsInOrder'
  <2>1. \A j \in Instances : handling'[j] # Nil =>
          handling'[j].step \in DOMAIN bus /\ bus[handling'[j].step].kind \in StepKinds
    BY <1>1, <1>11, LatestIs DEF EventsInOrder
  <2>2. \A k \in world'.seen : k[2] = "end" => k[3] \in DOMAIN bus
    BY <1>1, <1>7, <1>13 DEF EventsInOrder
  <2>3. OthersCome
    BY <1>10 DEF OthersCome
  <2> QED BY <1>1, <1>10, <1>14, <2>1, <2>2, <2>3, EventsKept
<1>16. ASSUME Settled'
       PROVE  Onward'
  <2>1. Onward /\ Latest \in Registrations /\ (world.slot # Nil => world.slot.attempt = Latest)
    BY <1>10, <1>16, LatestIs DEF EndInv, Settled, Latest
  <2>2. \A s \in DOMAIN bus' : (RunStep(s)' => RunStep(s)) /\ (RunEnd(s)' => RunEnd(s))
    BY <1>10 DEF RunStep, RunEnd
  <2>3. a = Latest => RunStep(e)
    <3>1. attempts[Latest].late = {}
      BY <1>10, <1>16 DEF Settled, Latest
    <3> QED BY <1>5, <2>1, <3>1 DEF Onward, RunStep
  <2>4. ASSUME Delivers(v, world, i, d, a, e)
        PROVE  ~FoldedIn(world, d) /\ a = Latest
    <3>1. a = Latest /\ ~Placed(world, d, e)
      BY <2>1, <2>4 DEF Delivers, StepDue, targetOf, Placed, Untracked
    <3> QED BY <1>5, <2>3, <3>1 DEF FoldedIn
  <2>5. FoldsStay
    <3> SUFFICES ASSUME NEW o \in Dirs, FoldedIn(world, o)
                 PROVE  FoldedIn(world, o)'
      BY DEF FoldsStay
    <3>1. Lasts(v, world, o, Latest)
      <4>1. CASE Delivers(v, world, i, d, a, e)
        <5>1. o # d
          BY <2>4, <4>1
        <5> QED BY <2>1, <4>1, <5>1 DEF Delivers
      <4>2. CASE v = world
        BY <4>2 DEF Lasts
      <4> QED BY <1>9, <4>1, <4>2
    <3> QED BY <1>7, <1>10, <1>12, <2>2, <3>1, FoldedStays
  <2>6. EndsDelivered
    <3> SUFFICES ASSUME NEW o \in Dirs, NEW x \in DOMAIN bus', RunEnd(x)', <<o, "end", x>> \in v.seen
                 PROVE  RunEnd(x) /\ <<o, "end", x>> \in world.seen
      BY <1>7 DEF EndsDelivered
    <3>1. PICK k : k = <<o, "end", x>>
      OBVIOUS
    <3>2. k[2] = "end" /\ k \in v.seen
      BY <3>1
    <3> QED BY <1>13, <2>2, <3>1, <3>2
  <2>7. \A o \in Dirs : LeftIn(world', o, Latest) => world'.last[o] = Latest
    <3> SUFFICES ASSUME NEW o \in Dirs, LeftIn(v, o, Latest)
                 PROVE  v.last[o] = Latest
      BY <1>7
    <3>1. CASE Delivers(v, world, i, d, a, e) /\ o = d
      BY <2>4, <3>1 DEF Delivers
    <3>2. CASE Delivers(v, world, i, d, a, e) /\ o # d
      <4>1. Lasts(v, world, o, Latest)
        BY <2>1, <3>2 DEF Delivers
      <4> QED BY <2>1, <4>1 DEF Lasts, Onward
    <3>3. CASE v = world
      BY <2>1, <3>3 DEF Onward
    <3> QED BY <1>9, <3>1, <3>2, <3>3
  <2>8. ASSUME NEW j \in Instances
        PROVE  PricesLatest(j)'
    <3>1. CASE j = i
      BY <1>11, <3>1 DEF PricesLatest
    <3>2. CASE j # i
      <4>1. handling'[j] = handling[j] /\ PricesLatest(j)
        BY <1>11, <2>1, <3>2 DEF Onward
      <4> QED BY <1>10, <4>1 DEF PricesLatest, RunStep, Latest
    <3> QED BY <3>1, <3>2
  <2>9. ASSUME NEW j \in Instances, NEW o \in Dirs, Works(j, o)
        PROVE  TakenBy(j, o)
    <3>1. ASSUME NEW s \in DOMAIN bus, s <= pos'[j], RunStep(s),
                 s <= pos[j] => handling[j] # Nil /\ handling[j].step = s
          PROVE  Placed(v, o, s) \/ (handling'[j] # Nil /\ handling'[j].step = s)
      <4>1. CASE j # i
        BY <1>10, <1>11, <3>1, <4>1
      <4>2. CASE j = i
        <5>1. s = e /\ o = d /\ a = Latest
          BY <1>2, <1>3, <1>6, <1>10, <2>1, <2>9, <3>1, <4>2 DEF Works, Onward, PricesLatest
        <5>2. CASE Delivers(v, world, i, d, a, e)
          BY <5>1, <5>2 DEF Delivers, Placed
        <5>3. CASE v = world /\ (StepDue(world, i, a) => <<d, "step", e>> \in world.seen)
          <6>1. settings(world, i) # Off /\ ~world.inst[i].disposed
            BY <2>9, <4>2, IngestAssumption DEF Works
          <6>2. StepDue(world, i, a) \/ Untracked(world)
            BY <2>1, <5>1, <6>1 DEF StepDue, targetOf, Untracked
          <6> QED BY <5>1, <5>3, <6>2 DEF Placed
        <5> QED BY <1>9, <5>2, <5>3
      <4> QED BY <4>1, <4>2
    <3>2. \A s \in DOMAIN bus : s <= pos'[j] => s <= pos[j]
      BY <1>10
    <3> QED BY <1>7, <3>1, <3>2 DEF TakenBy
  <2>10. Calm(world', world) /\ run'.n = run.n
    BY <1>7, <1>10, <1>12
  <2> QED BY <1>1, <1>10, <1>14, <2>1, <2>5, <2>6, <2>7, <2>8, <2>9, <2>10, OnwardKept
<1> QED BY <1>15, <1>16 DEF EndInv


\* What the flush of an end does: the last attempt of the instance's directory is closed, unless the
\* end has been delivered for that directory before.
LEMMA FlushIs ==
  ASSUME IngestInv, NEW i \in Instances, ~world.inst[i].disposed, NEW e \in Nat,
         NEW c, c = currentDir(world, i), NEW v, v = sweep(onExecutionEnded(world, i, e), i)
  PROVE  /\ SameHosts(v, world) /\ \A d \in Dirs, a \in Registrations : Lasts(v, world, d, a)
         /\ \A k \in v.seen : k \in world.seen \/ (k = <<c, "end", e>> /\ c \in Dirs)
         /\ Steady(world, i) =>
              /\ c \in Dirs => c = settings(world, i)
              /\ \A d \in Dirs : d = settings(world, i) =>
                   <<d, "end", e>> \in world.seen \/ Closes(v, world, d)
<1>1. Good(world, {})
  BY DEF IngestInv
<1>2. PICK u : u = onExecutionEnded(world, i, e)
  OBVIOUS
<1>3. Good(u, {}) /\ (world.slot = Nil => u = world) /\ (world.slot # Nil => Ends(u, world, c, e))
  BY <1>1, <1>2, EndedSound
<1>4. SameHosts(u, world) /\ \A d \in Dirs, a \in Registrations : Lasts(u, world, d, a)
  BY <1>3, TidiesItself DEF Ends, Tidies
<1>5. ~u.inst[i].disposed /\ settings(u, i) = settings(world, i)
  BY <1>4 DEF SameHosts
<1>6. /\ Tidies(v, u)
      /\ u.slot = Nil /\ settings(u, i) \in Dirs /\ Steady(u, i) => Closes(v, u, settings(u, i))
  BY <1>2, <1>3, <1>5, SweepWorldSound
<1>7. SameHosts(v, world) /\ \A d \in Dirs, a \in Registrations : Lasts(v, world, d, a)
  <2>1. SameHosts(v, world)
    BY <1>4, <1>6, SameHostsAdds DEF Tidies
  <2>2. \A d \in Dirs, a \in Registrations : Lasts(v, world, d, a)
    BY <1>4, <1>6 DEF Tidies, Lasts
  <2> QED BY <2>1, <2>2
<1>8. c \in Dirs \union {Nil} /\ settings(world, i) \in Dirs \union {Off}
      /\ world.inst[i].holds \in Dirs \union {Nil}
  BY <1>1, HostTypes
<1>9. \A k \in v.seen : k \in world.seen \/ (k = <<c, "end", e>> /\ c \in Dirs)
  BY <1>3, <1>6, <1>8 DEF Tidies, Ends
<1>10. ASSUME Steady(world, i)
       PROVE  /\ c \in Dirs => c = settings(world, i)
              /\ settings(world, i) \in Dirs => c = settings(world, i)
  <2>1. CASE world.inst[i].holds # Nil
    BY <1>8, <1>10, <2>1 DEF currentDir, Steady
  <2>2. CASE world.inst[i].holds = Nil /\ settings(world, i) # Off
    BY <1>8, <2>2 DEF currentDir
  <2>3. CASE world.inst[i].holds = Nil /\ settings(world, i) = Off
    <3>1. c = Nil
      BY <2>3 DEF currentDir
    <3> QED BY <2>3, <3>1, IngestAssumption
  <2> QED BY <2>1, <2>2, <2>3
<1>11. ASSUME Steady(world, i), NEW d \in Dirs, d = settings(world, i)
       PROVE  <<d, "end", e>> \in world.seen \/ Closes(v, world, d)
  <2>1. CASE world.slot = Nil
    BY <1>3, <1>6, <1>11, <2>1
  <2>2. CASE world.slot # Nil
    <3>1. d = c /\ d # Nil
      BY <1>10, <1>11, IngestAssumption
    <3>2. <<d, "end", e>> \in world.seen \/ Closes(u, world, d)
      BY <1>3, <2>2, <3>1 DEF Ends
    <3>3. Closes(u, world, d) => Closes(v, world, d)
      BY <1>6 DEF Tidies, Lasts, Closes
    <3> QED BY <3>2, <3>3
  <2> QED BY <2>1, <2>2
<1> QED BY <1>7, <1>9, <1>10, <1>11

\* An end that an instance takes folds its directory's part of the run, if it was not folded before.
LEMMA EndTakenEnds ==
  ASSUME IngestInv, EndInv, NEW i \in Instances, TakeFlush(i), bus[pos[i] + 1].kind = "end"
  PROVE  EndInv'
<1>1. PICK e : e = pos[i] + 1
  OBVIOUS
<1>2. PICK c, v : c = currentDir(world, i) /\ v = sweep(onExecutionEnded(world, i, e), i)
  OBVIOUS
<1>3. /\ pos[i] < Len(bus) /\ pos' = [pos EXCEPT ![i] = e] /\ bus[e].kind = "end"
      /\ ~world.inst[i].disposed /\ handling[i] = Nil
      /\ world' = v /\ attempts' = attempts /\ moved' = moved /\ bus' = bus /\ run' = run
      /\ handling' = handling
  BY <1>1, <1>2 DEF TakeFlush, Pending
<1>4. EventsInOrder /\ Grown /\ OthersCome
  BY <1>3, BusKept DEF EndInv, OthersCome
<1>5. /\ PositionsKept /\ e \in DOMAIN bus /\ e \in Nat /\ ~(e <= pos[i]) /\ pos'[i] = e
      /\ \A j \in Instances : pos[j] <= pos'[j] /\ pos'[j] <= Len(bus)
      /\ \A s \in DOMAIN bus : s < e => s <= pos[i]
      /\ \A j \in Instances, s \in DOMAIN bus : s <= pos'[j] => s <= pos[j] \/ (j = i /\ s = e)
  <2>1. Takes(i, e)
    BY <1>1, <1>3, <1>4, TakesNext
  <2> QED BY <2>1 DEF Takes
<1>6. /\ SameHosts(v, world) /\ \A d \in Dirs, a \in Registrations : Lasts(v, world, d, a)
      /\ \A k \in v.seen : k \in world.seen \/ (k = <<c, "end", e>> /\ c \in Dirs)
      /\ Steady(world, i) =>
           /\ c \in Dirs => c = settings(world, i)
           /\ \A d \in Dirs : d = settings(world, i) =>
                <<d, "end", e>> \in world.seen \/ Closes(v, world, d)
  BY <1>2, <1>3, <1>5, FlushIs
<1>7. Calm(v, world)
  BY <1>6, CalmHosts
<1>8. EventsInOrder'
  <2>1. \A j \in Instances : handling'[j] # Nil =>
          handling'[j].step \in DOMAIN bus /\ bus[handling'[j].step].kind \in StepKinds
    BY <1>3, <1>4, LatestIs DEF EventsInOrder
  <2>2. ASSUME NEW k \in v.seen, k[2] = "end"
        PROVE  k[3] \in DOMAIN bus
    <3>1. CASE k \in world.seen
      BY <1>4, <2>2, <3>1 DEF EventsInOrder
    <3>2. CASE k = <<c, "end", e>>
      BY <1>5, <3>2
    <3> QED BY <1>6, <3>1, <3>2
  <2> QED BY <1>3, <1>4, <1>5, <2>1, <2>2, EventsKept
<1>9. ASSUME Settled'
      PROVE  Onward'
  <2>1. Onward /\ Latest \in Registrations
    BY <1>3, <1>9, LatestIs DEF EndInv, Settled, Latest
  <2>2. \A s \in DOMAIN bus' : (RunStep(s)' <=> RunStep(s)) /\ (RunEnd(s)' <=> RunEnd(s))
    BY <1>3 DEF RunStep, RunEnd
  <2>3. ASSUME NEW d \in Dirs, FoldedIn(world, d)
        PROVE  FoldedIn(world, d)'
    BY <1>3, <1>6, <1>7, <2>1, <2>2, <2>3, FoldedStays
  <2>4. ASSUME NEW d \in Dirs, d = settings(world, i), RunEnd(e)
        PROVE  FoldedIn(world, d)'
    <3>1. CASE <<d, "end", e>> \in world.seen
      BY <1>5, <2>1, <2>3, <2>4, <3>1 DEF Onward
    <3>2. CASE Closes(v, world, d)
      <4>1. ~LeftIn(v, d, Latest)
        BY <1>6, <2>1, <3>2 DEF Closes, Onward, Lasts
      <4>2. ASSUME NEW s \in DOMAIN bus, RunStep(s)
            PROVE  Placed(v, d, s)
        <5>1. s <= pos[i]
          BY <1>4, <1>5, <2>4, <4>2 DEF EventsInOrder
        <5>2. Placed(world, d, s)
          BY <1>3, <2>1, <2>4, <4>2, <5>1 DEF Onward, Works
        <5> QED BY <1>7, <5>2 DEF Placed, Calm
      <4> QED BY <1>3, <2>2, <4>1, <4>2 DEF FoldedIn, LeftIn, HeldFor, Placed, Untracked, Latest
    <3> QED BY <1>6, <2>1, <2>4, <3>1, <3>2 DEF Onward
  <2>5. FoldsStay
    BY <2>3 DEF FoldsStay
  <2>6. EndsDelivered
    <3> SUFFICES ASSUME NEW d \in Dirs, NEW x \in DOMAIN bus, RunEnd(x), <<d, "end", x>> \in v.seen,
                        <<d, "end", x>> \notin world.seen
                 PROVE  FoldedIn(world, d)'
      BY <1>3, <2>2 DEF EndsDelivered
    <3>1. <<d, "end", x>> = <<c, "end", e>> /\ c \in Dirs
      BY <1>6
    <3>2. d = c /\ x = e
      BY <3>1
    <3> QED BY <1>6, <2>1, <2>4, <3>1, <3>2 DEF Onward
  <2>7. \A d \in Dirs : LeftIn(world', d, Latest) => world'.last[d] = Latest
    BY <1>3, <1>6, <2>1 DEF Onward, Lasts
  <2>8. \A j \in Instances : PricesLatest(j)'
    BY <1>3, <2>1 DEF Onward, PricesLatest, RunStep, Latest
  <2>9. ASSUME NEW j \in Instances, NEW d \in Dirs, Works(j, d)
        PROVE  TakenBy(j, d)
    <3>1. ASSUME NEW s \in DOMAIN bus, s <= pos'[j], RunStep(s)
          PROVE  s <= pos[j]
      BY <1>3, <1>5, <3>1 DEF RunStep, StepKinds
    <3>2. ASSUME NEW s \in DOMAIN bus, s <= pos'[j], RunEnd(s), ~(s <= pos[j])
          PROVE  FoldedIn(world, d)'
      <4>1. j = i /\ s = e
        BY <1>5, <3>2
      <4> QED BY <2>4, <2>9, <3>2, <4>1 DEF Works
    <3> QED BY <1>3, <3>1, <3>2 DEF TakenBy
  <2>10. Calm(world', world) /\ run'.n = run.n /\ \A j \in Instances : pos'[j] <= Len(bus)
    BY <1>3, <1>5, <1>7
  <2> QED BY <1>3, <1>4, <1>5, <2>1, <2>5, <2>6, <2>7, <2>8, <2>9, <2>10, OnwardKept
<1> QED BY <1>8, <1>9 DEF EndInv

LEMMA FlushEnds ==
  ASSUME IngestInv, EndInv, NEW i \in Instances, TakeFlush(i)
  PROVE  EndInv'
<1>1. PICK e : e = pos[i] + 1
  OBVIOUS
<1>2. CASE bus[e].kind = "end"
  BY <1>1, <1>2, EndTakenEnds
<1>3. CASE bus[e].kind # "end"
  <2>1. /\ pos[i] < Len(bus) /\ pos' = [pos EXCEPT ![i] = e] /\ bus[e].kind = "idle"
        /\ ~world.inst[i].disposed
        /\ world' = sweep(world, i) /\ attempts' = attempts /\ moved' = moved /\ bus' = bus
        /\ run' = run /\ handling' = handling
    BY <1>1, <1>3 DEF TakeFlush, Pending
  <2>2. PICK v : v = world'
    OBVIOUS
  <2>3. Tidies(v, world)
    BY <2>1, <2>2, SweepWorldSound DEF IngestInv
  <2>4. bus[e].kind \in Others
    BY <2>1 DEF Others, EventKinds, StepKinds
  <2>5. PositionsKept /\ TakesOthers
    <3>1. EventsInOrder
      BY DEF EndInv
    <3>2. Takes(i, e)
      BY <1>1, <2>1, <3>1, TakesNext
    <3> QED BY <2>4, <3>2 DEF Takes, TakesOthers
  <2>6. Grown /\ OthersCome /\ StillAwaits
    BY <2>1, BusKept, AwaitsStill DEF OthersCome
  <2> QED BY <2>1, <2>2, <2>3, <2>5, <2>6, TidyKeeps
<1> QED BY <1>2, <1>3

LEMMA EndStep ==
  ASSUME IngestInv, EndInv, IngestInv', [IngestNext]_ivars
  PROVE  EndInv'
<1>1. CASE (\E kind \in StepKinds : Step(kind)) \/ EndRun
  BY <1>1, ChildEnds
<1>2. CASE \/ UNCHANGED ivars \/ Delete \/ \E long \in BOOLEAN : Silence(long)
           \/ \E n \in Registrations : Judges(n)
           \/ \E i \in Instances : \/ ChatMessage(i) \/ LoadDone(i) \/ CatalogFails(i)
                                   \/ WaitTimesOut(i) \/ TimePasses(i)
  BY <1>2, QuietEnds
<1>3. CASE Register
  BY <1>3, RegisterEnds
<1>4. CASE ResumeRegistered
  BY <1>4, ResumeEnds
<1>5. CASE Correct \/ ResumeUnregistered
  BY <1>5, OthersEnd
<1>6. CASE \E i \in Instances : TakeStep(i)
  BY <1>6, TakeStepEnds
<1>7. CASE \E i \in Instances : Priced(i)
  BY <1>7, PricedEnds
<1>8. CASE \E i \in Instances : TakeFlush(i)
  BY <1>8, FlushEnds
<1>9. CASE \E i \in Instances : TakeGone(i)
  BY <1>9, GoneEnds
<1>10. CASE \E i \in Instances : Dispose(i) \/ \E s \in Dirs \union {Off} : Switch(i, s)
  BY <1>10, HostsEnd
<1> QED BY <1>1, <1>2, <1>3, <1>4, <1>5, <1>6, <1>7, <1>8, <1>9, <1>10 DEF IngestNext, Judges

LEMMA EndInitial ==
  ASSUME IngestInit
  PROVE  EndInv
<1>1. attempts = <<>> /\ DOMAIN bus = {} /\ run.live /\ run.steps = 0
  BY DEF IngestInit
<1>2. (\A i \in Instances : pos[i] = 0 /\ handling[i] = Nil) /\ world.seen = {}
  BY DEF IngestInit
<1>3. Len(bus) = 0
  BY DEF IngestInit
<1> QED BY <1>1, <1>2, <1>3 DEF EndInv, EventsInOrder, Settled

THEOREM EndAlways == IngestSpec => [](IngestInv /\ EndInv)
<1>1. IngestInit => IngestInv /\ EndInv
  BY IngestInitial, EndInitial
<1>2. IngestInv /\ EndInv /\ [IngestNext]_ivars => IngestInv' /\ EndInv'
  BY IngestStep, EndStep
<1> QED BY <1>1, <1>2, PTL DEF IngestSpec

\* Once a run is over and every instance has caught up, nothing of an attempt registered before the
\* run's first step, and after the steps of the runs before it had been taken, is held or open in a
\* directory somebody writes to, for any number of instances, directories and runs: firstDelivery keeps the ids of the ends per directory, and onExecutionEnded
\* closes the last attempt of the instance's own directory, so that no delivery takes another
\* directory's end; where the session is no longer registered the sweep closes it.
THEOREM EndsFold == IngestSpec => []EndedIsFolded
<1>1. IngestInv /\ EndInv => EndedIsFolded
  <2> SUFFICES ASSUME IngestInv, EndInv, CaughtUp, ~run.live, attempts # <<>>, Last(attempts).clean,
                      Last(attempts).late = {}, moved = {}, NEW d \in Dirs, NEW i \in Alive,
                      currentDir(world, i) = d
               PROVE  HeldFor(world, d, Len(attempts)) = {} /\ world.store[d].open[Len(attempts)] = <<>>
    BY DEF EndedIsFolded
  <2>1. EventsInOrder /\ Onward
    BY DEF EndInv, Settled, Latest, Last
  <2>2. PICK e \in DOMAIN bus : RunEnd(e)
    BY <2>1 DEF EventsInOrder
  <2>3. i \in Instances /\ ~world.inst[i].disposed /\ pos[i] = Len(bus)
    BY DEF Alive, CaughtUp
  <2>4. e <= pos[i]
    BY <2>3, Registering
  <2>5. settings(world, i) = d
    <3>1. world.inst[i].holds \in {Nil, settings(world, i)}
      BY <2>1, <2>3 DEF Onward, Steady
    <3>2. Good(world, {})
      BY DEF IngestInv
    <3>3. settings(world, i) \in Dirs \union {Off} /\ world.inst[i].holds \in Dirs \union {Nil}
      BY <2>3, <3>2, HostTypes
    <3>4. CASE world.inst[i].holds # Nil
      BY <3>1, <3>4 DEF currentDir
    <3>5. CASE world.inst[i].holds = Nil /\ settings(world, i) # Off
      BY <3>5 DEF currentDir
    <3>6. CASE world.inst[i].holds = Nil /\ settings(world, i) = Off
      <4>1. d = Nil
        BY <3>6 DEF currentDir
      <4> QED BY <4>1, IngestAssumption
    <3> QED BY <3>4, <3>5, <3>6
  <2>6. FoldedIn(world, d)
    BY <2>1, <2>2, <2>3, <2>4, <2>5 DEF Onward, Works
  <2> QED BY <2>6 DEF FoldedIn, LeftIn, Latest
<1> QED BY <1>1, EndAlways, PTL

=============================================================================
