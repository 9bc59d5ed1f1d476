------------------- MODULE SessionMetadataSyncProofs -------------------
(***************************************************************************)
(* What the synchronisation of a session's metadata promises, for every    *)
(* number of sessions, fields, edits, turns and failures: an observed      *)
(* external edit is held until a write has carried it to disk, and what    *)
(* that write puts there is the edit, or a later one; and a guarded edit   *)
(* survives the echoes and the failures of our own writes.                 *)
(***************************************************************************)
EXTENDS SessionMetadataSync, SessionPersistenceQueueFileProofs

----------------------------------------------------------------------------
(* The steps, as the queue sees them: its own, an edit that is flushed at once *)
(* and a field of the file rewritten by somebody else.                         *)

Rewritten(k, f, v) ==
  /\ disk[k] # None
  /\ disk' = [disk EXCEPT ![k].header[f] = v]
  /\ UNCHANGED <<queueVars, receiptVars, outcomeVars, baselineVars, cancelledThrough, tails,
                 drains, closing, flush, tmp, dir, budget, historyVars>>

\* The value the memory starts with is one.
LEMMA StartIsMetadata == Start \in Metadata
<1>1. (CHOOSE v \in Values : TRUE) \in Values
  BY QueueAssumption
<1> QED
  BY <1>1 DEF Start, Metadata

LEMMA MirrorIsMetadata ==
  ASSUME NEW k \in Keys, memory \in [Keys -> Metadata], NEW header \in Metadata
  PROVE  Mirror(k, header) \in Metadata
<1>1. memory[k] \in Metadata
  OBVIOUS
<1> QED
  BY <1>1 DEF Mirror, Metadata

LEMMA UseKeepsBounds ==
  ASSUME left \in [foreign : 0 .. MaxForeignEdits, edits : 0 .. MaxEdits, turns : 0 .. MaxTurns],
         NEW what \in {"foreign", "edits", "turns"}, Use(what)
  PROVE  left' \in [foreign : 0 .. MaxForeignEdits, edits : 0 .. MaxEdits, turns : 0 .. MaxTurns]
  BY SyncAssumption DEF Use

LEMMA MutateType ==
  ASSUME SyncTypeOK, NEW k \in Keys, NEW f \in Fields, NEW v \in Values, Mutate(k, f, v)
  PROVE  /\ memory' \in [Keys -> Metadata] /\ intended' \in [Keys -> Metadata]
         /\ edited' \in [Keys -> SUBSET Fields] /\ memory'[k] \in Metadata
         /\ left' \in [foreign : 0 .. MaxForeignEdits, edits : 0 .. MaxEdits, turns : 0 .. MaxTurns]
<1>1. /\ memory' = [memory EXCEPT ![k] = [memory[k] EXCEPT ![f] = v]]
      /\ intended' = [intended EXCEPT ![k] = [intended[k] EXCEPT ![f] = v]]
  BY DEF Mutate
<1>2. [memory[k] EXCEPT ![f] = v] \in Metadata /\ [intended[k] EXCEPT ![f] = v] \in Metadata
  <2>1. memory[k] \in Metadata /\ intended[k] \in Metadata
    BY DEF SyncTypeOK
  <2> QED
    BY <2>1 DEF Metadata
<1>3. memory' \in [Keys -> Metadata] /\ intended' \in [Keys -> Metadata] /\ memory'[k] \in Metadata
  BY <1>1, <1>2 DEF SyncTypeOK
<1>4. edited' \in [Keys -> SUBSET Fields]
  BY DEF Mutate, SyncTypeOK
<1> QED
  BY <1>3, <1>4, UseKeepsBounds DEF Mutate, SyncTypeOK

LEMMA ApplyType ==
  ASSUME SyncTypeOK, NEW k \in Keys, NEW header \in Metadata, Apply(k, header)
  PROVE  /\ memory' \in [Keys -> Metadata] /\ memory'[k] = Mirror(k, header)
         /\ memory'[k] \in Metadata
         /\ foreign' \in [Keys -> [Fields -> SUBSET Values]]
<1>1. Mirror(k, header) \in Metadata
  BY MirrorIsMetadata DEF SyncTypeOK
<1>2. memory' = [memory EXCEPT ![k] = Mirror(k, header)]
  BY DEF Apply
<1>3. foreign' = [foreign EXCEPT ![k] = Nothing] \/ foreign' = foreign
  BY DEF Apply
<1>4. Nothing \in [Fields -> SUBSET Values]
  BY DEF Nothing
<1> QED
  BY <1>1, <1>2, <1>3, <1>4 DEF SyncTypeOK

\* What a step of the synchronisation is to the queue.
LEMMA SyncStepIs ==
  ASSUME TypeOK, SyncTypeOK, [SyncNext]_allVars
  PROVE  \/ [Next]_vars
         \/ \E k \in Keys, header \in Metadata : EnqueueAndFlush(k, header)
         \/ \E k \in Keys, f \in Fields, v \in Values : Rewritten(k, f, v)
<1>1. ASSUME NEW k \in Keys, NEW header \in Metadata, Apply(k, header)
      PROVE  [Next]_vars
  <2>1. memory'[k] \in Metadata
    BY <1>1, ApplyType
  <2>2. AbsorbExternal(k, header, memory'[k]) \/ UNCHANGED vars
    BY <1>1 DEF Apply
  <2> QED
    BY <2>1, <2>2 DEF Next
<1>2. ASSUME NEW k \in Keys, NEW f \in Fields, NEW v \in Values, Edit(k, f, v)
      PROVE  [Next]_vars
  <2>1. memory'[k] \in Metadata /\ Enqueue(k, memory'[k])
    BY <1>2, MutateType DEF Edit
  <2> QED
    BY <2>1 DEF Next
<1>3. ASSUME NEW k \in Keys, NEW f \in Fields, NEW v \in Values, GuardedEdit(k, f, v)
      PROVE  \E h \in Metadata : EnqueueAndFlush(k, h)
  BY <1>3, MutateType DEF GuardedEdit
<1>4. ASSUME NEW k \in Keys, AppliesDeferred(k)
      PROVE  [Next]_vars
  <2>1. CASE deferred[k] # None
    BY <1>1, <1>4, <2>1 DEF AppliesDeferred, SyncTypeOK
  <2>2. CASE deferred[k] = None
    BY <1>4, <2>2 DEF AppliesDeferred
  <2> QED
    BY <2>1, <2>2
<1>5. ASSUME NEW k \in Keys, WatcherFires(k)
      PROVE  [Next]_vars
  <2>1. UNCHANGED vars \/ (disk[k] # None /\ Apply(k, disk[k].header))
    BY <1>5 DEF WatcherFires
  <2>2. disk[k] # None => disk[k].header \in Metadata
    BY DEF TypeOK, FileTypeOK, File
  <2> QED
    BY <1>1, <2>1, <2>2
<1>6. CASE QueueStep
  BY <1>6 DEF QueueStep, Next
<1>7. ASSUME NEW k \in Keys, GuardExpires(k) \/ TurnStarts(k) \/ TurnStops(k)
      PROVE  UNCHANGED vars
  BY <1>7 DEF GuardExpires, TurnStarts, TurnStops
<1>8. ASSUME NEW k \in Keys, NEW f \in Fields, NEW v \in Values, ForeignEdit(k, f, v)
      PROVE  Rewritten(k, f, v)
  BY <1>8 DEF ForeignEdit, Rewritten
<1>9. CASE UNCHANGED allVars
  BY <1>9 DEF allVars
<1> QED
  BY <1>2, <1>3, <1>4, <1>5, <1>6, <1>7, <1>8, <1>9 DEF SyncNext

----------------------------------------------------------------------------
(* Types. *)

LEMMA SyncInitStarted == SyncInit => Started
<1>1. [k \in Keys |-> [content |-> 0, header |-> Start]] \in [Keys -> File \cup {None}]
  BY StartIsMetadata, BoundsAreNat DEF File
<1>2. [k \in Keys |-> IF Warm THEN Start ELSE None] \in [Keys -> Metadata \cup {None}]
  BY StartIsMetadata
<1> QED
  BY <1>1, <1>2 DEF SyncInit, Started

LEMMA SyncInitType == SyncInit => SyncTypeOK
<1> SUFFICES ASSUME SyncInit
             PROVE  SyncTypeOK
  OBVIOUS
<1>1. Nothing \in [Fields -> SUBSET Values]
  BY DEF Nothing
<1>2. left \in [foreign : 0 .. MaxForeignEdits, edits : 0 .. MaxEdits, turns : 0 .. MaxTurns]
  BY SyncAssumption DEF SyncInit
<1>3. memory \in [Keys -> Metadata] /\ intended \in [Keys -> Metadata]
  BY StartIsMetadata DEF SyncInit
<1>4. foreign \in [Keys -> [Fields -> SUBSET Values]] /\ edited \in [Keys -> SUBSET Fields]
  BY <1>1 DEF SyncInit
<1>5. /\ turn \in [Keys -> {"idle", "processing", "stopping"}] /\ guard \subseteq Keys
      /\ event \subseteq Keys /\ deferred \in [Keys -> Metadata \cup {None}]
  BY DEF SyncInit
<1> QED
  BY <1>2, <1>3, <1>4, <1>5 DEF SyncTypeOK

LEMMA SyncNextType ==
  ASSUME TypeOK, SyncTypeOK, [SyncNext]_allVars
  PROVE  SyncTypeOK'
<1>1. ASSUME NEW k \in Keys, NEW f \in Fields, NEW v \in Values, Edit(k, f, v) \/ GuardedEdit(k, f, v)
      PROVE  SyncTypeOK'
  <2>1. Mutate(k, f, v)
    BY <1>1 DEF Edit, GuardedEdit
  <2>2. /\ memory' \in [Keys -> Metadata] /\ intended' \in [Keys -> Metadata]
        /\ edited' \in [Keys -> SUBSET Fields]
        /\ left' \in [foreign : 0 .. MaxForeignEdits, edits : 0 .. MaxEdits, turns : 0 .. MaxTurns]
    BY <2>1, MutateType
  <2>3. guard' \subseteq Keys /\ event' \subseteq Keys
    BY <1>1 DEF Edit, GuardedEdit, SyncTypeOK
  <2>4. UNCHANGED <<turn, deferred, foreign>>
    BY <2>1 DEF Mutate
  <2> QED
    BY <2>2, <2>3, <2>4 DEF SyncTypeOK
<1>2. ASSUME NEW k \in Keys, GuardExpires(k)
      PROVE  SyncTypeOK'
  BY <1>2 DEF GuardExpires, SyncTypeOK
<1>3. ASSUME NEW k \in Keys, TurnStarts(k)
      PROVE  SyncTypeOK'
  <2>1. left' \in [foreign : 0 .. MaxForeignEdits, edits : 0 .. MaxEdits, turns : 0 .. MaxTurns]
    BY <1>3, UseKeepsBounds DEF TurnStarts, SyncTypeOK
  <2> QED
    BY <1>3, <2>1 DEF TurnStarts, SyncTypeOK
<1>4. ASSUME NEW k \in Keys, TurnStops(k)
      PROVE  SyncTypeOK'
  BY <1>4 DEF TurnStops, SyncTypeOK
<1>5. ASSUME NEW k \in Keys, AppliesDeferred(k)
      PROVE  SyncTypeOK'
  <2>1. memory' \in [Keys -> Metadata] /\ foreign' \in [Keys -> [Fields -> SUBSET Values]]
    <3>1. CASE deferred[k] # None
      BY <1>5, <3>1, ApplyType DEF AppliesDeferred, SyncTypeOK
    <3>2. CASE deferred[k] = None
      BY <1>5, <3>2 DEF AppliesDeferred, SyncTypeOK
    <3> QED
      BY <3>1, <3>2
  <2> QED
    BY <1>5, <2>1 DEF AppliesDeferred, SyncTypeOK
<1>6. ASSUME NEW k \in Keys, WatcherFires(k)
      PROVE  SyncTypeOK'
  <2>1. disk[k] # None => disk[k].header \in Metadata
    BY DEF TypeOK, FileTypeOK, File
  <2>2. memory' \in [Keys -> Metadata] /\ foreign' \in [Keys -> [Fields -> SUBSET Values]]
    <3>1. UNCHANGED <<memory, foreign>> \/ (disk[k] # None /\ Apply(k, disk[k].header))
      BY <1>6 DEF WatcherFires
    <3> QED
      BY <2>1, <3>1, ApplyType DEF SyncTypeOK
  <2>3. deferred' \in [Keys -> Metadata \cup {None}]
    <3>1. deferred' = deferred
          \/ (disk[k] # None /\ deferred' = [deferred EXCEPT ![k] = disk[k].header])
      BY <1>6 DEF WatcherFires
    <3> QED
      BY <2>1, <3>1 DEF SyncTypeOK
  <2> QED
    BY <1>6, <2>2, <2>3 DEF WatcherFires, SyncTypeOK
<1>7. ASSUME NEW k \in Keys, NEW f \in Fields, NEW v \in Values, ForeignEdit(k, f, v)
      PROVE  SyncTypeOK'
  <2>1. left' \in [foreign : 0 .. MaxForeignEdits, edits : 0 .. MaxEdits, turns : 0 .. MaxTurns]
    BY <1>7, UseKeepsBounds DEF ForeignEdit, SyncTypeOK
  <2>2. foreign' \in [Keys -> [Fields -> SUBSET Values]]
    <3> DEFINE more == [foreign[k] EXCEPT ![f] = @ \cup {v}]
    <3>1. foreign[k] \in [Fields -> SUBSET Values]
      BY DEF SyncTypeOK
    <3>2. more \in [Fields -> SUBSET Values]
      BY <3>1
    <3>3. foreign' = [foreign EXCEPT ![k] = more]
      BY <1>7 DEF ForeignEdit
    <3> HIDE DEF more
    <3> QED
      BY <3>2, <3>3 DEF SyncTypeOK
  <2> QED
    BY <1>7, <2>1, <2>2 DEF ForeignEdit, SyncTypeOK
<1>8. CASE QueueStep
  <2>1. UNCHANGED <<memory, turn, guard, deferred, left, intended, foreign, edited>> /\ event' \subseteq Keys
    BY <1>8 DEF QueueStep, SyncTypeOK
  <2> QED
    BY <2>1 DEF SyncTypeOK
<1>9. CASE UNCHANGED allVars
  BY <1>9 DEF allVars, syncVars, SyncTypeOK
<1> QED
  BY <1>1, <1>2, <1>3, <1>4, <1>5, <1>6, <1>7, <1>8, <1>9 DEF SyncNext

----------------------------------------------------------------------------
(* The queue's ledger and files, kept by the two kinds of step that are not its *)
(* own.                                                                         *)

LEMMA FlushedType ==
  ASSUME TypeOK, NEW k \in Keys, NEW header \in Metadata, EnqueueAndFlush(k, header)
  PROVE  TypeOK'
<1>1. NewSnap \in SnapIds
  BY RoomForOne DEF EnqueueAndFlush
<1>2. PutEntry(k, header, FALSE, NewSnap) /\ RunOnTail({k}) /\ armed' \subseteq armed
  BY DEF EnqueueAndFlush, ClearTimers
<1>3. Grows /\ IntakeTypeOK'
  BY <1>1, <1>2, PutEntryType DEF TypeOK, EnqueueAndFlush
<1>4. DrainTypeOK'
  BY <1>2, <1>3, RunOnTailType DEF TypeOK
<1>5. UNCHANGED <<receiptVars, outcomeVars, baselineVars, closing, flush, fileVars, budget, historyVars>>
  BY DEF EnqueueAndFlush
<1> QED
  BY <1>3, <1>4, <1>5, OutcomeFrame, BaselineFrame, FlushFrame, FileFrame, BudgetFrame,
     HistoryFrame DEF TypeOK, historyVars

LEMMA FlushedLedger ==
  ASSUME Ledger, NEW k \in Keys, NEW header \in Metadata, EnqueueAndFlush(k, header)
  PROVE  Ledger'
<1>1. NewSnap \in SnapIds /\ TypeOK
  BY RoomForOne DEF EnqueueAndFlush, Ledger
<1>2. PutEntry(k, header, FALSE, NewSnap) /\ RunOnTail({k}) /\ UNCHANGED cancelledThrough
  BY DEF EnqueueAndFlush
<1>3. UNCHANGED <<receiptVars, outcomeVars, inFlightSignature, historyVars>>
  BY DEF EnqueueAndFlush, baselineVars
<1>4. TypeOK'
  BY <1>1, FlushedType
<1>5. ChainInv'
  BY <1>1, <1>2, ChainAppend DEF Ledger, TypeOK
<1>6. FreshWritesNotCancelled'
  BY <1>1, <1>2, PutUncancelled DEF Ledger
<1>7. Honest'
  BY <1>1, <1>2, <1>3, HeapGrows, HonestSame DEF PutEntry, Ledger, receiptVars, historyVars
<1>8. ASSUME NEW j \in Keys
      PROVE  Custody(j)'
  <2>1. HandsKept(j)
    BY <1>1, <1>2, TailKeepsHands DEF Ledger, Custody
  <2>2. CASE j = k
    <3>1. receipts'[NewSnap] # "failed"
      BY <1>1, <1>3, LineTyped DEF Ledger, Honest, Unasked, NewSnap, receiptVars
    <3> QED
      BY <1>1, <1>2, <1>3, <2>1, <2>2, <3>1, PutCustody
      DEF Ledger, receiptVars, outcomeVars, historyVars
  <2>3. CASE j # k
    <3>1. \A s \in SnapsSoFar : snapshots'[s] = snapshots[s]
      BY <1>1, <1>2, SnapshotsKept DEF PutEntry
    <3>2. queued'[j] = queued[j] /\ generations'[j] = generations[j]
      BY <1>1, <1>2, <2>3 DEF PutEntry, TypeOK, IntakeTypeOK
    <3>3. Aside(j)
      BY <1>2, <1>3, <2>1, <3>1, <3>2 DEF Aside, SnapsKept, receiptVars, outcomeVars, historyVars
    <3> QED
      BY <1>1, <3>3, AsideCustody DEF Ledger
  <2> QED
    BY <2>2, <2>3
<1> QED
  BY <1>4, <1>5, <1>6, <1>7, <1>8 DEF Ledger

LEMMA FlushedFiled ==
  ASSUME Ledger, NEW k \in Keys, NEW header \in Metadata, EnqueueAndFlush(k, header),
         NEW j \in Keys, Filed(j)
  PROVE  Filed(j)'
<1>1. NewSnap \in SnapIds /\ TypeOK /\ Honest /\ Custody(j) /\ Custody(k)
  BY RoomForOne DEF EnqueueAndFlush, Ledger
<1>2. PutEntry(k, header, FALSE, NewSnap) /\ RunOnTail({k}) /\ UNCHANGED cancelledThrough
  BY DEF EnqueueAndFlush
<1>3. UNCHANGED filed
  BY DEF EnqueueAndFlush, filed, fileVars, outcomeVars, historyVars
<1>4. HandsSame(j)
  BY <1>1, <1>2, TailSameHands DEF Custody
<1>5. Mild(j)
  BY <1>1, <1>2, <1>3, <1>4, PutMild
<1> QED
  BY <1>1, <1>5, MildFiled

LEMMA RewrittenFile ==
  ASSUME TypeOK, NEW k \in Keys, NEW f \in Fields, NEW v \in Values, Rewritten(k, f, v)
  PROVE  /\ disk'[k] # None /\ disk'[k] \in File
         /\ disk'[k].content = disk[k].content
         /\ disk'[k].header = [disk[k].header EXCEPT ![f] = v]
         /\ \A j \in Keys : j # k => disk'[j] = disk[j]
         /\ disk' \in [Keys -> File \cup {None}]
<1>1. disk[k] \in File /\ disk[k].header \in Metadata /\ disk \in [Keys -> File \cup {None}]
  BY DEF Rewritten, TypeOK, FileTypeOK, File
<1> DEFINE h == [disk[k].header EXCEPT ![f] = v]
           r == [disk[k] EXCEPT !.header = h]
<1>2. h \in Metadata
  BY <1>1 DEF Metadata
<1>3. disk' = [disk EXCEPT ![k] = r]
  BY DEF Rewritten
<1>4. r \in File /\ r.content = disk[k].content /\ r.header = h
  <2> HIDE DEF h
  <2> QED
    BY <1>1, <1>2 DEF File
<1>5. r # None
  BY <1>4, QueueAssumption
<1> HIDE DEF r
<1>6. disk'[k] = r /\ \A j \in Keys : j # k => disk'[j] = disk[j]
  BY <1>1, <1>3
<1>7. disk' \in [Keys -> File \cup {None}]
  BY <1>1, <1>3, <1>4
<1> QED
  BY <1>4, <1>5, <1>6, <1>7

LEMMA RewrittenLedger ==
  ASSUME Ledger, NEW k \in Keys, NEW f \in Fields, NEW v \in Values, Rewritten(k, f, v)
  PROVE  Ledger'
<1>1. TypeOK
  BY DEF Ledger
<1>2. UNCHANGED <<queueVars, receiptVars, outcomeVars, baselineVars, cancelledThrough, tails,
                  drains, closing, flush, tmp, dir, budget, historyVars>>
  BY DEF Rewritten
<1>3. TypeOK'
  <2>1. Grows
    BY <1>1, <1>2, IntakeSame DEF TypeOK, queueVars
  <2>2. FileTypeOK'
    BY <1>1, <1>2, RewrittenFile DEF TypeOK, FileTypeOK, historyVars
  <2>3. IntakeTypeOK'
    BY <1>1, <1>2, <2>1 DEF TypeOK, IntakeTypeOK, queueVars, SnapsSoFar, Grows
  <2> QED
    BY <1>1, <1>2, <2>1, <2>2, <2>3, OutcomeFrame, BaselineFrame, DrainFrame, FlushFrame,
       BudgetFrame, HistoryFrame DEF TypeOK, historyVars
<1>4. ChainInv'
  <2> SUFFICES ASSUME NEW j \in Keys
               PROVE  \E q \in Seq(Drains) : IsChain(j, q)'
    BY DEF ChainInv
  <2>1. PICK q \in Seq(Drains) : IsChain(j, q)
    BY DEF Ledger, ChainInv
  <2> QED
    BY <1>2, <2>1, ChainFrame
<1>5. FreshWritesNotCancelled'
  BY <1>1, <1>2, IntakeUncancelled DEF Ledger, queueVars
<1>6. Honest'
  BY <1>1, <1>2, HeapKept, HonestSame DEF Ledger, queueVars, receiptVars, historyVars
<1>7. ASSUME NEW j \in Keys
      PROVE  Custody(j)'
  <2>1. HandsKept(j) /\ SnapsKept(j)
    BY <1>2 DEF HandsKept, SnapsKept, queueVars, receiptVars, historyVars
  <2>2. Aside(j)
    BY <1>2, <2>1 DEF Aside, queueVars, receiptVars, outcomeVars, baselineVars
  <2> QED
    BY <1>1, <2>2, AsideCustody DEF Ledger
<1> QED
  BY <1>3, <1>4, <1>5, <1>6, <1>7 DEF Ledger

LEMMA RewrittenFiled ==
  ASSUME Ledger, NEW k \in Keys, NEW f \in Fields, NEW v \in Values, Rewritten(k, f, v),
         NEW j \in Keys, Filed(j)
  PROVE  Filed(j)'
<1>1. TypeOK
  BY DEF Ledger
<1>2. UNCHANGED <<queueVars, receiptVars, outcomeVars, baselineVars, cancelledThrough, tails,
                  drains, closing, flush, tmp, dir, budget, historyVars>>
  BY DEF Rewritten
<1>3. (disk'[j] = None <=> disk[j] = None) /\ (disk[j] # None => disk'[j].content = disk[j].content)
  <2>1. CASE j = k
    BY <1>1, <2>1, RewrittenFile DEF Rewritten
  <2>2. CASE j # k
    BY <1>1, <2>2, RewrittenFile
  <2> QED
    BY <2>1, <2>2
<1>4. SnapsOf(j)' = SnapsOf(j) /\ Landed(j)' = Landed(j)
  BY <1>2 DEF SnapsOf, Landed, queueVars, historyVars
<1>5. Behind(j)'
  BY <1>2, <1>4 DEF Filed, Behind, queueVars
<1>6. LastOnDisk(j)'
  BY <1>2, <1>3, <1>4 DEF Filed, LastOnDisk, queueVars
<1>7. FreshInLine(j)' /\ FailedLive(j)'
  BY <1>2 DEF Filed, FreshInLine, FailedLive, queueVars, outcomeVars, historyVars
<1>8. ASSUME NEW d \in Drains, drains'[j][d].stage # "none"
      PROVE  HandMarks(j, drains[j][d])'
  <2>1. HandMarks(j, drains[j][d]) /\ drains' = drains
    BY <1>2, <1>8 DEF Filed, Marked
  <2> QED
    BY <1>2, <1>3, <2>1
    DEF HandMarks, Obsolete, Discards, Generation, queueVars, historyVars
<1> QED
  BY <1>5, <1>6, <1>7, <1>8 DEF Filed, Marked

\* All of it, and the types of the metadata.
Synced == Files /\ SyncTypeOK

LEMMA SyncedInit == SyncInit => Synced
  BY SyncInitStarted, SyncInitType, LedgerInit, FiledInit DEF Synced, Files

LEMMA SyncedStep == Synced /\ [SyncNext]_allVars => Synced'
<1> SUFFICES ASSUME Synced, [SyncNext]_allVars
             PROVE  Synced'
  OBVIOUS
<1>1. Ledger /\ TypeOK /\ SyncTypeOK /\ \A k \in Keys : Filed(k)
  BY DEF Synced, Files, Ledger
<1>2. SyncTypeOK'
  BY <1>1, SyncNextType
<1>3. Ledger' /\ \A j \in Keys : Filed(j)'
  <2>1. CASE [Next]_vars
    BY <1>1, <2>1, LedgerStep, FiledStep
  <2>2. ASSUME NEW k \in Keys, NEW header \in Metadata, EnqueueAndFlush(k, header)
        PROVE  Ledger' /\ \A j \in Keys : Filed(j)'
    BY <1>1, <2>2, FlushedLedger, FlushedFiled
  <2>3. ASSUME NEW k \in Keys, NEW f \in Fields, NEW v \in Values, Rewritten(k, f, v)
        PROVE  Ledger' /\ \A j \in Keys : Filed(j)'
    BY <1>1, <2>3, RewrittenLedger, RewrittenFiled
  <2> QED
    BY <1>1, <2>1, <2>2, <2>3, SyncStepIs
<1> QED
  BY <1>2, <1>3 DEF Synced, Files

LEMMA SyncedHolds == SyncSpec => []Synced
  BY SyncedInit, SyncedStep, PTL DEF SyncSpec

\* The memory, the watcher's and the history's values are of their types.
THEOREM SyncTypeCorrectness == SyncSpec => []SyncTypeOK
<1>1. Synced => SyncTypeOK
  BY DEF Synced
<1> QED
  BY <1>1, SyncedHolds, PTL

----------------------------------------------------------------------------
(* What a step is to one session: nothing to its observation and its writes, an *)
(* observation of it, a step of its writes, or a field of its file rewritten.   *)

HandsGoOn(k) == \A d \in Drains :
  \/ /\ drains'[k][d].stage = drains[k][d].stage /\ drains'[k][d].snap = drains[k][d].snap
     /\ drains'[k][d].header = drains[k][d].header
     /\ drains'[k][d].observed = drains[k][d].observed
  \/ drains[k][d].stage = "none" /\ drains'[k][d].stage = "none"

Aloof(k) == /\ Mild(k) /\ HandsGoOn(k)
            /\ pendingExternalMetadata'[k] = pendingExternalMetadata[k]
            /\ committedMetadata'[k] = committedMetadata[k]

LEMMA TailGoesOn ==
  ASSUME TypeOK, NEW S \in SUBSET Keys, RunOnTail(S), NEW k \in Keys, AtRest(k)
  PROVE  HandsGoOn(k)
<1>1. CASE k \notin S
  BY <1>1 DEF RunOnTail, HandsGoOn
<1>2. CASE k \in S
  <2> DEFINE n == NewDrain(k)
  <2>1. n \in Drains /\ drains[k][n].state = "idle"
    BY <1>2, NewDrainIsFree DEF RunOnTail, Active
  <2>2. \A d \in Drains : drains'[k][d] = IF d = n THEN ChainedDrain(k) ELSE drains[k][d]
    BY <1>2, <2>1 DEF RunOnTail, TypeOK, DrainTypeOK
  <2>3. ChainedDrain(k).stage = "none"
    BY DEF ChainedDrain, IdleDrain
  <2>4. drains[k][n].stage = "none"
    BY <2>1 DEF AtRest
  <2> HIDE DEF n
  <2> QED
    BY <2>2, <2>3, <2>4 DEF HandsGoOn
<1> QED
  BY <1>1, <1>2

LEMMA EndGoesOn ==
  ASSUME TypeOK, NEW i \in Keys, NEW d \in Drains, DrainEnds(i, d), NEW k \in Keys, AtRest(i)
  PROVE  HandsGoOn(k)
<1>1. drains' = [drains EXCEPT ![i] =
        [e \in Drains |-> IF e = d THEN IdleDrain
                          ELSE IF @[e].after = d THEN [@[e] EXCEPT !.after = NoDrain]
                          ELSE @[e]]]
  BY DEF DrainEnds, ReleaseSuccessor
<1>2. CASE i # k
  BY <1>1, <1>2 DEF TypeOK, DrainTypeOK, HandsGoOn
<1>3. CASE i = k
  <2>1. \A e \in Drains : drains'[k][e] = IF e = d THEN IdleDrain
                             ELSE IF drains[k][e].after = d
                                  THEN [drains[k][e] EXCEPT !.after = NoDrain]
                                  ELSE drains[k][e]
    BY <1>1, <1>3 DEF TypeOK, DrainTypeOK
  <2>2. \A r \in DrainRecord : LET s == [r EXCEPT !.after = NoDrain]
                               IN  /\ s.stage = r.stage /\ s.snap = r.snap
                                   /\ s.header = r.header /\ s.observed = r.observed
    BY DEF DrainRecord
  <2>3. \A e \in Drains : drains[k][e] \in DrainRecord
    BY DEF TypeOK, DrainTypeOK
  <2>4. drains[k][d].stage = "none" /\ drains'[k][d].stage = "none"
    <3>1. drains[k][d].state = "waiting" \/ drains[k][d].stage = "none"
      BY <1>3 DEF DrainEnds, AtLoop, AtStage
    <3>2. drains[k][d].state = "waiting" => drains[k][d].stage = "none"
      BY <1>3 DEF AtRest
    <3>3. drains'[k][d] = IdleDrain /\ IdleDrain.stage = "none"
      BY <2>1 DEF IdleDrain
    <3> QED
      BY <3>1, <3>2, <3>3
  <2>5. ASSUME NEW e \in Drains, e # d
        PROVE  /\ drains'[k][e].stage = drains[k][e].stage
               /\ drains'[k][e].snap = drains[k][e].snap
               /\ drains'[k][e].header = drains[k][e].header
               /\ drains'[k][e].observed = drains[k][e].observed
    <3>1. CASE drains[k][e].after = d
      <4>1. drains'[k][e] = [drains[k][e] EXCEPT !.after = NoDrain]
        BY <2>1, <2>5, <3>1
      <4> QED
        BY <2>2, <2>3, <4>1
    <3>2. CASE drains[k][e].after # d
      <4>1. drains'[k][e] = drains[k][e]
        BY <2>1, <2>5, <3>2
      <4> QED
        BY <4>1
    <3> QED
      BY <3>1, <3>2
  <2> QED
    BY <2>4, <2>5 DEF HandsGoOn
<1> QED
  BY <1>2, <1>3

\* The writes of one session discharge no other's observation.
LEMMA OtherBaselines ==
  ASSUME TypeOK, NEW i \in Keys, NEW d \in Drains, WriteBegins(i, d) \/ WriteStep(i, d),
         NEW k \in Keys, i # k
  PROVE  /\ pendingExternalMetadata'[k] = pendingExternalMetadata[k]
         /\ committedMetadata'[k] = committedMetadata[k]
<1> USE DEF TypeOK, BaselineTypeOK, baselineVars
<1>1. CASE WriteBegins(i, d)
  BY <1>1 DEF WriteBegins
<1>2. CASE TmpWritten(i, d) \/ TargetUnlinked(i, d) \/ Renamed(i, d)
  BY <1>2 DEF TmpWritten, TargetUnlinked, Renamed
<1>3. CASE RenameReturns(i, d)
  BY <1>3 DEF RenameReturns, Commit
<1>4. CASE TmpDropped(i, d) \/ FileDiscarded(i, d)
  BY <1>4 DEF TmpDropped, FileDiscarded
<1>5. CASE WriteFails(i, d) \/ FailureTidied(i, d)
  BY <1>5 DEF WriteFails, FailureTidied
<1> QED
  BY <1>1, <1>2, <1>3, <1>4, <1>5 DEF WriteStep

LEMMA SameAloof ==
  ASSUME Ledger, NEW k \in Keys, UNCHANGED vars
  PROVE  Aloof(k)
<1>1. Mild(k)
  BY SameMild DEF vars, queueVars, outcomeVars, fileVars, historyVars, filed
<1> QED
  BY <1>1 DEF Aloof, HandsGoOn, vars, baselineVars

LEMMA EnqueueAloof ==
  ASSUME Ledger, NEW i \in Keys, NEW header \in Metadata, NEW k \in Keys,
         Enqueue(i, header) \/ EnqueueAndFlush(i, header)
  PROVE  Aloof(k)
<1> USE DEF Ledger
<1>1. NewSnap \in SnapIds /\ PutEntry(i, header, FALSE, NewSnap)
  BY RoomForOne DEF Enqueue, EnqueueAndFlush
<1>2. UNCHANGED <<cancelledThrough, filed, pendingExternalMetadata, committedMetadata>>
  BY DEF Enqueue, EnqueueAndFlush, filed, outcomeVars, fileVars, historyVars, baselineVars
<1>3. UNCHANGED drains \/ RunOnTail({i})
  BY DEF Enqueue, EnqueueAndFlush
<1>4. HandsSame(k) /\ HandsGoOn(k)
  <2>1. CASE UNCHANGED drains
    BY <2>1 DEF HandsSame, HandsGoOn
  <2>2. CASE RunOnTail({i})
    BY <2>2, TailSameHands, TailGoesOn DEF Custody
  <2> QED
    BY <1>3, <2>1, <2>2
<1>5. Mild(k)
  BY <1>1, <1>2, <1>4, PutMild
<1> QED
  BY <1>2, <1>4, <1>5 DEF Aloof

LEMMA AbsorbAloof ==
  ASSUME Ledger, NEW i \in Keys, NEW seen \in Metadata, NEW header \in Metadata,
         AbsorbExternal(i, seen, header), NEW k \in Keys, i # k
  PROVE  Aloof(k)
<1>1. Mild(k)
  BY OtherAbsorbMild
<1>2. UNCHANGED <<drains, committedMetadata>>
  BY DEF AbsorbExternal
<1>3. pendingExternalMetadata'[k] = pendingExternalMetadata[k]
  BY DEF AbsorbExternal, Ledger, TypeOK, BaselineTypeOK
<1> QED
  BY <1>1, <1>2, <1>3 DEF Aloof, HandsGoOn

LEMMA QueueStepIs ==
  ASSUME Ledger, QueueStep, NEW k \in Keys
  PROVE  Aloof(k) \/ \E d \in Drains : WriteBegins(k, d) \/ WriteStep(k, d)
<1> USE DEF Ledger
<1>1. ASSUME NEW s \in SnapIds, TimerFires(s)
      PROVE  Aloof(k)
  <2>1. snapshots[s].key \in Keys
    BY <1>1, SnapshotTyped DEF TypeOK, IntakeTypeOK, TimerFires
  <2>2. RunOnTail({snapshots[s].key})
    BY <1>1 DEF TimerFires
  <2>3. Mild(k)
    BY <1>1, <2>1, <2>2, TailMild DEF TimerFires, filed, outcomeVars, fileVars, historyVars
  <2>4. HandsGoOn(k)
    BY <2>1, <2>2, TailGoesOn DEF Custody
  <2> QED
    BY <1>1, <2>3, <2>4 DEF Aloof, TimerFires, baselineVars
<1>2. ASSUME NEW i \in Keys, NEW d \in Drains, DrainEnds(i, d)
      PROVE  Aloof(k)
  <2>1. Mild(k) /\ HandsGoOn(k)
    BY <1>2, EndsMild, EndGoesOn DEF Custody
  <2> QED
    BY <1>2, <2>1 DEF Aloof, DrainEnds, baselineVars
<1>3. ASSUME NEW i \in Keys, NEW d \in Drains, WriteBegins(i, d) \/ WriteStep(i, d), i # k
      PROVE  Aloof(k)
  <2>1. Mild(k)
    BY <1>3, OtherBeginMild, OtherWriteMild
  <2>2. \E r : SetDrain(i, d, r)
    BY <1>3, StepSetsDrain, WriteStarts DEF StartWrite
  <2>3. HandsGoOn(k)
    BY <1>3, <2>2 DEF SetDrain, TypeOK, DrainTypeOK, HandsGoOn
  <2> QED
    BY <1>3, <2>1, <2>3, OtherBaselines DEF Aloof
<1>4. ASSUME NEW i \in Keys, NEW d \in Drains, DrainStep(i, d)
      PROVE  DrainEnds(i, d) \/ WriteBegins(i, d) \/ WriteStep(i, d)
  BY <1>4 DEF DrainStep, WriteStep
<1> QED
  BY <1>1, <1>2, <1>3, <1>4 DEF QueueStep

LEMMA RewrittenAloof ==
  ASSUME Ledger, NEW i \in Keys, NEW f \in Fields, NEW v \in Values, Rewritten(i, f, v),
         NEW k \in Keys, i # k
  PROVE  Aloof(k)
<1> USE DEF Ledger
<1>1. disk'[k] = disk[k]
  BY RewrittenFile
<1>2. UNCHANGED <<snapshots, queued, drains, pendingExternalMetadata, committedMetadata,
                  cancelledThrough, failedSnapshots, tmp, dir, landed, deletedAt, supersededAt,
                  leftover, crashedAt>>
  BY DEF Rewritten, queueVars, outcomeVars, baselineVars, historyVars
<1>3. Longer /\ Landed(k)' = Landed(k) /\ SnapsOf(k)' = SnapsOf(k)
  BY <1>2, HeapKept DEF Landed, SnapsOf
<1>4. LineGrows(k) /\ HandsSame(k) /\ FilesSame(k)
  BY <1>1, <1>2, <1>3 DEF LineGrows, HandsSame, FilesSame
<1> QED
  BY <1>2, <1>3, <1>4 DEF Aloof, Mild, HandsGoOn

\* Whatever happens, it is one of these to a session.
LEMMA ApplyIs ==
  ASSUME Ledger, SyncTypeOK, NEW i \in Keys, NEW header \in Metadata, Apply(i, header),
         NEW k \in Keys
  PROVE  \/ Aloof(k)
         \/ i = k /\ AbsorbExternal(k, header, memory'[k]) /\ memory'[k] \in Metadata
<1>1. memory'[i] \in Metadata
  BY ApplyType
<1>2. AbsorbExternal(i, header, memory'[i]) \/ UNCHANGED vars
  BY DEF Apply
<1> QED
  BY <1>1, <1>2, SameAloof, AbsorbAloof

LEMMA SyncStepOf ==
  ASSUME Synced, [SyncNext]_allVars, NEW k \in Keys
  PROVE  \/ Aloof(k)
         \/ \E seen \in Metadata, header \in Metadata : AbsorbExternal(k, seen, header)
         \/ \E d \in Drains : WriteBegins(k, d) \/ WriteStep(k, d)
         \/ \E f \in Fields, v \in Values : Rewritten(k, f, v)
<1> USE DEF Synced, Files
<1>0. TypeOK
  BY DEF Ledger
<1>1. ASSUME NEW i \in Keys, NEW f \in Fields, NEW v \in Values, Edit(i, f, v) \/ GuardedEdit(i, f, v)
      PROVE  Aloof(k)
  <2>1. memory'[i] \in Metadata
    BY <1>1, MutateType DEF Edit, GuardedEdit
  <2>2. Enqueue(i, memory'[i]) \/ EnqueueAndFlush(i, memory'[i])
    BY <1>1 DEF Edit, GuardedEdit
  <2> QED
    BY <2>1, <2>2, EnqueueAloof
<1>2. ASSUME NEW i \in Keys, AppliesDeferred(i)
      PROVE  Aloof(k) \/ \E seen \in Metadata, header \in Metadata : AbsorbExternal(k, seen, header)
  <2>1. CASE deferred[i] # None
    <3>1. PICK seen \in Metadata : Apply(i, seen)
      BY <1>2, <2>1 DEF AppliesDeferred, SyncTypeOK
    <3> QED
      BY <3>1, ApplyIs
  <2>2. CASE deferred[i] = None
    BY <1>2, <2>2, SameAloof DEF AppliesDeferred
  <2> QED
    BY <2>1, <2>2
<1>3. ASSUME NEW i \in Keys, WatcherFires(i)
      PROVE  Aloof(k) \/ \E seen \in Metadata, header \in Metadata : AbsorbExternal(k, seen, header)
  <2>1. UNCHANGED vars \/ (disk[i] # None /\ Apply(i, disk[i].header))
    BY <1>3 DEF WatcherFires
  <2>2. CASE disk[i] # None /\ Apply(i, disk[i].header)
    <3>1. PICK seen \in Metadata : Apply(i, seen)
      BY <1>0, <2>2 DEF TypeOK, FileTypeOK, File
    <3> QED
      BY <3>1, ApplyIs
  <2> QED
    BY <2>1, <2>2, SameAloof
<1>4. ASSUME NEW i \in Keys, GuardExpires(i) \/ TurnStarts(i) \/ TurnStops(i)
      PROVE  Aloof(k)
  BY <1>4, SameAloof DEF GuardExpires, TurnStarts, TurnStops
<1>5. ASSUME NEW i \in Keys, NEW f \in Fields, NEW v \in Values, ForeignEdit(i, f, v)
      PROVE  Aloof(k) \/ Rewritten(k, f, v)
  <2>1. Rewritten(i, f, v)
    BY <1>5 DEF ForeignEdit, Rewritten
  <2> QED
    BY <2>1, RewrittenAloof
<1>6. CASE QueueStep
  BY <1>6, QueueStepIs
<1>7. CASE UNCHANGED allVars
  BY <1>7, SameAloof DEF allVars
<1> QED
  BY <1>1, <1>2, <1>3, <1>4, <1>5, <1>6, <1>7 DEF SyncNext

----------------------------------------------------------------------------
(* An observation is held while something of the session is still to be written: *)
(* a write begun since it was made knows of it, and an older one has been        *)
(* superseded by the reconciliation that is in line.  Nothing is deleted here.   *)

Undeleted == \A k \in Keys : deletedAt[k] = 0

Knows(k, w) == (w.observed = pendingExternalMetadata[k].seq) <=> (w.snap > supersededAt[k])
ToWrite(k) == queued[k] # <<>> \/ failedSnapshots[k] # NoSnap
              \/ \E d \in Drains : drains[k][d].stage # "none"
Observing(k) ==
  /\ \A d \in Drains : drains[k][d].stage # "none" => drains[k][d].observed <= Len(snapshots)
  /\ pendingExternalMetadata[k] # None =>
       /\ pendingExternalMetadata[k].seq <= Len(snapshots)
       /\ ToWrite(k)
       /\ \A d \in Drains : drains[k][d].stage # "none" => Knows(k, drains[k][d])

LEMMA ObservedTyped ==
  ASSUME TypeOK, NEW k \in Keys
  PROVE  /\ \A d \in Drains : drains[k][d].observed \in Nat
         /\ pendingExternalMetadata[k] # None =>
              /\ pendingExternalMetadata[k].seq \in Nat
              /\ pendingExternalMetadata[k].seq # 0
              /\ pendingExternalMetadata[k].external \in Metadata
              /\ pendingExternalMetadata[k].localAt \in Metadata \cup {None}
         /\ Len(snapshots) \in Nat
<1>1. \A d \in Drains : drains[k][d].observed \in SnapIds \cup {0}
  BY DEF TypeOK, DrainTypeOK, DrainRecord
<1>2. \A n \in SnapIds : n \in Nat /\ n # 0
  BY BoundsAreNat DEF SnapIds
<1>3. pendingExternalMetadata[k] # None => pendingExternalMetadata[k] \in
        [seq : SnapIds, external : Metadata, localAt : Metadata \cup {None}]
  BY DEF TypeOK, BaselineTypeOK
<1>4. Len(snapshots) \in Nat
  BY LineTyped
<1>5. ASSUME pendingExternalMetadata[k] # None
      PROVE  /\ pendingExternalMetadata[k].seq \in SnapIds
             /\ pendingExternalMetadata[k].external \in Metadata
             /\ pendingExternalMetadata[k].localAt \in Metadata \cup {None}
  BY <1>3, <1>5
<1>6. ASSUME NEW d \in Drains
      PROVE  drains[k][d].observed \in Nat
  BY <1>1, <1>2
<1> QED
  BY <1>2, <1>4, <1>5, <1>6

LEMMA AloofObserving ==
  ASSUME TypeOK, NEW k \in Keys, Aloof(k), Observing(k)
  PROVE  Observing(k)'
<1>1. Len(snapshots) \in Nat /\ Len(snapshots') \in Nat /\ Len(snapshots) <= Len(snapshots')
  BY LineTyped DEF Aloof, Mild, Longer
<1>2. ASSUME NEW d \in Drains, drains'[k][d].stage # "none"
      PROVE  /\ drains[k][d].stage # "none" /\ drains'[k][d].snap = drains[k][d].snap
             /\ drains'[k][d].observed = drains[k][d].observed
  BY <1>2 DEF Aloof, HandsGoOn
<1>3. \A d \in Drains : drains[k][d].stage # "none" => drains'[k][d].stage # "none"
  BY DEF Aloof, HandsGoOn
<1>4. ToWrite(k) => ToWrite(k)'
  BY <1>3 DEF ToWrite, Aloof, Mild, LineGrows, FilesSame
<1>5. \A d \in Drains : drains'[k][d].stage # "none" => drains'[k][d].observed <= Len(snapshots')
  BY <1>1, <1>2, ObservedTyped DEF Observing
<1>6. ASSUME pendingExternalMetadata'[k] # None
      PROVE  /\ pendingExternalMetadata'[k].seq <= Len(snapshots')
             /\ ToWrite(k)'
             /\ \A d \in Drains : drains'[k][d].stage # "none" => Knows(k, drains[k][d])'
  <2>1. pendingExternalMetadata'[k] = pendingExternalMetadata[k] /\ supersededAt'[k] = supersededAt[k]
    BY DEF Aloof, Mild, FilesSame
  <2>2. pendingExternalMetadata[k].seq <= Len(snapshots')
    BY <1>1, <1>6, <2>1, ObservedTyped DEF Observing
  <2> QED
    BY <1>2, <1>4, <1>6, <2>1, <2>2 DEF Observing, Knows
<1> QED
  BY <1>5, <1>6 DEF Observing

LEMMA AbsorbTells ==
  ASSUME TypeOK, NEW k \in Keys, NEW seen \in Metadata, NEW header \in Metadata,
         AbsorbExternal(k, seen, header)
  PROVE  /\ UNCHANGED <<drains, disk, tmp, committedMetadata, deletedAt>>
         /\ queued'[k] = <<NewSnap>> /\ Len(snapshots') = NewSnap /\ NewSnap = Len(snapshots) + 1
         /\ supersededAt'[k] = Len(snapshots)
         /\ pendingExternalMetadata'[k] # None
         /\ pendingExternalMetadata'[k].seq = NewSnap
         /\ pendingExternalMetadata'[k].external = seen
<1> DEFINE p == [seq |-> NewSnap, external |-> seen,
                 localAt |-> IF lastEnqueuedMetadata[k] # None THEN lastEnqueuedMetadata[k]
                                                               ELSE committedMetadata[k]]
<1>1. NewSnap \in SnapIds /\ SnapIds \subseteq Nat
  BY AbsorbHeap, BoundsAreNat DEF SnapIds
<1>2. p \in [seq : Nat, external : Metadata, localAt : Metadata \cup {None}]
  BY <1>1 DEF TypeOK, BaselineTypeOK, IntakeTypeOK
<1>3. p # None /\ p.seq = NewSnap /\ p.external = seen
  BY <1>2, QueueAssumption
<1>4. pendingExternalMetadata' = [pendingExternalMetadata EXCEPT ![k] = p]
  BY DEF AbsorbExternal
<1> HIDE DEF p
<1>5. pendingExternalMetadata'[k] = p
  BY <1>4 DEF TypeOK, BaselineTypeOK
<1>6. Len(snapshots') = NewSnap /\ NewSnap = Len(snapshots) + 1
  <2>1. /\ snapshots' = Append(snapshots, Snapshot(k, header, FALSE, NewSnap))
        /\ Len(snapshots) < MaxHeap
    BY RoomForOne DEF AbsorbExternal
  <2> QED
    BY <1>1, <2>1, HeapGrows DEF NewSnap
<1>7. queued'[k] = <<NewSnap>> /\ supersededAt'[k] = Len(snapshots)
  BY DEF AbsorbExternal, TypeOK, IntakeTypeOK, HistoryTypeOK
<1>8. UNCHANGED <<drains, disk, tmp, committedMetadata, deletedAt>>
  BY DEF AbsorbExternal, fileVars
<1> QED
  BY <1>3, <1>5, <1>6, <1>7, <1>8

LEMMA AbsorbObserving ==
  ASSUME TypeOK, NEW k \in Keys, NEW seen \in Metadata, NEW header \in Metadata,
         AbsorbExternal(k, seen, header), Observing(k)
  PROVE  Observing(k)'
<1>1. /\ drains' = drains /\ queued'[k] = <<NewSnap>>
      /\ Len(snapshots') = Len(snapshots) + 1 /\ supersededAt'[k] = Len(snapshots)
      /\ pendingExternalMetadata'[k] # None
      /\ pendingExternalMetadata'[k].seq = Len(snapshots) + 1
  BY AbsorbTells
<1>2. Len(snapshots) \in Nat /\ \A d \in Drains : drains[k][d].observed \in Nat
  BY ObservedTyped
<1>3. ASSUME NEW d \in Drains, drains'[k][d].stage # "none"
      PROVE  /\ drains[k][d].observed <= Len(snapshots)
             /\ drains[k][d].snap \in 1 .. Len(snapshots)
  BY <1>1, <1>3, HandTyped DEF Observing, SnapsSoFar
<1>4. ASSUME NEW d \in Drains, drains'[k][d].stage # "none"
      PROVE  drains'[k][d].observed <= Len(snapshots') /\ Knows(k, drains[k][d])'
  <2>1. drains[k][d].observed # Len(snapshots) + 1 /\ ~(drains[k][d].snap > Len(snapshots))
    BY <1>2, <1>3, <1>4
  <2>2. drains[k][d].observed <= Len(snapshots) + 1
    BY <1>2, <1>3, <1>4
  <2> QED
    BY <1>1, <2>1, <2>2 DEF Knows
<1>5. ToWrite(k)' /\ pendingExternalMetadata'[k].seq <= Len(snapshots')
  BY <1>1, <1>2 DEF ToWrite
<1> QED
  BY <1>4, <1>5 DEF Observing

LEMMA RewrittenObserving ==
  ASSUME NEW k \in Keys, NEW f \in Fields, NEW v \in Values, Rewritten(k, f, v), Observing(k)
  PROVE  Observing(k)'
<1>1. UNCHANGED <<snapshots, queued, drains, pendingExternalMetadata, failedSnapshots, supersededAt>>
  BY DEF Rewritten, queueVars, outcomeVars, baselineVars, historyVars
<1> QED
  BY <1>1 DEF Observing, ToWrite, Knows

\* A write takes the observation held when it begins, and decides its header by it.
OnDisk(k) == IF disk[k] # None /\ committedMetadata[k] # None
                /\ disk[k].header # committedMetadata[k]
             THEN disk[k].header ELSE None
Chosen(k, s) == Resolve(snapshots[s].header, OnDisk(k), pendingExternalMetadata[k],
                        committedMetadata[k])

LEMMA BeginTells ==
  ASSUME TypeOK, FreshWritesNotCancelled, NEW k \in Keys, NEW d \in Drains, WriteBegins(k, d)
  PROVE  /\ drains'[k][d].header = Chosen(k, Head(queued[k]))
         /\ drains'[k][d].observed = IF pendingExternalMetadata[k] = None THEN 0
                                     ELSE pendingExternalMetadata[k].seq
         /\ UNCHANGED <<pendingExternalMetadata, committedMetadata, disk, tmp, snapshots,
                        supersededAt>>
<1> DEFINE s == Head(queued[k])
           header == Chosen(k, s)
           seen == IF pendingExternalMetadata[k] = None THEN 0
                                                        ELSE pendingExternalMetadata[k].seq
           rest == WritesLeft(k, d) - 1
           r == [drains[k][d] EXCEPT !.state = "running", !.stage = "writing",
                   !.remaining = rest, !.snap = s, !.header = header, !.observed = seen]
<1>1. SetDrain(k, d, r)
  BY WriteStarts DEF StartWrite, Chosen, OnDisk
<1>2. r.header = header /\ r.observed = seen
  <2>1. drains[k][d] \in DrainRecord
    BY DEF TypeOK, DrainTypeOK
  <2> HIDE DEF header, seen, rest, s
  <2> QED
    BY <2>1 DEF DrainRecord
<1> HIDE DEF r
<1>3. drains'[k][d] = r
  BY <1>1 DEF SetDrain, TypeOK, DrainTypeOK
<1>4. UNCHANGED <<pendingExternalMetadata, committedMetadata, disk, tmp, snapshots, supersededAt>>
  BY DEF WriteBegins, historyVars
<1> QED
  BY <1>2, <1>3, <1>4

LEMMA BeginObserving ==
  ASSUME Ledger, NEW k \in Keys, Filed(k), NEW d \in Drains, WriteBegins(k, d), Observing(k)
  PROVE  Observing(k)'
<1> USE DEF Ledger
<1>1. PICK s : s = Head(queued[k])
  OBVIOUS
<1>2. /\ drains'[k][d].stage = "writing" /\ drains'[k][d].snap = s
      /\ \A e \in Drains : e # d => drains'[k][e] = drains[k][e]
  BY <1>1, WriteStarts
<1>3. \A e \in Drains : e # d => drains'[k][e].stage = "none"
  BY <1>2, LoopAlone DEF WriteBegins, Custody
<1>4. /\ drains'[k][d].observed = IF pendingExternalMetadata[k] = None THEN 0
                                  ELSE pendingExternalMetadata[k].seq
      /\ UNCHANGED <<pendingExternalMetadata, snapshots, supersededAt>>
  BY BeginTells
<1>5. s > supersededAt[k]
  <2>1. s \in ToSet(queued[k])
    BY <1>1, LineTyped, TailOf DEF WriteBegins
  <2> QED
    BY <2>1 DEF Filed, FreshInLine
<1>6. ToWrite(k)'
  BY <1>2 DEF ToWrite
<1>7. drains'[k][d].observed <= Len(snapshots')
  BY <1>4, ObservedTyped DEF Observing
<1>8. pendingExternalMetadata[k] # None => Knows(k, drains[k][d])'
  BY <1>2, <1>4, <1>5 DEF Knows
<1>9. ASSUME NEW e \in Drains, drains'[k][e].stage # "none"
      PROVE  e = d
  BY <1>3, <1>9
<1> QED
  BY <1>4, <1>6, <1>7, <1>8, <1>9 DEF Observing

\* What a step of a write does to the header it writes, to the observation it took
\* and to the one that is held.
LEMMA StageTells ==
  ASSUME TypeOK, NEW k \in Keys, NEW d \in Drains, NEW stage,
         SetDrain(k, d, [drains[k][d] EXCEPT !.stage = stage])
  PROVE  /\ drains'[k][d].stage = stage /\ drains'[k][d].snap = drains[k][d].snap
         /\ drains'[k][d].header = drains[k][d].header
         /\ drains'[k][d].observed = drains[k][d].observed
<1>1. drains[k][d] \in DrainRecord
  BY DEF TypeOK, DrainTypeOK
<1>2. drains'[k][d] = [drains[k][d] EXCEPT !.stage = stage]
  BY DEF SetDrain, TypeOK, DrainTypeOK
<1> QED
  BY <1>1, <1>2 DEF DrainRecord

LEMMA AbandonTells ==
  ASSUME TypeOK, NEW k \in Keys, NEW d \in Drains, NEW committed, Abandon(k, d, committed)
  PROVE  /\ drains'[k][d].stage = "abandoning" /\ drains'[k][d].snap = drains[k][d].snap
         /\ drains'[k][d].header = drains[k][d].header
         /\ drains'[k][d].observed = drains[k][d].observed
<1> DEFINE away == committed /\ Discards(k, Generation(drains[k][d].snap))
           why == CancellationReason(k, Generation(drains[k][d].snap))
<1>1. drains[k][d] \in DrainRecord
  BY DEF TypeOK, DrainTypeOK
<1>2. drains'[k][d] = [drains[k][d] EXCEPT !.stage = "abandoning", !.discard = away, !.reason = why]
  BY DEF Abandon, SetDrain, TypeOK, DrainTypeOK
<1> HIDE DEF away, why
<1> QED
  BY <1>1, <1>2 DEF DrainRecord

LEMMA WriteTells ==
  ASSUME Ledger, NEW k \in Keys, NEW d \in Drains, WriteStep(k, d)
  PROVE  \/ drains'[k][d].stage = "none"
         \/ /\ drains'[k][d].stage # "none" /\ drains'[k][d].snap = drains[k][d].snap
            /\ drains'[k][d].header = drains[k][d].header
            /\ drains'[k][d].observed = drains[k][d].observed
<1> USE DEF Ledger
<1>1. CASE TmpWritten(k, d)
  BY <1>1, StageTells, AbandonTells DEF TmpWritten
<1>2. CASE TargetUnlinked(k, d)
  BY <1>2, StageTells, AbandonTells DEF TargetUnlinked
<1>3. CASE Renamed(k, d)
  <2>1. SetDrain(k, d, [drains[k][d] EXCEPT !.stage = "renamed"]) /\ TypeOK
    BY <1>3 DEF Renamed
  <2> QED
    BY ONLY <2>1, StageTells, k \in Keys, d \in Drains
<1>4. CASE RenameReturns(k, d)
  BY <1>4, EndSet, AbandonTells DEF RenameReturns, Commit
<1>5. CASE TmpDropped(k, d)
  BY <1>5, EndSet, StageTells DEF TmpDropped
<1>6. CASE FileDiscarded(k, d)
  BY <1>6, EndSet DEF FileDiscarded
<1>7. CASE WriteFails(k, d)
  <2>1. CASE Cancelled(k, Generation(drains[k][d].snap))
    <3> DEFINE why == CancellationReason(k, Generation(drains[k][d].snap))
    <3>1. drains'[k][d] = [drains[k][d] EXCEPT !.stage = "tidying", !.reason = why]
      BY <1>7, <2>1 DEF WriteFails, SetDrain, TypeOK, DrainTypeOK
    <3>2. drains[k][d] \in DrainRecord
      BY DEF TypeOK, DrainTypeOK
    <3> HIDE DEF why
    <3> QED
      BY <3>1, <3>2 DEF DrainRecord
  <2>2. CASE ~Cancelled(k, Generation(drains[k][d].snap))
    BY <1>7, <2>2, EndSet DEF WriteFails, RetainFailure
  <2> QED
    BY <2>1, <2>2
<1>8. CASE FailureTidied(k, d)
  BY <1>8, EndSet DEF FailureTidied
<1> QED
  BY <1>1, <1>2, <1>3, <1>4, <1>5, <1>6, <1>7, <1>8 DEF WriteStep

\* Only the commit of a write that knows of it lets an observation go.
LEMMA WriteLetsGo ==
  ASSUME Ledger, NEW k \in Keys, NEW d \in Drains, WriteStep(k, d)
  PROVE  \/ pendingExternalMetadata'[k] = pendingExternalMetadata[k] /\ ~RenameReturns(k, d)
         \/ /\ pendingExternalMetadata'[k] = pendingExternalMetadata[k]
            /\ RenameReturns(k, d) /\ Abandon(k, d, TRUE)
         \/ /\ RenameReturns(k, d) /\ Commit(k, d)
            /\ pendingExternalMetadata'[k] =
                 IF pendingExternalMetadata[k] # None
                    /\ pendingExternalMetadata[k].seq = drains[k][d].observed
                 THEN None ELSE pendingExternalMetadata[k]
<1> USE DEF Ledger
<1>1. CASE RenameReturns(k, d)
  <2>1. CASE Commit(k, d)
    <3>1. pendingExternalMetadata'[k] =
            IF pendingExternalMetadata[k] # None
               /\ pendingExternalMetadata[k].seq = drains[k][d].observed
            THEN None ELSE pendingExternalMetadata[k]
      BY <2>1 DEF Commit, TypeOK, BaselineTypeOK
    <3> QED
      BY <1>1, <2>1, <3>1
  <2>2. CASE Abandon(k, d, TRUE) /\ UNCHANGED pendingExternalMetadata
    BY <1>1, <2>2
  <2> QED
    BY <1>1, <2>1, <2>2 DEF RenameReturns
<1>2. CASE ~RenameReturns(k, d)
  <2>1. UNCHANGED pendingExternalMetadata
    BY <1>2 DEF WriteStep, TmpWritten, TargetUnlinked, Renamed, TmpDropped, FileDiscarded,
       WriteFails, FailureTidied, baselineVars
  <2> QED
    BY <1>2, <2>1
<1> QED
  BY <1>1, <1>2

\* A write that ends without a commit leaves something to write: it was superseded,
\* or it has failed.
LEMMA WriteWorks ==
  ASSUME Ledger, NEW k \in Keys, Filed(k), Undeleted, NEW d \in Drains, WriteStep(k, d)
  PROVE  \/ ToWrite(k)'
         \/ RenameReturns(k, d) /\ Commit(k, d) /\ drains'[k][d].stage = "none"
<1> USE DEF Ledger
<1>1. /\ AtWork(k, d) /\ UNCHANGED <<snapshots, queued, cancelledThrough, deletedAt, supersededAt>>
  BY WriteFrame
<1>2. drains[k][d].stage # "none" /\ HandMarks(k, drains[k][d])
  BY <1>1 DEF Filed, Marked, AtWork
<1>3. PICK s \in SnapsSoFar : s = drains[k][d].snap
  BY <1>2, HandTyped
<1>4. s \in Nat /\ s # 0 /\ supersededAt[k] \in Nat
  BY LandedTyped DEF SnapsSoFar
<1>5. ~Obsolete(k, s)
  BY <1>4 DEF Undeleted, Obsolete
<1>6. s <= supersededAt[k] => queued'[k] # <<>>
  BY <1>1, <1>2, <1>3, <1>5 DEF HandMarks
<1>7. RenameReturns(k, d) /\ Commit(k, d) => drains'[k][d].stage = "none"
  BY EndSet DEF Commit
<1>8. CASE drains'[k][d].stage # "none"
  BY <1>8 DEF ToWrite
<1>9. ASSUME drains'[k][d].stage = "none", ~Commit(k, d) \/ ~RenameReturns(k, d)
      PROVE  s <= supersededAt[k] \/ failedSnapshots'[k] = s
  <2>1. CASE TmpDropped(k, d) \/ FileDiscarded(k, d) \/ FailureTidied(k, d)
    <3>1. drains[k][d].stage \in {"discarding", "abandoning", "tidying"}
      BY <2>1 DEF TmpDropped, FileDiscarded, FailureTidied, AtStage
    <3> QED
      BY <1>2, <1>3, <1>5, <3>1 DEF HandMarks
  <2>2. CASE WriteFails(k, d)
    <3>1. CASE Cancelled(k, Generation(drains[k][d].snap))
      BY <1>2, <1>3, <1>5, <3>1, CancelledIsOvertaken
    <3>2. CASE ~Cancelled(k, Generation(drains[k][d].snap))
      BY <1>3, <2>2, <3>2 DEF WriteFails, RetainFailure, TypeOK, OutcomeTypeOK
    <3> QED
      BY <3>1, <3>2
  <2>3. CASE RenameReturns(k, d)
    <3>1. Abandon(k, d, TRUE)
      BY <1>9, <2>3 DEF RenameReturns
    <3> QED
      BY <1>9, <3>1, AbandonTells
  <2>4. CASE TmpWritten(k, d) \/ TargetUnlinked(k, d)
    <3>1. \/ Abandon(k, d, FALSE)
          \/ SetDrain(k, d, [drains[k][d] EXCEPT !.stage = "unlinking"])
          \/ SetDrain(k, d, [drains[k][d] EXCEPT !.stage = "renaming"])
      BY <2>4 DEF TmpWritten, TargetUnlinked
    <3>2. Abandon(k, d, FALSE) => drains'[k][d].stage = "abandoning"
      BY AbandonTells
    <3>3. ASSUME NEW stage, SetDrain(k, d, [drains[k][d] EXCEPT !.stage = stage])
          PROVE  drains'[k][d].stage = stage
      BY <3>3, StageTells
    <3> QED
      BY ONLY <1>9, <3>1, <3>2, <3>3
  <2>5. CASE Renamed(k, d)
    <3>1. SetDrain(k, d, [drains[k][d] EXCEPT !.stage = "renamed"]) /\ TypeOK
      BY <2>5 DEF Renamed
    <3> QED
      BY ONLY <1>9, <3>1, StageTells, k \in Keys, d \in Drains
  <2> QED
    BY <2>1, <2>2, <2>3, <2>4, <2>5 DEF WriteStep
<1>10. failedSnapshots'[k] = s => ToWrite(k)'
  BY <1>4 DEF ToWrite, NoSnap
<1>11. s <= supersededAt[k] => ToWrite(k)'
  BY <1>6 DEF ToWrite
<1> QED
  BY <1>7, <1>8, <1>9, <1>10, <1>11

LEMMA WriteLeavesWork ==
  ASSUME Ledger, NEW k \in Keys, Filed(k), Undeleted, NEW d \in Drains, WriteStep(k, d),
         Observing(k), pendingExternalMetadata'[k] # None
  PROVE  ToWrite(k)'
<1> USE DEF Ledger
<1>1. /\ AtWork(k, d) /\ UNCHANGED <<queued, deletedAt, supersededAt>>
  BY WriteFrame
<1>2. drains[k][d].stage # "none" /\ HandMarks(k, drains[k][d])
  BY <1>1 DEF Filed, Marked, AtWork
<1>3. PICK s \in SnapsSoFar : s = drains[k][d].snap
  BY <1>2, HandTyped
<1>4. s \in Nat /\ s # 0 /\ supersededAt[k] \in Nat
  BY LandedTyped DEF SnapsSoFar
<1>5. CASE RenameReturns(k, d) /\ Commit(k, d)
  <2>1. pendingExternalMetadata[k] # None /\ pendingExternalMetadata[k].seq # drains[k][d].observed
    BY <1>5 DEF Commit, TypeOK, BaselineTypeOK
  <2>2. ~(s > supersededAt[k])
    BY <1>2, <1>3, <2>1 DEF Observing, Knows
  <2>3. s <= supersededAt[k] /\ ~Obsolete(k, s)
    BY <1>4, <2>2 DEF Undeleted, Obsolete
  <2>4. queued'[k] # <<>>
    BY <1>1, <1>2, <1>3, <2>3 DEF HandMarks
  <2> QED
    BY <2>4 DEF ToWrite
<1> QED
  BY <1>5, WriteWorks

LEMMA WriteObserving ==
  ASSUME Ledger, NEW k \in Keys, Filed(k), Undeleted, NEW d \in Drains, WriteStep(k, d),
         Observing(k)
  PROVE  Observing(k)'
<1> USE DEF Ledger
<1>1. /\ AtWork(k, d) /\ (\A e \in Drains : e # d => drains'[k][e].stage = "none")
      /\ UNCHANGED <<snapshots, supersededAt>>
  BY WriteFrame
<1>2. pendingExternalMetadata'[k] = None \/ pendingExternalMetadata'[k] = pendingExternalMetadata[k]
  BY WriteLetsGo
<1>3. ASSUME NEW e \in Drains, drains'[k][e].stage # "none"
      PROVE  /\ e = d /\ drains[k][d].stage # "none" /\ drains'[k][d].snap = drains[k][d].snap
             /\ drains'[k][d].observed = drains[k][d].observed
  BY <1>1, <1>3, WriteTells DEF AtWork
<1>4. \A e \in Drains : drains'[k][e].stage # "none" => drains'[k][e].observed <= Len(snapshots')
  BY <1>1, <1>3 DEF Observing
<1>5. ASSUME pendingExternalMetadata'[k] # None
      PROVE  /\ pendingExternalMetadata'[k].seq <= Len(snapshots')
             /\ \A e \in Drains : drains'[k][e].stage # "none" => Knows(k, drains[k][e])'
  BY <1>1, <1>2, <1>3, <1>5 DEF Observing, Knows
<1> QED
  BY <1>4, <1>5, WriteLeavesWork DEF Observing

LEMMA UndeletedStep ==
  ASSUME Synced, Undeleted, [SyncNext]_allVars
  PROVE  Undeleted'
<1> SUFFICES ASSUME NEW k \in Keys
             PROVE  deletedAt'[k] = deletedAt[k]
  BY DEF Undeleted
<1> USE DEF Synced, Files
<1>1. CASE Aloof(k)
  BY <1>1 DEF Aloof, Mild, FilesSame
<1>2. ASSUME NEW seen \in Metadata, NEW header \in Metadata, AbsorbExternal(k, seen, header)
      PROVE  deletedAt' = deletedAt
  BY <1>2 DEF AbsorbExternal
<1>3. ASSUME NEW d \in Drains, WriteBegins(k, d)
      PROVE  deletedAt' = deletedAt
  BY <1>3 DEF WriteBegins, historyVars
<1>4. ASSUME NEW d \in Drains, WriteStep(k, d)
      PROVE  deletedAt' = deletedAt
  BY <1>4, WriteFrame
<1>5. ASSUME NEW f \in Fields, NEW v \in Values, Rewritten(k, f, v)
      PROVE  deletedAt' = deletedAt
  BY <1>5 DEF Rewritten, historyVars
<1> QED
  BY <1>1, <1>2, <1>3, <1>4, <1>5, SyncStepOf

LEMMA ObservingStep ==
  ASSUME Synced, Undeleted, [SyncNext]_allVars, NEW k \in Keys, Observing(k)
  PROVE  Observing(k)'
<1>1. Ledger /\ TypeOK /\ FreshWritesNotCancelled /\ Filed(k)
  BY DEF Synced, Files, Ledger
<1>2. ASSUME NEW d \in Drains, WriteBegins(k, d) \/ WriteStep(k, d)
      PROVE  Observing(k)'
  BY <1>1, <1>2, BeginObserving, WriteObserving
<1>3. ASSUME NEW seen \in Metadata, NEW header \in Metadata, AbsorbExternal(k, seen, header)
      PROVE  Observing(k)'
  BY <1>1, <1>3, AbsorbObserving
<1>4. ASSUME NEW f \in Fields, NEW v \in Values, Rewritten(k, f, v)
      PROVE  Observing(k)'
  BY <1>4, RewrittenObserving
<1>5. CASE Aloof(k)
  BY <1>1, <1>5, AloofObserving
<1> QED
  BY <1>2, <1>3, <1>4, <1>5, SyncStepOf

Observed == Synced /\ Undeleted /\ \A k \in Keys : Observing(k)

LEMMA ObservedInit == SyncInit => Observed
<1> SUFFICES ASSUME SyncInit
             PROVE  Undeleted /\ \A k \in Keys : Observing(k)
  BY SyncedInit DEF Observed
<1>1. /\ deletedAt = [k \in Keys |-> 0] /\ pendingExternalMetadata = [k \in Keys |-> None]
      /\ drains = [k \in Keys |-> [d \in Drains |-> IdleDrain]]
  BY DEF SyncInit, InitWith
<1>2. \A k \in Keys, d \in Drains : drains[k][d].stage = "none"
  BY <1>1 DEF IdleDrain
<1> QED
  BY <1>1, <1>2 DEF Undeleted, Observing

LEMMA ObservedStep == Observed /\ [SyncNext]_allVars => Observed'
  BY SyncedStep, UndeletedStep, ObservingStep DEF Observed

LEMMA ObservedHolds == SyncSpec => []Observed
  BY ObservedInit, ObservedStep, PTL DEF SyncSpec

LEMMA QuietHasNothingToWrite ==
  ASSUME Ledger, NEW k \in Keys, Quiet(k)
  PROVE  ~ToWrite(k)
<1>1. queued[k] = <<>> /\ tails[k] = NoDrain /\ failedSnapshots[k] = NoSnap
  BY DEF Quiet, hasPendingOrTail
<1>2. \A d \in Drains : drains[k][d].state = "idle"
  BY <1>1, NoTailNoDrain DEF Ledger
<1>3. \A d \in Drains : drains[k][d].stage = "none"
  BY <1>2 DEF Ledger, Custody, AtRest
<1> QED
  BY <1>1, <1>3 DEF ToWrite

\* Once a session is quiet no observation of it is held: each was carried by a
\* write, and none is left to shadow a later edit of the app's.
THEOREM ObservationsAreDischarged == SyncSpec => []ObservationDischarged
<1>1. Observed => ObservationDischarged
  BY QuietHasNothingToWrite DEF Observed, Observing, ObservationDischarged, Synced, Files
<1> QED
  BY <1>1, ObservedHolds, PTL

----------------------------------------------------------------------------
(* What the write that discharges an observation puts on disk.  In a session that *)
(* has run no turn the memory holds, of every field the app has not edited, what  *)
(* was last absorbed; what is in line since then is that memory; and the disk     *)
(* differs from the last header committed only where others have written.         *)

Remembered(k) == \A s \in SnapsOf(k) : s > supersededAt[k] =>
  \A f \in Fields \ edited[k] : snapshots[s].header[f] = memory[k][f]
TmpHeld(k) == \A d \in Drains :
  drains[k][d].stage \in {"unlinking", "renaming"} /\ tmp[k] # None =>
    tmp[k].header = drains[k][d].header
Mirroring(k) == \A f \in Mirrored \ edited[k] :
  memory[k][f] = pendingExternalMetadata[k].external[f]

\* The values of a field that are the observation's, or later edits of others.
Seen(k, f, v) == v = pendingExternalMetadata[k].external[f] \/ v \in foreign[k][f]
DiskExplained(k) == disk[k] # None => \A f \in Fields :
  /\ committedMetadata[k] # None /\ (\A d \in Drains : drains[k][d].stage # "renamed") =>
       Seen(k, f, disk[k].header[f]) \/ disk[k].header[f] = committedMetadata[k][f]
  /\ \A d \in Drains : drains[k][d].stage = "renamed" =>
       Seen(k, f, disk[k].header[f]) \/ disk[k].header[f] = drains[k][d].header[f]
HandsCarry(k) == \A d \in Drains : drains[k][d].stage # "none" /\ drains[k][d].snap > supersededAt[k] =>
  \A f \in Fields \ edited[k] : ~MemoryWasStale(k, f) => Seen(k, f, drains[k][d].header[f])

Carrying(k) ==
  /\ Remembered(k) /\ TmpHeld(k) /\ turn[k] = "idle"
  /\ pendingExternalMetadata[k] # None => Mirroring(k) /\ DiskExplained(k) /\ HandsCarry(k)
AllCarrying == NoTurn => \A k \in Keys : Carrying(k)

\* What a step does to the metadata of a session it leaves aloof, absorbs an edit
\* of, writes, or has a field rewritten of.
Tended(k) ==
  /\ Aloof(k) /\ turn'[k] = turn[k] /\ foreign'[k] = foreign[k] /\ edited[k] \subseteq edited'[k]
  /\ \A f \in Fields \ edited'[k] : memory'[k][f] = memory[k][f]
  /\ \A s \in SnapsOf(k)' : s \in SnapsOf(k) \/ snapshots'[s].header = memory'[k]
Apart(k) == /\ turn'[k] = turn[k] /\ foreign'[k] = foreign[k]
            /\ edited'[k] = edited[k] /\ memory'[k] = memory[k]
Absorbed(k) ==
  /\ disk[k] # None /\ memory'[k] \in Metadata /\ AbsorbExternal(k, disk[k].header, memory'[k])
  /\ memory'[k] = Mirror(k, disk[k].header)
  /\ foreign'[k] = Nothing /\ edited'[k] = edited[k] /\ turn'[k] = turn[k]
Disturbed(k, f, v) ==
  /\ Rewritten(k, f, v) /\ foreign'[k] = [foreign[k] EXCEPT ![f] = @ \cup {v}]
  /\ edited'[k] = edited[k] /\ memory'[k] = memory[k] /\ turn'[k] = turn[k]

LEMMA NoTurnBefore ==
  ASSUME SyncTypeOK, [SyncNext]_allVars, NoTurn'
  PROVE  NoTurn /\ ~\E i \in Keys : TurnStarts(i)
<1>1. left.turns \in Nat /\ left.turns <= MaxTurns /\ MaxTurns \in Nat
  BY SyncAssumption DEF SyncTypeOK
<1>2. ASSUME Use("turns")
      PROVE  FALSE
  <2>1. left'.turns = left.turns - 1
    BY <1>2 DEF Use, SyncTypeOK
  <2> QED
    BY <1>1, <2>1 DEF NoTurn
<1>3. ASSUME Use("edits") \/ Use("foreign") \/ left' = left
      PROVE  left'.turns = left.turns
  BY <1>3 DEF Use, SyncTypeOK
<1>4. \/ Use("turns") \/ Use("edits") \/ Use("foreign") \/ left' = left
  BY DEF SyncNext, Edit, GuardedEdit, Mutate, GuardExpires, TurnStarts, TurnStops,
         AppliesDeferred, WatcherFires, ForeignEdit, QueueStep, allVars, syncVars
<1> QED
  BY <1>2, <1>3, <1>4 DEF NoTurn, TurnStarts

LEMMA AppendedHeader ==
  ASSUME TypeOK, NEW i \in Keys, NEW header \in Metadata, NEW k \in Keys,
         Len(snapshots) < MaxHeap,
         NEW content \in SnapIds, NEW checked \in BOOLEAN,
         snapshots' = Append(snapshots, Snapshot(i, header, checked, content))
  PROVE  \A s \in SnapsOf(k)' : s \in SnapsOf(k) \/ (i = k /\ s = NewSnap /\ snapshots'[s].header = header)
<1>1. snapshots'[NewSnap] = Snapshot(i, header, checked, content)
  BY SnapshotsKept
<1>2. snapshots'[NewSnap].header = header
  <2>1. Snapshot(i, header, checked, content).header = header
    BY DEF Snapshot
  <2> QED
    BY <1>1, <2>1
<1> QED
  BY <1>2, HeapOf

LEMMA EditTends ==
  ASSUME Ledger, SyncTypeOK, NEW i \in Keys, NEW f \in Fields, NEW v \in Values,
         Edit(i, f, v) \/ GuardedEdit(i, f, v), NEW k \in Keys
  PROVE  Tended(k)
<1>0. TypeOK
  BY DEF Ledger
<1>1. /\ memory'[i] \in Metadata /\ Mutate(i, f, v)
      /\ Enqueue(i, memory'[i]) \/ EnqueueAndFlush(i, memory'[i])
  BY MutateType DEF Edit, GuardedEdit
<1>2. Aloof(k)
  BY <1>1, EnqueueAloof
<1>3. /\ snapshots' = Append(snapshots, Snapshot(i, memory'[i], FALSE, NewSnap))
      /\ Len(snapshots) < MaxHeap /\ NewSnap \in SnapIds
  BY <1>0, <1>1, RoomForOne DEF Enqueue, EnqueueAndFlush, PutEntry
<1>4. \A s \in SnapsOf(k)' : s \in SnapsOf(k) \/ snapshots'[s].header = memory'[k]
  <2> DEFINE h == memory'[i]
  <2>1. /\ h \in Metadata /\ FALSE \in BOOLEAN
        /\ snapshots' = Append(snapshots, Snapshot(i, h, FALSE, NewSnap))
    BY <1>1, <1>3
  <2> HIDE DEF h
  <2>2. \A s \in SnapsOf(k)' : s \in SnapsOf(k) \/ (i = k /\ s = NewSnap /\ snapshots'[s].header = h)
    BY <1>0, <1>3, <2>1, AppendedHeader
  <2> QED
    BY <2>2 DEF h
<1>5. turn'[k] = turn[k] /\ foreign'[k] = foreign[k]
  BY <1>1 DEF Mutate
<1>6. edited[k] \subseteq edited'[k]
  BY <1>1 DEF Mutate, SyncTypeOK
<1>7. \A g \in Fields \ edited'[k] : memory'[k][g] = memory[k][g]
  <2>1. CASE i = k
    <3>1. edited'[k] = edited[k] \cup {f}
      BY <1>1, <2>1 DEF Mutate, SyncTypeOK
    <3>2. memory'[k] = [memory[k] EXCEPT ![f] = v]
      BY <1>1, <2>1 DEF Mutate, SyncTypeOK
    <3>3. memory[k] \in [Fields -> Values]
      BY DEF SyncTypeOK, Metadata
    <3> QED
      BY <3>1, <3>2, <3>3
  <2>2. CASE i # k
    BY <1>1, <2>2 DEF Mutate, SyncTypeOK
  <2> QED
    BY <2>1, <2>2
<1> QED
  BY <1>2, <1>4, <1>5, <1>6, <1>7 DEF Tended

LEMMA SameTends ==
  ASSUME Ledger, NEW k \in Keys, Aloof(k), UNCHANGED snapshots, Apart(k)
  PROVE  Tended(k)
<1>1. SnapsOf(k)' = SnapsOf(k)
  BY DEF SnapsOf
<1> QED
  BY <1>1 DEF Tended, Apart

LEMMA WatcherTends ==
  ASSUME Ledger, SyncTypeOK, NEW i \in Keys, WatcherFires(i), NEW k \in Keys, turn[i] = "idle"
  PROVE  Tended(k) \/ Absorbed(k)
<1>0. TypeOK
  BY DEF Ledger
<1>1. turn'[k] = turn[k] /\ edited'[k] = edited[k]
  BY DEF WatcherFires
<1>2. CASE UNCHANGED <<vars, memory, foreign>>
  <2>1. Aloof(k) /\ UNCHANGED snapshots
    BY <1>2, SameAloof DEF vars, queueVars
  <2> QED
    BY <1>1, <1>2, <2>1, SameTends DEF Apart
<1>3. CASE disk[i] # None /\ ~SelfWrite(i, disk[i].header) /\ Apply(i, disk[i].header)
  <2>1. PICK seen \in Metadata : seen = disk[i].header
    BY <1>0, <1>3 DEF TypeOK, FileTypeOK, File
  <2>2. /\ memory'[i] = Mirror(i, seen) /\ memory'[i] \in Metadata
        /\ AbsorbExternal(i, seen, memory'[i])
        /\ memory' = [memory EXCEPT ![i] = Mirror(i, seen)]
        /\ foreign' = [foreign EXCEPT ![i] = Nothing]
    BY <1>3, <2>1, ApplyType DEF Apply, SelfWrite
  <2>3. CASE i = k
    <3>1. foreign'[k] = Nothing
      BY <2>2, <2>3 DEF SyncTypeOK
    <3> QED
      BY <1>1, <1>3, <2>1, <2>2, <2>3, <3>1 DEF Absorbed
  <2>4. CASE i # k
    <3>1. Aloof(k)
      BY <2>2, <2>4, AbsorbAloof
    <3>2. \A s \in SnapsOf(k)' : s \in SnapsOf(k)
      BY <1>0, <2>2, <2>4, AbsorbHeap
    <3>3. memory'[k] = memory[k] /\ foreign'[k] = foreign[k]
      BY <2>2, <2>4 DEF SyncTypeOK
    <3> QED
      BY <1>1, <3>1, <3>2, <3>3 DEF Tended
  <2> QED
    BY <2>3, <2>4
<1> QED
  BY <1>2, <1>3 DEF WatcherFires

\* Every step is one of the four to a session that has run no turn.
LEMMA QuietStepOf ==
  ASSUME Synced, [SyncNext]_allVars, NoTurn', \A i \in Keys : turn[i] = "idle", NEW k \in Keys
  PROVE  \/ Tended(k)
         \/ Absorbed(k)
         \/ Apart(k) /\ \E d \in Drains : WriteBegins(k, d) \/ WriteStep(k, d)
         \/ \E f \in Fields, v \in Values : Disturbed(k, f, v)
<1> USE DEF Synced, Files
<1>0. TypeOK
  BY DEF Ledger
<1>1. ASSUME NEW i \in Keys, NEW f \in Fields, NEW v \in Values, Edit(i, f, v) \/ GuardedEdit(i, f, v)
      PROVE  Tended(k)
  BY <1>1, EditTends
<1>2. ASSUME NEW i \in Keys, WatcherFires(i)
      PROVE  Tended(k) \/ Absorbed(k)
  BY <1>2, WatcherTends
<1>3. ASSUME NEW i \in Keys, GuardExpires(i)
      PROVE  Tended(k)
  <2>1. Aloof(k) /\ UNCHANGED snapshots /\ Apart(k)
    BY <1>3, SameAloof DEF GuardExpires, Apart, vars, queueVars
  <2> QED
    BY <2>1, SameTends
<1>4. ASSUME NEW i \in Keys, TurnStarts(i) \/ TurnStops(i) \/ AppliesDeferred(i)
      PROVE  FALSE
  <2>1. ~TurnStarts(i)
    BY NoTurnBefore
  <2> QED
    BY <1>4, <2>1 DEF TurnStops, AppliesDeferred
<1>5. ASSUME NEW i \in Keys, NEW f \in Fields, NEW v \in Values, ForeignEdit(i, f, v)
      PROVE  Tended(k) \/ Disturbed(k, f, v)
  <2>1. Rewritten(i, f, v) /\ UNCHANGED <<memory, turn, edited>>
    BY <1>5 DEF ForeignEdit, Rewritten
  <2>2. foreign' = [foreign EXCEPT ![i] = [foreign[i] EXCEPT ![f] = @ \cup {v}]]
    BY <1>5 DEF ForeignEdit
  <2>3. CASE i = k
    <3>1. foreign'[k] = [foreign[k] EXCEPT ![f] = @ \cup {v}]
      BY <2>2, <2>3 DEF SyncTypeOK
    <3> QED
      BY <2>1, <2>3, <3>1 DEF Disturbed
  <2>4. CASE i # k
    <3>1. Aloof(k) /\ UNCHANGED snapshots
      BY <2>1, <2>4, RewrittenAloof DEF Rewritten, queueVars
    <3>2. foreign'[k] = foreign[k]
      BY <2>2, <2>4 DEF SyncTypeOK
    <3> QED
      BY <2>1, <3>1, <3>2, SameTends DEF Apart
  <2> QED
    BY <2>3, <2>4
<1>6. CASE QueueStep
  <2>1. Apart(k)
    BY <1>6 DEF QueueStep, Apart
  <2>2. UNCHANGED snapshots
    <3>1. ASSUME NEW i \in Keys, NEW d \in Drains, DrainStep(i, d)
          PROVE  UNCHANGED snapshots
      BY <3>1 DEF DrainStep, WriteBegins, DrainEnds, TmpWritten, TargetUnlinked, Renamed,
         RenameReturns, TmpDropped, FileDiscarded, WriteFails, FailureTidied, queueVars
    <3> QED
      BY <1>6, <3>1 DEF QueueStep, TimerFires
  <2> QED
    BY <1>6, <2>1, <2>2, QueueStepIs, SameTends
<1>7. CASE UNCHANGED allVars
  <2>1. Aloof(k) /\ UNCHANGED snapshots /\ Apart(k)
    BY <1>7, SameAloof DEF allVars, syncVars, Apart, vars, queueVars
  <2> QED
    BY <2>1, SameTends
<1> QED
  BY <1>1, <1>2, <1>3, <1>4, <1>5, <1>6, <1>7 DEF SyncNext

LEMMA TendedCarrying ==
  ASSUME Ledger, SyncTypeOK, NEW k \in Keys, Tended(k), Carrying(k)
  PROVE  Carrying(k)'
<1> USE DEF Ledger
<1>1. /\ pendingExternalMetadata'[k] = pendingExternalMetadata[k]
      /\ committedMetadata'[k] = committedMetadata[k] /\ disk'[k] = disk[k] /\ tmp'[k] = tmp[k]
      /\ supersededAt'[k] = supersededAt[k] /\ turn'[k] = turn[k] /\ foreign'[k] = foreign[k]
  BY DEF Tended, Aloof, Mild, FilesSame
<1>2. \A s \in SnapsOf(k) : snapshots'[s] = snapshots[s]
  BY DEF Tended, Aloof, Mild, Longer, SnapsOf, SnapsSoFar
<1>3. \A f \in Fields \ edited'[k] : f \notin edited[k] /\ memory'[k][f] = memory[k][f]
  BY DEF Tended
<1>4. Remembered(k)'
  <2> SUFFICES ASSUME NEW s \in SnapsOf(k)', s > supersededAt'[k], NEW f \in Fields \ edited'[k]
               PROVE  snapshots'[s].header[f] = memory'[k][f]
    BY DEF Remembered
  <2>1. CASE s \in SnapsOf(k)
    BY <1>1, <1>2, <1>3, <2>1 DEF Carrying, Remembered
  <2>2. CASE snapshots'[s].header = memory'[k]
    BY <2>2
  <2> QED
    BY <2>1, <2>2 DEF Tended
<1>5. ASSUME NEW d \in Drains, drains'[k][d].stage # "none"
      PROVE  /\ drains'[k][d].stage = drains[k][d].stage /\ drains'[k][d].snap = drains[k][d].snap
             /\ drains'[k][d].header = drains[k][d].header
  BY <1>5 DEF Tended, Aloof, HandsGoOn
<1>6. \A d \in Drains : drains[k][d].stage = drains'[k][d].stage
  BY DEF Tended, Aloof, HandsGoOn
<1>7. TmpHeld(k)'
  BY <1>1, <1>5 DEF Carrying, TmpHeld
<1>8. ASSUME pendingExternalMetadata'[k] # None
      PROVE  Mirroring(k)' /\ DiskExplained(k)' /\ HandsCarry(k)'
  <2>1. Mirroring(k) /\ DiskExplained(k) /\ HandsCarry(k)
    BY <1>1, <1>8 DEF Carrying
  <2>2. Mirroring(k)'
    BY <1>1, <1>3, <2>1, SyncAssumption DEF Mirroring
  <2>3. \A f, v : Seen(k, f, v)' <=> Seen(k, f, v)
    BY <1>1 DEF Seen
  <2>4. DiskExplained(k)'
    <3> SUFFICES ASSUME disk'[k] # None, NEW f \in Fields
                 PROVE  /\ committedMetadata'[k] # None /\ (\A d \in Drains : drains'[k][d].stage # "renamed") =>
                             Seen(k, f, disk[k].header[f])' \/ disk'[k].header[f] = committedMetadata'[k][f]
                        /\ \A d \in Drains : drains'[k][d].stage = "renamed" =>
                             Seen(k, f, disk[k].header[f])' \/ disk'[k].header[f] = drains'[k][d].header[f]
      BY DEF DiskExplained
    <3>1. Seen(k, f, disk[k].header[f])' <=> Seen(k, f, disk[k].header[f])
      BY <1>1 DEF Seen
    <3>2. /\ committedMetadata[k] # None /\ (\A d \in Drains : drains[k][d].stage # "renamed") =>
                Seen(k, f, disk[k].header[f]) \/ disk[k].header[f] = committedMetadata[k][f]
          /\ \A d \in Drains : drains[k][d].stage = "renamed" =>
                Seen(k, f, disk[k].header[f]) \/ disk[k].header[f] = drains[k][d].header[f]
      BY <1>1, <2>1 DEF DiskExplained
    <3> QED
      BY <1>1, <1>5, <1>6, <3>1, <3>2
  <2>5. HandsCarry(k)'
    <3> SUFFICES ASSUME NEW d \in Drains, drains'[k][d].stage # "none",
                        drains'[k][d].snap > supersededAt'[k],
                        NEW f \in Fields \ edited'[k], ~MemoryWasStale(k, f)'
                 PROVE  Seen(k, f, drains[k][d].header[f])'
      BY DEF HandsCarry
    <3>1. ~MemoryWasStale(k, f)
      BY <1>1, <1>3 DEF MemoryWasStale
    <3>2. Seen(k, f, drains[k][d].header[f])
      BY <1>1, <1>3, <1>5, <2>1, <3>1 DEF HandsCarry
    <3> QED
      BY <1>1, <1>5, <3>2 DEF Seen
  <2> QED
    BY <2>2, <2>4, <2>5
<1> QED
  BY <1>1, <1>4, <1>7, <1>8 DEF Carrying

LEMMA AbsorbedCarrying ==
  ASSUME Ledger, SyncTypeOK, NEW k \in Keys, Absorbed(k), Carrying(k)
  PROVE  Carrying(k)'
<1> USE DEF Ledger
<1>1. PICK seen \in Metadata : seen = disk[k].header
  BY DEF Absorbed, TypeOK, FileTypeOK, File
<1>2. PICK header \in Metadata : header = memory'[k]
  BY DEF Absorbed
<1>3. AbsorbExternal(k, seen, header)
  BY <1>1, <1>2 DEF Absorbed
<1>4. /\ UNCHANGED <<drains, disk, tmp, committedMetadata>>
      /\ NewSnap = Len(snapshots) + 1 /\ supersededAt'[k] = Len(snapshots)
      /\ pendingExternalMetadata'[k].external = seen
  BY <1>3, AbsorbTells
<1>5. Remembered(k)'
  <2>1. /\ snapshots' = Append(snapshots, Snapshot(k, header, FALSE, NewSnap))
        /\ Len(snapshots) < MaxHeap /\ NewSnap \in SnapIds
    BY <1>3, RoomForOne DEF AbsorbExternal
  <2>2. \A s \in SnapsOf(k)' : s \in SnapsOf(k) \/ snapshots'[s].header = header
    BY <2>1, AppendedHeader
  <2>3. \A s \in SnapsOf(k) : ~(s > supersededAt'[k])
    BY <1>4, LineTyped DEF SnapsOf
  <2> QED
    BY <1>2, <2>2, <2>3 DEF Remembered
<1>6. TmpHeld(k)'
  BY <1>4 DEF Carrying, TmpHeld
<1>7. Mirroring(k)'
  <2>1. \A f \in Mirrored : f \in Fields /\ memory'[k][f] = seen[f]
    BY <1>1, SyncAssumption DEF Absorbed, Mirror
  <2> QED
    BY <1>4, <2>1 DEF Mirroring
<1>8. DiskExplained(k)'
  BY <1>1, <1>4 DEF DiskExplained, Seen
<1>9. HandsCarry(k)'
  <2>1. \A d \in Drains : drains[k][d].stage # "none" => ~(drains[k][d].snap > Len(snapshots))
    BY HandTyped, LineTyped DEF SnapsSoFar
  <2> QED
    BY <1>4, <2>1 DEF HandsCarry
<1> QED
  BY <1>5, <1>6, <1>7, <1>8, <1>9 DEF Carrying, Absorbed

LEMMA DisturbedCarrying ==
  ASSUME Ledger, SyncTypeOK, NEW k \in Keys, NEW f \in Fields, NEW v \in Values,
         Disturbed(k, f, v), Carrying(k)
  PROVE  Carrying(k)'
<1> USE DEF Ledger
<1>1. /\ UNCHANGED <<snapshots, drains, tmp, committedMetadata, pendingExternalMetadata, supersededAt>>
      /\ edited'[k] = edited[k] /\ memory'[k] = memory[k] /\ turn'[k] = turn[k]
  BY DEF Disturbed, Rewritten, queueVars, baselineVars, historyVars
<1>2. /\ disk[k] # None /\ disk'[k].header = [disk[k].header EXCEPT ![f] = v]
      /\ disk[k].header \in [Fields -> Values]
  BY RewrittenFile DEF Disturbed, Rewritten, TypeOK, FileTypeOK, File, Metadata
<1>3. foreign'[k] = [foreign[k] EXCEPT ![f] = @ \cup {v}] /\ foreign[k] \in [Fields -> SUBSET Values]
  BY DEF Disturbed, SyncTypeOK
<1>4. \A g \in Fields : \A x : x \in foreign[k][g] => x \in foreign'[k][g]
  BY <1>3
<1>5. v \in foreign'[k][f]
  BY <1>3
<1>6. \A g \in Fields : g # f => disk'[k].header[g] = disk[k].header[g]
  BY <1>2
<1>7. disk'[k].header[f] = v
  BY <1>2
<1>8. Remembered(k)' /\ TmpHeld(k)'
  BY <1>1 DEF Carrying, Remembered, TmpHeld, SnapsOf
<1>9. ASSUME pendingExternalMetadata'[k] # None
      PROVE  Mirroring(k)' /\ DiskExplained(k)' /\ HandsCarry(k)'
  <2>1. Mirroring(k) /\ DiskExplained(k) /\ HandsCarry(k)
    BY <1>1, <1>9 DEF Carrying
  <2>2. Mirroring(k)'
    BY <1>1, <2>1 DEF Mirroring
  <2>3. DiskExplained(k)'
    <3>1. ASSUME NEW g \in Fields, g # f
          PROVE  /\ committedMetadata'[k] # None /\ (\A d \in Drains : drains'[k][d].stage # "renamed") =>
                      Seen(k, g, disk[k].header[g])' \/ disk'[k].header[g] = committedMetadata'[k][g]
                 /\ \A d \in Drains : drains'[k][d].stage = "renamed" =>
                      Seen(k, g, disk[k].header[g])' \/ disk'[k].header[g] = drains'[k][d].header[g]
      BY <1>1, <1>2, <1>4, <1>6, <2>1, <3>1 DEF DiskExplained, Seen
    <3>2. Seen(k, f, disk[k].header[f])'
      BY <1>5, <1>7 DEF Seen
    <3> QED
      BY <3>1, <3>2 DEF DiskExplained
  <2>4. HandsCarry(k)'
    BY <1>1, <1>4, <2>1 DEF HandsCarry, MemoryWasStale, Seen
  <2> QED
    BY <2>2, <2>3, <2>4
<1> QED
  BY <1>1, <1>8, <1>9 DEF Carrying

\* A write that begins takes a header the observation, later edits, and the memory
\* that mirrors them account for.
LEMMA ChosenIsSeen ==
  ASSUME Ledger, NEW k \in Keys, Carrying(k), pendingExternalMetadata[k] # None,
         \A d \in Drains : drains[k][d].stage = "none",
         NEW s \in SnapsOf(k), s > supersededAt[k],
         NEW f \in Fields \ edited[k], ~MemoryWasStale(k, f)
  PROVE  Seen(k, f, Chosen(k, s)[f])
<1> DEFINE p == pendingExternalMetadata[k]
           local == snapshots[s].header
           appMoved == p.localAt # None /\ local[f] # p.localAt[f]
           diskMoved == OnDisk(k) # None /\ OnDisk(k)[f] # committedMetadata[k][f]
<1>1. Chosen(k, s)[f] = IF appMoved THEN local[f]
                        ELSE IF diskMoved THEN OnDisk(k)[f] ELSE p.external[f]
  BY DEF Chosen, Resolve
<1>2. local[f] = memory[k][f]
  BY DEF Carrying, Remembered
<1>3. CASE appMoved
  <2>1. f \in Mirrored
    BY <1>2, <1>3 DEF MemoryWasStale
  <2>2. memory[k][f] = p.external[f]
    BY <2>1 DEF Carrying, Mirroring
  <2> QED
    BY <1>1, <1>2, <1>3, <2>2 DEF Seen
<1>4. CASE ~appMoved /\ diskMoved
  <2>1. disk[k] # None /\ committedMetadata[k] # None /\ OnDisk(k) = disk[k].header
    BY <1>4 DEF OnDisk
  <2>2. disk[k].header[f] # committedMetadata[k][f]
    BY <1>4, <2>1
  <2>3. \A d \in Drains : drains[k][d].stage # "renamed"
    OBVIOUS
  <2>4. DiskExplained(k)
    BY DEF Carrying
  <2>5. Seen(k, f, disk[k].header[f])
    BY ONLY <2>1, <2>2, <2>3, <2>4, f \in Fields \ edited[k] DEF DiskExplained
  <2> QED
    BY <1>1, <1>4, <2>1, <2>5
<1>5. CASE ~appMoved /\ ~diskMoved
  BY <1>1, <1>5 DEF Seen
<1> QED
  BY <1>3, <1>4, <1>5

LEMMA BeginCarrying ==
  ASSUME Ledger, NEW k \in Keys, Filed(k), NEW d \in Drains, WriteBegins(k, d), Apart(k),
         Carrying(k)
  PROVE  Carrying(k)'
<1> USE DEF Ledger
<1>1. PICK s : s = Head(queued[k])
  OBVIOUS
<1>2. /\ drains'[k][d].stage = "writing" /\ drains'[k][d].snap = s
      /\ \A e \in Drains : e # d => drains'[k][e] = drains[k][e]
  BY <1>1, WriteStarts
<1>3. \A e \in Drains : drains[k][e].stage = "none"
  BY LoopAlone DEF WriteBegins, Custody
<1>4. \A e \in Drains : drains'[k][e].stage \in {"none", "writing"}
                        /\ (drains'[k][e].stage # "none" => e = d)
  BY <1>2, <1>3
<1>5. /\ drains'[k][d].header = Chosen(k, s)
      /\ UNCHANGED <<pendingExternalMetadata, committedMetadata, disk, tmp, snapshots, supersededAt>>
  BY <1>1, BeginTells
<1>6. s \in SnapsOf(k) /\ s > supersededAt[k]
  <2>1. s \in ToSet(queued[k])
    BY <1>1, LineTyped, TailOf DEF WriteBegins
  <2>2. s \in SnapsSoFar /\ snapshots[s].key = k
    BY <2>1, LineTyped DEF Custody, InLine
  <2> QED
    BY <2>1, <2>2 DEF Filed, FreshInLine, SnapsOf, SnapsSoFar
<1>7. Remembered(k)' /\ turn'[k] = "idle"
  BY <1>5 DEF Carrying, Remembered, SnapsOf, Apart
<1>8. TmpHeld(k)'
  BY <1>4 DEF TmpHeld
<1>9. ASSUME pendingExternalMetadata'[k] # None
      PROVE  Mirroring(k)' /\ DiskExplained(k)' /\ HandsCarry(k)'
  <2>1. Mirroring(k) /\ DiskExplained(k)
    BY <1>5, <1>9 DEF Carrying
  <2>2. Mirroring(k)'
    BY <1>5, <2>1 DEF Mirroring, Apart
  <2>3. DiskExplained(k)'
    <3>1. \A e \in Drains : drains[k][e].stage # "renamed" /\ drains'[k][e].stage # "renamed"
      BY <1>3, <1>4
    <3> QED
      BY <1>5, <2>1, <3>1 DEF DiskExplained, Seen, Apart
  <2>4. ASSUME NEW f \in Fields \ edited[k], ~MemoryWasStale(k, f)
        PROVE  Seen(k, f, Chosen(k, s)[f])
    BY <1>3, <1>5, <1>6, <1>9, <2>4, ChosenIsSeen
  <2>5. HandsCarry(k)'
    <3> SUFFICES ASSUME NEW e \in Drains, drains'[k][e].stage # "none",
                        NEW f \in Fields \ edited'[k], ~MemoryWasStale(k, f)'
                 PROVE  Seen(k, f, drains[k][e].header[f])'
      BY DEF HandsCarry
    <3>1. e = d /\ f \in Fields \ edited[k] /\ ~MemoryWasStale(k, f)
      BY <1>4, <1>5 DEF Apart, MemoryWasStale
    <3>2. Seen(k, f, Chosen(k, s)[f])
      BY <2>4, <3>1
    <3> QED
      BY <1>5, <3>1, <3>2 DEF Seen, Apart
  <2> QED
    BY <2>2, <2>3, <2>5
<1> QED
  BY <1>7, <1>8, <1>9 DEF Carrying

\* What a step of a write does to the files and to the baseline they are compared with.
LEMMA WriteDisk ==
  ASSUME Ledger, NEW k \in Keys, NEW d \in Drains, WriteStep(k, d)
  PROVE  \/ /\ Renamed(k, d) /\ drains[k][d].stage = "renaming" /\ tmp[k] # None
            /\ disk'[k] = tmp[k] /\ tmp'[k] = None /\ drains'[k][d].stage = "renamed"
            /\ committedMetadata'[k] = committedMetadata[k]
         \/ /\ RenameReturns(k, d) /\ drains[k][d].stage = "renamed" /\ UNCHANGED <<disk, tmp>>
            /\ drains'[k][d].stage \in {"none", "abandoning"}
            /\ committedMetadata'[k] = drains[k][d].header
         \/ /\ drains[k][d].stage # "renamed" /\ drains'[k][d].stage # "renamed"
            /\ committedMetadata'[k] \in {committedMetadata[k], None}
            /\ disk'[k] \in {disk[k], None}
            /\ committedMetadata'[k] = committedMetadata[k] \/ disk'[k] = None
            /\ \/ tmp'[k] = None
               \/ tmp'[k] = tmp[k] /\ drains[k][d].stage \in {"unlinking", "renaming"}
               \/ tmp'[k] = tmp[k] /\ drains'[k][d].stage \in {"none", "abandoning", "tidying"}
               \/ tmp'[k].header = drains[k][d].header
<1> USE DEF Ledger
<1>0. disk \in [Keys -> File \cup {None}] /\ tmp \in [Keys -> File \cup {None}]
      /\ committedMetadata \in [Keys -> Metadata \cup {None}]
  BY DEF TypeOK, FileTypeOK, BaselineTypeOK
<1>a. ASSUME NEW stage, SetDrain(k, d, [drains[k][d] EXCEPT !.stage = stage])
      PROVE  drains'[k][d].stage = stage
  BY <1>a, StageTells
<1>b. ASSUME NEW answer, EndWrite(k, d, answer)
      PROVE  drains'[k][d].stage = "none"
  BY <1>b, EndSet
<1>c. ASSUME NEW gone \in BOOLEAN, Abandon(k, d, gone)
      PROVE  drains'[k][d].stage = "abandoning"
  BY <1>c, AbandonTells
<1>1. CASE Renamed(k, d)
  <2>1. /\ drains[k][d].stage = "renaming" /\ tmp[k] # None
        /\ disk' = [disk EXCEPT ![k] = tmp[k]] /\ tmp' = [tmp EXCEPT ![k] = None]
        /\ SetDrain(k, d, [drains[k][d] EXCEPT !.stage = "renamed"])
        /\ UNCHANGED committedMetadata
    BY ONLY <1>1 DEF Renamed, AtStage, baselineVars
  <2>2. drains'[k][d].stage = "renamed"
    BY ONLY <1>a, <2>1
  <2>3. disk'[k] = tmp[k] /\ tmp'[k] = None
    BY ONLY <1>0, <2>1, k \in Keys
  <2> QED
    BY ONLY <1>1, <2>1, <2>2, <2>3
<1>2. CASE RenameReturns(k, d)
  <2>1. /\ drains[k][d].stage = "renamed" /\ UNCHANGED <<disk, tmp>>
        /\ committedMetadata' = [committedMetadata EXCEPT ![k] = drains[k][d].header]
        /\ Abandon(k, d, TRUE) \/ EndWrite(k, d, "ok")
    BY ONLY <1>2 DEF RenameReturns, AtStage, fileVars, Commit
  <2>2. drains'[k][d].stage \in {"none", "abandoning"}
    BY ONLY <1>b, <1>c, <2>1
  <2>3. committedMetadata'[k] = drains[k][d].header
    BY ONLY <1>0, <2>1, k \in Keys
  <2> QED
    BY ONLY <1>2, <2>1, <2>2, <2>3
<1>3. CASE TmpWritten(k, d)
  <2> DEFINE file == [content |-> snapshots[drains[k][d].snap].content, header |-> drains[k][d].header]
  <2>1. /\ drains[k][d].stage = "writing" /\ UNCHANGED <<disk, committedMetadata>>
        /\ tmp' = [tmp EXCEPT ![k] = file]
        /\ Abandon(k, d, FALSE) \/ SetDrain(k, d, [drains[k][d] EXCEPT !.stage = "unlinking"])
    BY ONLY <1>3 DEF TmpWritten, AtStage, baselineVars
  <2>2. file.header = drains[k][d].header
    OBVIOUS
  <2> HIDE DEF file
  <2>3. drains'[k][d].stage \in {"abandoning", "unlinking"}
    BY ONLY <1>a, <1>c, <2>1
  <2>4. tmp'[k] = file
    BY ONLY <1>0, <2>1, k \in Keys
  <2> QED
    BY ONLY <2>1, <2>2, <2>3, <2>4
<1>4. CASE TargetUnlinked(k, d)
  <2>1. /\ drains[k][d].stage = "unlinking" /\ UNCHANGED <<tmp, committedMetadata>>
        /\ disk' = disk \/ disk' = [disk EXCEPT ![k] = None]
        /\ Abandon(k, d, FALSE) \/ SetDrain(k, d, [drains[k][d] EXCEPT !.stage = "renaming"])
    BY ONLY <1>4 DEF TargetUnlinked, AtStage, baselineVars
  <2>2. drains'[k][d].stage \in {"abandoning", "renaming"}
    BY ONLY <1>a, <1>c, <2>1
  <2>3. disk'[k] \in {disk[k], None}
    BY ONLY <1>0, <2>1, k \in Keys
  <2> QED
    BY ONLY <2>1, <2>2, <2>3
<1>5. CASE TmpDropped(k, d)
  <2>1. /\ drains[k][d].stage = "abandoning" /\ UNCHANGED <<disk, committedMetadata>>
        /\ tmp' = [tmp EXCEPT ![k] = None]
        /\ \/ SetDrain(k, d, [drains[k][d] EXCEPT !.stage = "discarding"])
           \/ EndWrite(k, d, drains[k][d].reason)
    BY ONLY <1>5 DEF TmpDropped, AtStage
  <2>2. drains'[k][d].stage \in {"discarding", "none"}
    BY ONLY <1>a, <1>b, <2>1
  <2>3. tmp'[k] = None
    BY ONLY <1>0, <2>1, k \in Keys
  <2> QED
    BY ONLY <2>1, <2>2, <2>3
<1>6. CASE FileDiscarded(k, d)
  <2>1. /\ drains[k][d].stage = "discarding" /\ UNCHANGED tmp
        /\ disk' = [disk EXCEPT ![k] = None]
        /\ committedMetadata' = [committedMetadata EXCEPT ![k] = None]
        /\ EndWrite(k, d, drains[k][d].reason)
    BY ONLY <1>6 DEF FileDiscarded, AtStage
  <2>2. drains'[k][d].stage = "none"
    BY ONLY <1>b, <2>1
  <2>3. disk'[k] = None /\ committedMetadata'[k] = None
    BY ONLY <1>0, <2>1, k \in Keys
  <2> QED
    BY ONLY <2>1, <2>2, <2>3
<1>7. CASE WriteFails(k, d)
  <2>1. /\ drains[k][d].stage \in {"writing", "renaming"}
        /\ UNCHANGED <<disk, tmp, committedMetadata>>
    BY ONLY <1>7 DEF WriteFails, AtStage, fileVars
  <2>2. drains'[k][d].stage \in {"tidying", "none"}
    <3>1. CASE Cancelled(k, Generation(drains[k][d].snap))
      <4> DEFINE why == CancellationReason(k, Generation(drains[k][d].snap))
      <4>1. drains'[k][d] = [drains[k][d] EXCEPT !.stage = "tidying", !.reason = why]
        BY <1>7, <3>1 DEF WriteFails, SetDrain, TypeOK, DrainTypeOK
      <4>2. drains[k][d] \in DrainRecord
        BY DEF TypeOK, DrainTypeOK
      <4> HIDE DEF why
      <4> QED
        BY <4>1, <4>2 DEF DrainRecord
    <3>2. CASE ~Cancelled(k, Generation(drains[k][d].snap))
      BY <1>7, <3>2, <1>b DEF WriteFails, RetainFailure
    <3> QED
      BY <3>1, <3>2
  <2> QED
    BY ONLY <2>1, <2>2
<1>8. CASE FailureTidied(k, d)
  <2>1. /\ drains[k][d].stage = "tidying" /\ UNCHANGED <<disk, committedMetadata>>
        /\ tmp' = [tmp EXCEPT ![k] = None] /\ EndWrite(k, d, drains[k][d].reason)
    BY ONLY <1>8 DEF FailureTidied, AtStage
  <2>2. drains'[k][d].stage = "none" /\ tmp'[k] = None
    BY ONLY <1>0, <1>b, <2>1, k \in Keys
  <2> QED
    BY ONLY <2>1, <2>2
<1> QED
  BY <1>1, <1>2, <1>3, <1>4, <1>5, <1>6, <1>7, <1>8 DEF WriteStep

LEMMA WriteCarrying ==
  ASSUME Ledger, NEW k \in Keys, NEW d \in Drains, WriteStep(k, d), Apart(k), Carrying(k)
  PROVE  Carrying(k)'
<1> USE DEF Ledger
<1>1. /\ AtWork(k, d) /\ (\A e \in Drains : e # d => drains'[k][e].stage = "none")
      /\ UNCHANGED <<snapshots, supersededAt>> /\ SnapsOf(k)' = SnapsOf(k)
  BY WriteFrame
<1>2. ASSUME NEW e \in Drains, drains'[k][e].stage # "none"
      PROVE  /\ e = d /\ drains[k][d].stage # "none" /\ drains'[k][d].snap = drains[k][d].snap
             /\ drains'[k][d].header = drains[k][d].header
  BY <1>1, <1>2, WriteTells DEF AtWork
<1>3. ASSUME NEW e \in Drains, drains[k][e].stage # "none"
      PROVE  e = d
  BY <1>1, <1>3, SoleHand DEF AtWork, Custody
<1>4. pendingExternalMetadata'[k] = None \/ pendingExternalMetadata'[k] = pendingExternalMetadata[k]
  BY WriteLetsGo
<1>5. Remembered(k)' /\ turn'[k] = "idle"
  BY <1>1 DEF Carrying, Remembered, Apart
<1>6. TmpHeld(k)'
  <2> SUFFICES ASSUME drains'[k][d].stage \in {"unlinking", "renaming"}, tmp'[k] # None
               PROVE  tmp'[k].header = drains[k][d].header
    BY <1>2 DEF TmpHeld
  <2>1. CASE tmp'[k] = tmp[k] /\ drains[k][d].stage \in {"unlinking", "renaming"}
    BY <2>1 DEF Carrying, TmpHeld
  <2>2. CASE tmp'[k].header = drains[k][d].header
    BY <2>2
  <2> QED
    BY <2>1, <2>2, WriteDisk
<1>7. ASSUME pendingExternalMetadata'[k] # None
      PROVE  Mirroring(k)' /\ DiskExplained(k)' /\ HandsCarry(k)'
  <2>1. /\ Mirroring(k) /\ DiskExplained(k) /\ HandsCarry(k)
        /\ pendingExternalMetadata'[k] = pendingExternalMetadata[k]
    BY <1>4, <1>7 DEF Carrying
  <2>2. Mirroring(k)'
    BY <2>1 DEF Mirroring, Apart
  <2>3. ASSUME NEW f, NEW v
        PROVE  Seen(k, f, v)' <=> Seen(k, f, v)
    BY <2>1 DEF Seen, Apart
  <2>4. DiskExplained(k)'
    <3> SUFFICES ASSUME disk'[k] # None, NEW f \in Fields
                 PROVE  /\ committedMetadata'[k] # None
                           /\ (\A e \in Drains : drains'[k][e].stage # "renamed") =>
                             Seen(k, f, disk[k].header[f])' \/ disk'[k].header[f] = committedMetadata'[k][f]
                        /\ \A e \in Drains : drains'[k][e].stage = "renamed" =>
                             Seen(k, f, disk[k].header[f])' \/ disk'[k].header[f] = drains'[k][e].header[f]
      BY DEF DiskExplained
    <3>1. CASE Renamed(k, d)
      <4>1. /\ disk'[k] = tmp[k] /\ tmp[k] # None /\ drains[k][d].stage = "renaming"
            /\ drains'[k][d].stage = "renamed"
        <5>1. SetDrain(k, d, [drains[k][d] EXCEPT !.stage = "renamed"])
          BY ONLY <3>1 DEF Renamed
        <5>2. drains'[k][d].stage = "renamed"
          BY <5>1, StageTells
        <5> QED
          BY ONLY <5>2, WriteDisk, Ledger, k \in Keys, d \in Drains, WriteStep(k, d)
      <4>2. disk'[k].header = drains[k][d].header
        BY <4>1 DEF Carrying, TmpHeld
      <4> QED
        BY <1>2, <4>1, <4>2
    <3>2. CASE RenameReturns(k, d)
      <4>1. /\ drains[k][d].stage = "renamed" /\ disk' = disk
            /\ drains'[k][d].stage \in {"none", "abandoning"}
            /\ committedMetadata'[k] = drains[k][d].header
        <5>1. drains[k][d].stage = "renamed"
          BY ONLY <3>2 DEF RenameReturns, AtStage
        <5> QED
          BY ONLY <5>1, WriteDisk, Ledger, k \in Keys, d \in Drains, WriteStep(k, d)
      <4>2. Seen(k, f, disk[k].header[f]) \/ disk[k].header[f] = drains[k][d].header[f]
        BY <2>1, <4>1 DEF DiskExplained
      <4>3. \A e \in Drains : drains'[k][e].stage # "renamed"
        BY <1>2, <4>1
      <4>4. Seen(k, f, disk[k].header[f])' \/ disk'[k].header[f] = committedMetadata'[k][f]
        BY <2>1, <4>1, <4>2 DEF Seen, Apart
      <4> QED
        BY <4>3, <4>4
    <3>3. CASE ~Renamed(k, d) /\ ~RenameReturns(k, d)
      <4>1. /\ drains[k][d].stage # "renamed" /\ drains'[k][d].stage # "renamed"
            /\ committedMetadata'[k] \in {committedMetadata[k], None}
            /\ disk'[k] = disk[k]
        BY <3>3, WriteDisk
      <4>2. \A e \in Drains : drains'[k][e].stage # "renamed" /\ drains[k][e].stage # "renamed"
        BY <1>2, <1>3, <4>1
      <4>3. committedMetadata[k] # None =>
              Seen(k, f, disk[k].header[f]) \/ disk[k].header[f] = committedMetadata[k][f]
        BY <2>1, <4>1, <4>2 DEF DiskExplained
      <4>4. committedMetadata'[k] # None =>
              Seen(k, f, disk[k].header[f])' \/ disk'[k].header[f] = committedMetadata'[k][f]
        BY <2>1, <4>1, <4>3 DEF Seen, Apart
      <4> QED
        BY <4>2, <4>4
    <3> QED
      BY <3>1, <3>2, <3>3
  <2>5. HandsCarry(k)'
    <3> SUFFICES ASSUME NEW e \in Drains, drains'[k][e].stage # "none",
                        drains'[k][e].snap > supersededAt'[k],
                        NEW f \in Fields \ edited'[k], ~MemoryWasStale(k, f)'
                 PROVE  Seen(k, f, drains[k][e].header[f])'
      BY DEF HandsCarry
    <3>1. /\ e = d /\ drains[k][d].stage # "none" /\ drains[k][d].snap > supersededAt[k]
          /\ drains'[k][d].header = drains[k][d].header
      BY <1>1, <1>2
    <3>2. f \in Fields \ edited[k] /\ ~MemoryWasStale(k, f)
      BY <2>1 DEF Apart, MemoryWasStale
    <3>3. Seen(k, f, drains[k][d].header[f])
      BY <2>1, <3>1, <3>2 DEF HandsCarry
    <3> QED
      BY <2>1, <3>1, <3>3 DEF Seen, Apart
  <2> QED
    BY <2>2, <2>4, <2>5
<1> QED
  BY <1>5, <1>6, <1>7 DEF Carrying

LEMMA CarryingInit == SyncInit => AllCarrying
<1> SUFFICES ASSUME SyncInit, NEW k \in Keys
             PROVE  Carrying(k)
  BY DEF AllCarrying
<1>1. /\ snapshots = <<>> /\ tmp[k] = None /\ turn[k] = "idle" /\ pendingExternalMetadata[k] = None
  BY DEF SyncInit, InitWith
<1>2. SnapsOf(k) = {}
  BY <1>1 DEF SnapsOf
<1> QED
  BY <1>1, <1>2 DEF Carrying, Remembered, TmpHeld

LEMMA CarryingStep ==
  ASSUME Observed, AllCarrying, [SyncNext]_allVars
  PROVE  AllCarrying'
<1> SUFFICES ASSUME NoTurn', NEW k \in Keys
             PROVE  Carrying(k)'
  BY DEF AllCarrying
<1>1. Synced /\ Ledger /\ SyncTypeOK /\ Filed(k)
  BY DEF Observed, Synced, Files
<1>2. NoTurn
  BY <1>1, NoTurnBefore
<1>3. Carrying(k) /\ \A i \in Keys : turn[i] = "idle"
  BY <1>2 DEF AllCarrying, Carrying
<1>4. ASSUME NEW d \in Drains, WriteBegins(k, d) \/ WriteStep(k, d), Apart(k)
      PROVE  Carrying(k)'
  BY <1>1, <1>3, <1>4, BeginCarrying, WriteCarrying
<1>5. ASSUME NEW f \in Fields, NEW v \in Values, Disturbed(k, f, v)
      PROVE  Carrying(k)'
  BY <1>1, <1>3, <1>5, DisturbedCarrying
<1>6. CASE Tended(k) \/ Absorbed(k)
  BY <1>1, <1>3, <1>6, TendedCarrying, AbsorbedCarrying
<1> QED
  BY <1>1, <1>3, <1>4, <1>5, <1>6, QuietStepOf

\* The step that lets an observation go commits the header it was resolved into.
LEMMA LetGoCarries ==
  ASSUME Observed, AllCarrying, [SyncNext]_allVars, NoTurn, NEW k \in Keys, LetGo(k),
         NEW f \in Fields \ edited[k], ~MemoryWasStale(k, f)
  PROVE  disk[k] # None /\ Seen(k, f, disk[k].header[f])
<1>1. Synced /\ Ledger /\ TypeOK /\ FreshWritesNotCancelled /\ Filed(k) /\ Observing(k)
      /\ Undeleted /\ Carrying(k)
  BY DEF Observed, Synced, Files, Ledger, AllCarrying
<1>2. pendingExternalMetadata[k] # None /\ pendingExternalMetadata'[k] = None
  BY DEF LetGo
<1>3. PICK d \in Drains : WriteStep(k, d)
  <2>1. ~Aloof(k)
    BY <1>2 DEF Aloof
  <2>2. \A seen \in Metadata, header \in Metadata : ~AbsorbExternal(k, seen, header)
    BY <1>1, <1>2, AbsorbTells
  <2>3. \A d \in Drains : ~WriteBegins(k, d)
    BY <1>1, <1>2, BeginTells
  <2>4. \A g \in Fields, v \in Values : ~Rewritten(k, g, v)
    BY <1>2 DEF Rewritten, baselineVars
  <2> QED
    BY <1>1, <2>1, <2>2, <2>3, <2>4, SyncStepOf
<1>4. RenameReturns(k, d) /\ pendingExternalMetadata[k].seq = drains[k][d].observed
  BY <1>1, <1>2, <1>3, WriteLetsGo
<1>5. drains[k][d].stage = "renamed"
  BY <1>4 DEF RenameReturns, AtStage
<1>6. drains[k][d].snap > supersededAt[k]
  BY <1>1, <1>2, <1>4, <1>5 DEF Observing, Knows
<1>7. disk[k] # None
  <2>1. drains[k][d].snap \in SnapsSoFar
    BY <1>1, <1>5, HandTyped
  <2>2. drains[k][d].snap \in Nat /\ drains[k][d].snap # 0
    BY <1>1, <2>1, LineTyped DEF SnapsSoFar
  <2>3. ~Obsolete(k, drains[k][d].snap)
    BY <1>1, <2>2 DEF Obsolete, Undeleted
  <2> QED
    BY <1>1, <1>5, <2>3 DEF Filed, Marked, HandMarks
<1>8. DiskExplained(k) /\ HandsCarry(k)
  BY <1>1, <1>2 DEF Carrying
<1>9. Seen(k, f, drains[k][d].header[f])
  BY <1>5, <1>6, <1>8 DEF HandsCarry
<1>10. Seen(k, f, disk[k].header[f]) \/ disk[k].header[f] = drains[k][d].header[f]
  BY <1>5, <1>7, <1>8 DEF DiskExplained
<1> QED
  BY <1>7, <1>9, <1>10

\* In a session that has run no turn, an observed external edit is let go only when
\* the file holds it, or a later edit of the field by others, in every field the
\* app has not touched (but for an unmirrored one whose memory was stale).
THEOREM ObservedEditsAreCarried == SyncSpec => ObservedEditCarried
<1> DEFINE kept == \A k \in Keys : NoTurn /\ LetGo(k) =>
                     \A f \in Fields \ edited[k] : ~MemoryWasStale(k, f) =>
                       \/ disk[k].header[f] = pendingExternalMetadata[k].external[f]
                       \/ disk[k].header[f] \in foreign[k][f]
<1>1. SyncInit => Observed /\ AllCarrying
  BY ObservedInit, CarryingInit
<1>2. Observed /\ AllCarrying /\ [SyncNext]_allVars => (Observed /\ AllCarrying)'
  BY ObservedStep, CarryingStep
<1>3. Observed /\ AllCarrying /\ [SyncNext]_allVars => [kept]_allVars
  BY LetGoCarries DEF Seen
<1> QED
  BY <1>1, <1>2, <1>3, PTL DEF SyncSpec, ObservedEditCarried

----------------------------------------------------------------------------
(* Guarded edits.  In a session nobody else edits, that has run no turn and was *)
(* told of no edit at once, the file differs from the last header committed     *)
(* only while a write is under way; so whatever the watcher takes for somebody  *)
(* else's edit carries what memory holds of a guarded field, unless the guard   *)
(* is up.                                                                       *)

Alone(k) == NoForeignEdit /\ NoTurn /\ edited[k] \cap Notified = {}

Signed(k) == \A d \in Drains :
  drains[k][d].stage \in {"writing", "unlinking", "renaming", "renamed"} =>
    inFlightSignature[k] = drains[k][d].header
Undiverged(k) == disk[k] # None =>
  /\ committedMetadata[k] # None /\ (\A d \in Drains : drains[k][d].stage # "renamed") =>
       disk[k].header = committedMetadata[k]
  /\ \A d \in Drains : drains[k][d].stage = "renamed" => disk[k].header = drains[k][d].header
  /\ committedMetadata[k] = None /\ k \in event => \E d \in Drains : drains[k][d].stage = "renamed"

\* What carries the value memory holds of a guarded field: the newest snapshot and
\* the write of it, and without the guard everything queued, in hand or noticed.
Carries(k, s) == ~Newer(k, s) \/ (k \notin guard /\ s \in ToSet(queued[k]))
MineInLine(k, f) == \A s \in SnapsOf(k) : Carries(k, s) => snapshots[s].header[f] = memory[k][f]
MineInHand(k, f) == \A d \in Drains :
  drains[k][d].stage # "none" /\ (~Newer(k, drains[k][d].snap) \/ k \notin guard) =>
    drains[k][d].header[f] = memory[k][f]
MineHeld(k, f) ==
  /\ lastEnqueuedMetadata[k] # None => lastEnqueuedMetadata[k][f] = memory[k][f]
  /\ pendingExternalMetadata[k] # None =>
       /\ pendingExternalMetadata[k].localAt # None
       /\ pendingExternalMetadata[k].external[f] = pendingExternalMetadata[k].localAt[f]
MineOnDisk(k, f) ==
  /\ k \notin guard /\ k \in event /\ disk[k] # None => disk[k].header[f] = memory[k][f]
  /\ ~ToWrite(k) => disk[k] # None /\ disk[k].header[f] = memory[k][f]
Mine(k, f) == /\ memory[k][f] = intended[k][f] /\ MineInLine(k, f) /\ MineInHand(k, f)
              /\ MineHeld(k, f) /\ MineOnDisk(k, f)

Guarding(k) == Signed(k) /\ Undiverged(k) /\ \A f \in Guarded : Mine(k, f)

\* What the steps are to such a session: nothing, an edit of the app's, an event
\* taken for somebody else's edit, or a step of its own writes.
Unmoved(k) == /\ inFlightSignature'[k] = inFlightSignature[k]
              /\ (k \in event' => k \in event)
Kept(k) ==
  /\ Aloof(k) /\ Unmoved(k) /\ memory'[k] = memory[k] /\ intended'[k] = intended[k]
  /\ lastEnqueuedMetadata'[k] \in {lastEnqueuedMetadata[k], None}
  /\ SnapsOf(k)' \subseteq SnapsOf(k)
  /\ \/ k \in guard' \/ k \notin guard
     \/ k \notin event' /\ queued'[k] = <<>> /\ \A d \in Drains : drains'[k][d].stage = "none"
Changed(k, g, v) ==
  /\ Aloof(k) /\ Unmoved(k)
  /\ memory'[k] = [memory[k] EXCEPT ![g] = v] /\ intended'[k] = [intended[k] EXCEPT ![g] = v]
  /\ lastEnqueuedMetadata'[k] = memory'[k]
  /\ NewSnap \in ToSet(queued'[k]) /\ NewSnap \in SnapsOf(k)'
  /\ snapshots'[NewSnap].header = memory'[k]
  /\ \A s \in SnapsOf(k)' : s \in SnapsOf(k) \/ s = NewSnap
  /\ IF g \in Guarded THEN k \in guard' ELSE (k \in guard' <=> k \in guard)
Taken(k) ==
  /\ Absorbed(k) /\ Unmoved(k) /\ k \in event /\ k \notin event' /\ k \notin guard
  /\ ~SelfWrite(k, disk[k].header) /\ intended'[k] = intended[k]
Working(k, d) ==
  /\ Apart(k) /\ (WriteBegins(k, d) \/ WriteStep(k, d))
  /\ UNCHANGED <<intended, guard, lastEnqueuedMetadata>>
  /\ k \in event' => k \in event \/ disk'[k] # disk[k]

LEMMA AloneBefore ==
  ASSUME SyncTypeOK, [SyncNext]_allVars, NEW k \in Keys, Alone(k)'
  PROVE  /\ Alone(k) /\ NoTurn'
         /\ \A i \in Keys, f \in Fields, v \in Values : ~ForeignEdit(i, f, v)
         /\ \A f \in Fields, v \in Values : Edit(k, f, v) => f \notin Notified
<1>1. /\ left.foreign \in Nat /\ left.foreign <= MaxForeignEdits /\ MaxForeignEdits \in Nat
  BY SyncAssumption DEF SyncTypeOK
<1>2. NoTurn /\ NoTurn'
  BY NoTurnBefore DEF Alone
<1>3. ASSUME Use("foreign")
      PROVE  FALSE
  <2>1. left'.foreign = left.foreign - 1
    BY <1>3 DEF Use, SyncTypeOK
  <2> QED
    BY <1>1, <2>1 DEF Alone, NoForeignEdit
<1>4. ASSUME Use("edits") \/ Use("turns") \/ left' = left
      PROVE  left'.foreign = left.foreign
  BY <1>4 DEF Use, SyncTypeOK
<1>5. \/ Use("turns") \/ Use("edits") \/ Use("foreign") \/ left' = left
  BY DEF SyncNext, Edit, GuardedEdit, Mutate, GuardExpires, TurnStarts, TurnStops,
         AppliesDeferred, WatcherFires, ForeignEdit, QueueStep, allVars, syncVars
<1>6. NoForeignEdit
  BY <1>3, <1>4, <1>5 DEF Alone, NoForeignEdit
<1>7. ASSUME NEW i \in Keys, NEW f \in Fields, NEW v \in Values, Mutate(i, f, v)
      PROVE  edited[k] \subseteq edited'[k] /\ (i = k => f \in edited'[k])
  BY <1>7 DEF Mutate, SyncTypeOK
<1>8. edited[k] \subseteq edited'[k]
  BY <1>7 DEF SyncNext, Edit, GuardedEdit, GuardExpires, TurnStarts, TurnStops,
         AppliesDeferred, WatcherFires, ForeignEdit, QueueStep, allVars, syncVars
<1>9. \A f \in Fields, v \in Values : Edit(k, f, v) => f \notin Notified
  BY <1>7 DEF Edit, Alone
<1>10. \A i \in Keys, f \in Fields, v \in Values : ~ForeignEdit(i, f, v)
  BY <1>3 DEF ForeignEdit
<1> QED
  BY <1>2, <1>6, <1>8, <1>9, <1>10 DEF Alone

LEMMA EditChanges ==
  ASSUME Ledger, SyncTypeOK, NEW k \in Keys, NEW g \in Fields, NEW v \in Values,
         Edit(k, g, v) \/ GuardedEdit(k, g, v), Edit(k, g, v) => g \notin Notified
  PROVE  Changed(k, g, v)
<1>0. TypeOK
  BY DEF Ledger
<1>1. /\ memory'[k] \in Metadata /\ Mutate(k, g, v)
      /\ Enqueue(k, memory'[k]) \/ EnqueueAndFlush(k, memory'[k])
  BY MutateType DEF Edit, GuardedEdit
<1>2. Aloof(k)
  BY <1>1, EnqueueAloof
<1>3. memory'[k] = [memory[k] EXCEPT ![g] = v] /\ intended'[k] = [intended[k] EXCEPT ![g] = v]
  BY <1>1 DEF Mutate, SyncTypeOK
<1>4. /\ PutEntry(k, memory'[k], FALSE, NewSnap) /\ UNCHANGED inFlightSignature
      /\ Len(snapshots) < MaxHeap /\ NewSnap \in SnapIds
      /\ snapshots' = Append(snapshots, Snapshot(k, memory'[k], FALSE, NewSnap))
  BY <1>0, <1>1, RoomForOne DEF Enqueue, EnqueueAndFlush, PutEntry, baselineVars
<1>5. lastEnqueuedMetadata'[k] = memory'[k]
  BY <1>0, <1>4 DEF PutEntry, TypeOK, IntakeTypeOK
<1>6. /\ NewSnap \in SnapsOf(k)' /\ snapshots'[NewSnap].header = memory'[k]
      /\ \A s \in SnapsOf(k)' : s \in SnapsOf(k) \/ s = NewSnap
  <2> DEFINE h == memory'[k]
  <2>1. h \in Metadata /\ FALSE \in BOOLEAN /\ snapshots' = Append(snapshots, Snapshot(k, h, FALSE, NewSnap))
    BY <1>1, <1>4
  <2> HIDE DEF h
  <2>2. snapshots'[NewSnap] = Snapshot(k, h, FALSE, NewSnap)
    BY <1>0, <1>4, <2>1, SnapshotsKept
  <2>3. snapshots'[NewSnap].header = h /\ snapshots'[NewSnap].key = k
    <3>1. Snapshot(k, h, FALSE, NewSnap).header = h /\ Snapshot(k, h, FALSE, NewSnap).key = k
      BY DEF Snapshot
    <3> QED
      BY <2>2, <3>1
  <2>4. NewSnap \in 1 .. Len(snapshots')
    <3>1. Len(snapshots') = NewSnap /\ NewSnap \in Nat /\ NewSnap = Len(snapshots) + 1
          /\ Len(snapshots) \in Nat
      BY <1>0, <1>4, <2>1, HeapGrows, LineTyped DEF NewSnap
    <3> QED
      BY <3>1
  <2>5. \A s \in SnapsOf(k)' : s \in SnapsOf(k) \/ s = NewSnap
    BY <1>0, <1>4, <2>1, HeapOf
  <2> QED
    BY <2>3, <2>4, <2>5 DEF SnapsOf, h
<1>7. NewSnap \in ToSet(queued'[k])
  <2>1. NewSnap \notin SnapsOf(k)
    BY <1>0, LineTyped DEF SnapsOf, SnapsSoFar
  <2> QED
    BY <1>2, <1>6, <2>1 DEF Aloof, Mild, LineGrows
<1>8. Unmoved(k) /\ IF g \in Guarded THEN k \in guard' ELSE (k \in guard' <=> k \in guard)
  BY <1>4 DEF Edit, GuardedEdit, Unmoved
<1> QED
  BY <1>2, <1>3, <1>5, <1>6, <1>7, <1>8 DEF Changed

LEMMA SameKept ==
  ASSUME Ledger, NEW k \in Keys, UNCHANGED <<vars, memory, intended>>, k \in event' => k \in event,
         k \in guard' \/ k \notin guard
  PROVE  Kept(k)
<1>1. Aloof(k) /\ SnapsOf(k)' = SnapsOf(k)
  BY SameAloof DEF vars, queueVars, SnapsOf
<1> QED
  BY <1>1 DEF Kept, Unmoved, vars, queueVars, baselineVars

\* The edits, the events and the writes of another session leave this one as it is.
LEMMA OtherKept ==
  ASSUME Ledger, SyncTypeOK, NEW k \in Keys, NEW i \in Keys, i # k,
         \/ \E g \in Fields, v \in Values : Edit(i, g, v) \/ GuardedEdit(i, g, v)
         \/ GuardExpires(i)
         \/ WatcherFires(i)
  PROVE  Kept(k)
<1>0. TypeOK
  BY DEF Ledger
<1>1. ASSUME NEW g \in Fields, NEW v \in Values, Edit(i, g, v) \/ GuardedEdit(i, g, v)
      PROVE  Kept(k)
  <2>1. /\ memory'[i] \in Metadata /\ Mutate(i, g, v)
        /\ Enqueue(i, memory'[i]) \/ EnqueueAndFlush(i, memory'[i])
    BY <1>1, MutateType DEF Edit, GuardedEdit
  <2>2. Aloof(k)
    BY <2>1, EnqueueAloof
  <2>3. memory'[k] = memory[k] /\ intended'[k] = intended[k]
    BY <2>1 DEF Mutate, SyncTypeOK
  <2>4. /\ PutEntry(i, memory'[i], FALSE, NewSnap) /\ UNCHANGED inFlightSignature
        /\ Len(snapshots) < MaxHeap /\ NewSnap \in SnapIds
        /\ snapshots' = Append(snapshots, Snapshot(i, memory'[i], FALSE, NewSnap))
    BY <1>0, <2>1, RoomForOne DEF Enqueue, EnqueueAndFlush, PutEntry, baselineVars
  <2>5. lastEnqueuedMetadata'[k] = lastEnqueuedMetadata[k]
    BY <1>0, <2>4 DEF PutEntry, TypeOK, IntakeTypeOK
  <2>6. SnapsOf(k)' \subseteq SnapsOf(k)
    <3> DEFINE h == memory'[i]
    <3>1. h \in Metadata /\ FALSE \in BOOLEAN /\ snapshots' = Append(snapshots, Snapshot(i, h, FALSE, NewSnap))
      BY <2>1, <2>4
    <3> HIDE DEF h
    <3>2. \A s \in SnapsOf(k)' : s \in SnapsOf(k) \/ (s = NewSnap /\ i = k)
      BY <1>0, <2>4, <3>1, HeapOf
    <3> QED
      BY <3>2
  <2>7. Unmoved(k) /\ (k \in guard' \/ k \notin guard)
    BY <1>1, <2>4 DEF Edit, GuardedEdit, Unmoved
  <2> QED
    BY <2>2, <2>3, <2>5, <2>6, <2>7 DEF Kept
<1>2. CASE GuardExpires(i)
  BY <1>2, SameKept DEF GuardExpires
<1>3. CASE WatcherFires(i)
  <2>1. CASE UNCHANGED <<vars, memory>>
    BY <1>3, <2>1, SameKept DEF WatcherFires
  <2>2. CASE disk[i] # None /\ ~SelfWrite(i, disk[i].header) /\ Apply(i, disk[i].header)
    <3>1. PICK seen \in Metadata : seen = disk[i].header
      BY <1>0, <2>2 DEF TypeOK, FileTypeOK, File
    <3>2. /\ memory'[i] \in Metadata /\ AbsorbExternal(i, seen, memory'[i])
          /\ memory' = [memory EXCEPT ![i] = Mirror(i, seen)]
      BY <2>2, <3>1, ApplyType DEF Apply, SelfWrite
    <3>3. Aloof(k)
      BY <3>2, AbsorbAloof
    <3>4. SnapsOf(k)' \subseteq SnapsOf(k)
      <4>1. \A s \in SnapsOf(k)' : s \in SnapsOf(k) \/ (s = NewSnap /\ i = k)
        BY <1>0, <3>2, AbsorbHeap
      <4> QED
        BY <4>1
    <3>5. memory'[k] = memory[k]
      BY <3>2 DEF SyncTypeOK
    <3>6. lastEnqueuedMetadata'[k] = lastEnqueuedMetadata[k] /\ UNCHANGED inFlightSignature
      BY <1>0, <3>2 DEF AbsorbExternal, TypeOK, IntakeTypeOK
    <3> QED
      BY <1>3, <3>3, <3>4, <3>5, <3>6 DEF WatcherFires, Kept, Unmoved
  <2> QED
    BY <1>3, <2>1, <2>2 DEF WatcherFires
<1> QED
  BY <1>1, <1>2, <1>3

LEMMA ExpiredKept ==
  ASSUME Ledger, NEW k \in Keys, GuardExpires(k)
  PROVE  Kept(k)
<1>1. Aloof(k) /\ SnapsOf(k)' = SnapsOf(k)
  BY SameAloof DEF GuardExpires, vars, queueVars, SnapsOf
<1>2. queued[k] = <<>> /\ tails[k] = NoDrain /\ k \notin event
  BY DEF GuardExpires, hasPendingOrTail
<1>3. \A d \in Drains : drains[k][d].state = "idle"
  BY <1>2, NoTailNoDrain DEF Ledger
<1>4. \A d \in Drains : drains[k][d].stage = "none"
  BY <1>3 DEF Ledger, Custody, AtRest
<1> QED
  BY <1>1, <1>2, <1>4 DEF Kept, Unmoved, GuardExpires, vars, queueVars, baselineVars

LEMMA WatcherTakes ==
  ASSUME Ledger, SyncTypeOK, NEW k \in Keys, WatcherFires(k), turn[k] = "idle"
  PROVE  Kept(k) \/ Taken(k)
<1>0. TypeOK
  BY DEF Ledger
<1>1. k \in event /\ k \notin event' /\ UNCHANGED <<turn, guard, intended, edited>>
  BY DEF WatcherFires
<1>2. CASE UNCHANGED <<vars, memory>>
  BY <1>1, <1>2, SameKept
<1>3. CASE k \notin guard /\ disk[k] # None /\ ~SelfWrite(k, disk[k].header) /\ Apply(k, disk[k].header)
  <2>1. PICK seen \in Metadata : seen = disk[k].header
    BY <1>0, <1>3 DEF TypeOK, FileTypeOK, File
  <2>2. /\ memory'[k] = Mirror(k, seen) /\ memory'[k] \in Metadata
        /\ AbsorbExternal(k, seen, memory'[k])
        /\ foreign' = [foreign EXCEPT ![k] = Nothing]
    BY <1>3, <2>1, ApplyType DEF Apply, SelfWrite
  <2>3. foreign'[k] = Nothing /\ UNCHANGED inFlightSignature
    BY <2>2 DEF SyncTypeOK, AbsorbExternal
  <2> QED
    BY <1>1, <1>3, <2>1, <2>2, <2>3 DEF Taken, Absorbed, Unmoved
<1>4. \/ UNCHANGED <<vars, memory>>
      \/ k \notin guard /\ disk[k] # None /\ ~SelfWrite(k, disk[k].header) /\ Apply(k, disk[k].header)
  BY DEF WatcherFires
<1> QED
  BY <1>2, <1>3, <1>4

LEMMA QueueWorks ==
  ASSUME Ledger, QueueStep, NEW k \in Keys
  PROVE  Kept(k) \/ \E d \in Drains : Working(k, d)
<1>0. TypeOK
  BY DEF Ledger
<1>1. UNCHANGED <<memory, turn, guard, left, intended, foreign, edited>> /\ event' = event \cup {j \in Keys : disk'[j] # disk[j]}
  BY DEF QueueStep
<1>2. ASSUME NEW d \in Drains, WriteBegins(k, d) \/ WriteStep(k, d)
      PROVE  Working(k, d)
  <2>1. UNCHANGED lastEnqueuedMetadata
    BY <1>2 DEF WriteBegins, WriteStep, TmpWritten, TargetUnlinked, Renamed, RenameReturns,
       TmpDropped, FileDiscarded, WriteFails, FailureTidied, queueVars
  <2> QED
    BY <1>1, <1>2, <2>1 DEF Working, Apart
<1>3. CASE Aloof(k) /\ ~\E d \in Drains : WriteBegins(k, d) \/ WriteStep(k, d)
  <2>1. disk'[k] = disk[k]
    BY <1>3 DEF Aloof, Mild, FilesSame
  <2>2. ASSUME NEW s \in SnapIds, TimerFires(s)
        PROVE  /\ inFlightSignature' = inFlightSignature /\ snapshots' = snapshots
               /\ lastEnqueuedMetadata' = lastEnqueuedMetadata
    BY <2>2 DEF TimerFires, baselineVars
  <2>3. ASSUME NEW i \in Keys, NEW d \in Drains, DrainEnds(i, d)
        PROVE  /\ inFlightSignature' = inFlightSignature /\ snapshots' = snapshots
               /\ lastEnqueuedMetadata'[k] \in {lastEnqueuedMetadata[k], None}
    BY <1>0, <2>3 DEF DrainEnds, Retire, baselineVars, TypeOK, IntakeTypeOK
  <2>4. ASSUME NEW i \in Keys, NEW d \in Drains, i # k, WriteBegins(i, d) \/ WriteStep(i, d)
        PROVE  /\ inFlightSignature'[k] = inFlightSignature[k] /\ snapshots' = snapshots
               /\ lastEnqueuedMetadata' = lastEnqueuedMetadata
    <3> USE DEF TypeOK, BaselineTypeOK
    <3>1. CASE WriteBegins(i, d)
      BY <1>0, <2>4, <3>1, WriteStarts DEF WriteBegins, StartWrite, SkipWrite
    <3>2. CASE TmpWritten(i, d) \/ TargetUnlinked(i, d) \/ Renamed(i, d)
      BY <3>2 DEF TmpWritten, TargetUnlinked, Renamed, queueVars, baselineVars
    <3>3. CASE RenameReturns(i, d)
      BY <1>0, <2>4, <3>3 DEF RenameReturns, queueVars
    <3>4. CASE TmpDropped(i, d) \/ FileDiscarded(i, d)
      BY <1>0, <2>4, <3>4 DEF TmpDropped, FileDiscarded, queueVars
    <3>5. CASE WriteFails(i, d) \/ FailureTidied(i, d)
      BY <1>0, <2>4, <3>5 DEF WriteFails, RetainFailure, FailureTidied, queueVars
    <3> QED
      BY <2>4, <3>1, <3>2, <3>3, <3>4, <3>5 DEF WriteStep
  <2>5. /\ inFlightSignature'[k] = inFlightSignature[k] /\ snapshots' = snapshots
        /\ lastEnqueuedMetadata'[k] \in {lastEnqueuedMetadata[k], None}
    <3>1. ASSUME NEW i \in Keys, NEW d \in Drains, DrainStep(i, d)
          PROVE  DrainEnds(i, d) \/ WriteBegins(i, d) \/ WriteStep(i, d)
      BY <3>1 DEF DrainStep, WriteStep
    <3> QED
      BY <1>3, <2>2, <2>3, <2>4, <3>1 DEF QueueStep
  <2>6. SnapsOf(k)' = SnapsOf(k)
    BY <2>5 DEF SnapsOf
  <2> QED
    BY <1>1, <1>3, <2>1, <2>5, <2>6 DEF Kept, Unmoved
<1> QED
  BY <1>2, <1>3, QueueStepIs

LEMMA AloneStepOf ==
  ASSUME Synced, [SyncNext]_allVars, \A i \in Keys : turn[i] = "idle", NEW k \in Keys, Alone(k)'
  PROVE  \/ Kept(k)
         \/ \E g \in Fields, v \in Values : Changed(k, g, v)
         \/ Taken(k)
         \/ \E d \in Drains : Working(k, d)
<1> USE DEF Synced, Files
<1>0. /\ \A i \in Keys, f \in Fields, v \in Values : ~ForeignEdit(i, f, v)
      /\ \A f \in Fields, v \in Values : Edit(k, f, v) => f \notin Notified
      /\ NoTurn'
  BY AloneBefore
<1>1. ASSUME NEW i \in Keys, NEW g \in Fields, NEW v \in Values, Edit(i, g, v) \/ GuardedEdit(i, g, v)
      PROVE  Kept(k) \/ Changed(k, g, v)
  <2>1. CASE i = k
    BY <1>0, <1>1, <2>1, EditChanges
  <2>2. CASE i # k
    BY <1>1, <2>2, OtherKept
  <2> QED
    BY <2>1, <2>2
<1>2. ASSUME NEW i \in Keys, WatcherFires(i) \/ GuardExpires(i)
      PROVE  Kept(k) \/ Taken(k)
  <2>1. CASE i = k
    BY <1>2, <2>1, WatcherTakes, ExpiredKept
  <2>2. CASE i # k
    BY <1>2, <2>2, OtherKept
  <2> QED
    BY <2>1, <2>2
<1>3. ASSUME NEW i \in Keys, TurnStarts(i) \/ TurnStops(i) \/ AppliesDeferred(i)
      PROVE  FALSE
  <2>1. ~TurnStarts(i)
    BY <1>0, NoTurnBefore
  <2> QED
    BY <1>3, <2>1 DEF TurnStops, AppliesDeferred
<1>4. CASE QueueStep
  BY <1>4, QueueWorks
<1>5. CASE UNCHANGED allVars
  BY <1>5, SameKept DEF allVars, syncVars
<1> QED
  BY <1>0, <1>1, <1>2, <1>3, <1>4, <1>5 DEF SyncNext

\* A step that leaves the session aloof keeps its signature and its baseline.
LEMMA AloofSigned ==
  ASSUME NEW k \in Keys, Aloof(k), Unmoved(k), Signed(k), Undiverged(k)
  PROVE  Signed(k)' /\ Undiverged(k)'
<1>1. /\ disk'[k] = disk[k] /\ committedMetadata'[k] = committedMetadata[k]
      /\ inFlightSignature'[k] = inFlightSignature[k] /\ (k \in event' => k \in event)
  BY DEF Aloof, Mild, FilesSame, Unmoved
<1>2. \A d \in Drains : /\ drains'[k][d].stage = drains[k][d].stage
                        /\ drains[k][d].stage # "none" => drains'[k][d].header = drains[k][d].header
  BY DEF Aloof, HandsGoOn
<1>3. Signed(k)'
  BY <1>1, <1>2 DEF Signed
<1>4. Undiverged(k)'
  BY <1>1, <1>2 DEF Undiverged
<1> QED
  BY <1>3, <1>4

LEMMA HandIsOf ==
  ASSUME Ledger, NEW k \in Keys, NEW d \in Drains, drains[k][d].stage # "none"
  PROVE  drains[k][d].snap \in SnapsOf(k)
<1>1. drains[k][d].snap \in SnapsSoFar
  BY HandTyped DEF Ledger
<1>2. snapshots[drains[k][d].snap].key = k
  BY DEF Ledger, Custody, InHand, HandFacts
<1> QED
  BY <1>1, <1>2 DEF SnapsOf, SnapsSoFar

LEMMA AloofFacts ==
  ASSUME Ledger, NEW k \in Keys, Aloof(k)
  PROVE  /\ disk'[k] = disk[k] /\ pendingExternalMetadata'[k] = pendingExternalMetadata[k]
         /\ (ToWrite(k) => ToWrite(k)') /\ SnapsOf(k) \subseteq SnapsOf(k)'
         /\ \A s \in SnapsOf(k) : snapshots'[s] = snapshots[s] /\ s < NewSnap /\ s # NewSnap
         /\ \A s \in SnapsOf(k) : s \in ToSet(queued'[k]) => s \in ToSet(queued[k])
         /\ \A d \in Drains : drains'[k][d].stage # "none" =>
              /\ drains[k][d].stage # "none" /\ drains'[k][d].header = drains[k][d].header
              /\ drains'[k][d].snap = drains[k][d].snap /\ drains[k][d].snap \in SnapsOf(k)
<1> USE DEF Ledger
<1>1. disk'[k] = disk[k] /\ pendingExternalMetadata'[k] = pendingExternalMetadata[k]
      /\ failedSnapshots'[k] = failedSnapshots[k]
  BY DEF Aloof, Mild, FilesSame
<1>2. \A d \in Drains : drains[k][d].stage # "none" => drains'[k][d].stage # "none"
  BY DEF Aloof, HandsGoOn
<1>3. ToWrite(k) => ToWrite(k)'
  BY <1>1, <1>2 DEF ToWrite, Aloof, Mild, LineGrows
<1>4. \A s \in SnapsOf(k) : s \in SnapsSoFar /\ s \in Nat /\ snapshots'[s] = snapshots[s] /\ s < NewSnap
  BY LandedTyped DEF Aloof, Mild, Longer, SnapsOf, SnapsSoFar
<1>5. SnapsOf(k) \subseteq SnapsOf(k)'
  <2>1. Len(snapshots) \in Nat /\ Len(snapshots') \in Nat /\ Len(snapshots) <= Len(snapshots')
    BY LineTyped DEF Aloof, Mild, Longer
  <2> QED
    BY <1>4, <2>1 DEF SnapsOf, SnapsSoFar
<1>6. \A s \in SnapsOf(k) : s # NewSnap
  BY <1>4, LineTyped
<1>7. \A s \in SnapsOf(k) : s \in ToSet(queued'[k]) => s \in ToSet(queued[k])
  BY <1>6 DEF Aloof, Mild, LineGrows
<1>8. ASSUME NEW d \in Drains, drains'[k][d].stage # "none"
      PROVE  /\ drains[k][d].stage # "none" /\ drains'[k][d].header = drains[k][d].header
             /\ drains'[k][d].snap = drains[k][d].snap /\ drains[k][d].snap \in SnapsOf(k)
  <2>1. /\ drains[k][d].stage # "none" /\ drains'[k][d].header = drains[k][d].header
        /\ drains'[k][d].snap = drains[k][d].snap
    BY <1>8 DEF Aloof, HandsGoOn
  <2>2. drains[k][d].snap \in SnapsOf(k)
    BY <2>1, HandIsOf
  <2> QED
    BY <2>1, <2>2
<1> QED
  BY <1>1, <1>3, <1>4, <1>5, <1>6, <1>7, <1>8

LEMMA KeptMine ==
  ASSUME Ledger, NEW k \in Keys, Kept(k), NEW f \in Guarded, Mine(k, f)
  PROVE  Mine(k, f)'
<1>1. Aloof(k) /\ memory'[k] = memory[k] /\ intended'[k] = intended[k] /\ SnapsOf(k)' \subseteq SnapsOf(k)
  BY DEF Kept
<1>2. /\ disk'[k] = disk[k] /\ pendingExternalMetadata'[k] = pendingExternalMetadata[k]
      /\ (ToWrite(k) => ToWrite(k)') /\ SnapsOf(k)' = SnapsOf(k)
      /\ \A s \in SnapsOf(k) : snapshots'[s] = snapshots[s]
      /\ \A s \in SnapsOf(k) : s \in ToSet(queued'[k]) => s \in ToSet(queued[k])
      /\ \A d \in Drains : drains'[k][d].stage # "none" =>
           /\ drains[k][d].stage # "none" /\ drains'[k][d].header = drains[k][d].header
           /\ drains'[k][d].snap = drains[k][d].snap
  BY <1>1, AloofFacts
<1>3. \A s : Newer(k, s)' <=> Newer(k, s)
  BY <1>2 DEF Newer
<1>4. MineInLine(k, f)'
  <2> SUFFICES ASSUME NEW s \in SnapsOf(k)', Carries(k, s)'
               PROVE  snapshots'[s].header[f] = memory'[k][f]
    BY DEF MineInLine
  <2>1. s \in SnapsOf(k) /\ snapshots'[s] = snapshots[s]
    BY <1>2
  <2>2. queued'[k] = <<>> => s \notin ToSet(queued'[k])
    BY RisingEmpty
  <2>3. Carries(k, s)
    BY <1>2, <1>3, <2>1, <2>2 DEF Carries, Kept
  <2> QED
    BY <1>1, <2>1, <2>3 DEF Mine, MineInLine
<1>5. MineInHand(k, f)'
  <2> SUFFICES ASSUME NEW d \in Drains, drains'[k][d].stage # "none",
                      ~Newer(k, drains[k][d].snap)' \/ k \notin guard'
               PROVE  drains'[k][d].header[f] = memory'[k][f]
    BY DEF MineInHand
  <2>1. ~Newer(k, drains[k][d].snap) \/ k \notin guard
    BY <1>2, <1>3 DEF Kept, Newer
  <2> QED
    BY <1>1, <1>2, <2>1 DEF Mine, MineInHand
<1>6. MineHeld(k, f)'
  BY <1>1, <1>2 DEF Kept, Mine, MineHeld
<1>7. MineOnDisk(k, f)'
  BY <1>1, <1>2 DEF Kept, Unmoved, Mine, MineOnDisk
<1> QED
  BY <1>1, <1>4, <1>5, <1>6, <1>7 DEF Mine

LEMMA ChangedMine ==
  ASSUME Ledger, SyncTypeOK, NEW k \in Keys, NEW g \in Fields, NEW v \in Values, Changed(k, g, v),
         NEW f \in Guarded, Mine(k, f)
  PROVE  Mine(k, f)'
<1>1. Aloof(k) /\ NewSnap \in SnapsOf(k)' /\ NewSnap \in ToSet(queued'[k])
      /\ snapshots'[NewSnap].header = memory'[k] /\ lastEnqueuedMetadata'[k] = memory'[k]
      /\ \A s \in SnapsOf(k)' : s \in SnapsOf(k) \/ s = NewSnap
  BY DEF Changed
<1>2. /\ disk'[k] = disk[k] /\ pendingExternalMetadata'[k] = pendingExternalMetadata[k]
      /\ \A s \in SnapsOf(k) : snapshots'[s] = snapshots[s] /\ s < NewSnap
      /\ \A s \in SnapsOf(k) : s \in ToSet(queued'[k]) => s \in ToSet(queued[k])
      /\ \A d \in Drains : drains'[k][d].stage # "none" =>
           /\ drains[k][d].stage # "none" /\ drains'[k][d].header = drains[k][d].header
           /\ drains'[k][d].snap = drains[k][d].snap /\ drains[k][d].snap \in SnapsOf(k)
  BY <1>1, AloofFacts
<1>3. /\ memory'[k] = [memory[k] EXCEPT ![g] = v] /\ intended'[k] = [intended[k] EXCEPT ![g] = v]
      /\ memory[k] \in [Fields -> Values] /\ intended[k] \in [Fields -> Values] /\ f \in Fields
  BY SyncAssumption DEF Changed, SyncTypeOK, Metadata
<1>4. memory'[k][f] = intended'[k][f]
  BY <1>3 DEF Mine
<1>5. k \notin guard' => k \notin guard /\ memory'[k][f] = memory[k][f]
  <2> SUFFICES ASSUME k \notin guard'
               PROVE  k \notin guard /\ f # g
    BY <1>3
  <2> QED
    BY DEF Changed
<1>6. \A s \in SnapsOf(k) : Newer(k, s)'
  <2> SUFFICES ASSUME NEW s \in SnapsOf(k)
               PROVE  \E t \in SnapsOf(k)' : t > s
    BY DEF Newer
  <2>1. NewSnap > s
    BY <1>2
  <2> QED
    BY <1>1, <2>1
<1>7. MineInLine(k, f)'
  <2> SUFFICES ASSUME NEW s \in SnapsOf(k)', Carries(k, s)'
               PROVE  snapshots'[s].header[f] = memory'[k][f]
    BY DEF MineInLine
  <2>1. CASE s = NewSnap
    BY <1>1, <2>1
  <2>2. CASE s \in SnapsOf(k)
    <3>1. k \notin guard' /\ s \in ToSet(queued'[k])
      BY <1>6, <2>2 DEF Carries
    <3>2. Carries(k, s)
      BY <1>2, <1>5, <2>2, <3>1 DEF Carries
    <3> QED
      BY <1>2, <1>5, <2>2, <3>1, <3>2 DEF Mine, MineInLine
  <2> QED
    BY <1>1, <2>1, <2>2
<1>8. MineInHand(k, f)'
  <2> SUFFICES ASSUME NEW d \in Drains, drains'[k][d].stage # "none",
                      ~Newer(k, drains[k][d].snap)' \/ k \notin guard'
               PROVE  drains'[k][d].header[f] = memory'[k][f]
    BY DEF MineInHand
  <2>1. PICK s \in SnapsOf(k) : s = drains[k][d].snap /\ s = drains'[k][d].snap
    BY <1>2
  <2>2. k \notin guard'
    BY <1>6, <2>1 DEF Newer
  <2> QED
    BY <1>2, <1>5, <2>2 DEF Mine, MineInHand
<1>9. MineHeld(k, f)'
  BY <1>1, <1>2 DEF Mine, MineHeld
<1>10. ToWrite(k)'
  <2>1. queued'[k] # <<>>
    BY <1>1, RisingEmpty
  <2> QED
    BY <2>1 DEF ToWrite
<1>11. MineOnDisk(k, f)'
  BY <1>2, <1>5, <1>10 DEF Changed, Unmoved, Mine, MineOnDisk
<1> QED
  BY <1>4, <1>7, <1>8, <1>9, <1>11 DEF Mine

\* What is taken for somebody else's edit is an older write of ours, seen while the
\* next one is under way: it has memory's value of every guarded field.
LEMMA TakenFile ==
  ASSUME Ledger, NEW k \in Keys, Taken(k), Signed(k), Undiverged(k)
  PROVE  /\ disk[k] # None /\ committedMetadata[k] # None
         /\ disk[k].header = committedMetadata[k]
<1>1. disk[k] # None /\ k \in event /\ ~SelfWrite(k, disk[k].header)
  BY DEF Taken, Absorbed
<1>2. ASSUME NEW d \in Drains, drains[k][d].stage = "renamed"
      PROVE  FALSE
  <2>1. drains[k][d].header # None
    BY <1>2 DEF Ledger, TypeOK, DrainTypeOK
  <2>2. inFlightSignature[k] = drains[k][d].header /\ disk[k].header = drains[k][d].header
    BY <1>1, <1>2 DEF Signed, Undiverged
  <2> QED
    BY <1>1, <2>1, <2>2 DEF SelfWrite, getLastWrittenSignature
<1> QED
  BY <1>1, <1>2 DEF Undiverged

LEMMA TakenGuarding ==
  ASSUME Ledger, SyncTypeOK, NEW k \in Keys, Taken(k), Guarding(k)
  PROVE  Guarding(k)'
<1> USE DEF Ledger
<1>1. PICK seen \in Metadata : seen = disk[k].header
  BY DEF Taken, Absorbed, TypeOK, FileTypeOK, File
<1>2. PICK header \in Metadata : header = memory'[k]
  BY DEF Taken, Absorbed
<1>3. AbsorbExternal(k, seen, header)
  BY <1>1, <1>2 DEF Taken, Absorbed
<1>4. /\ UNCHANGED <<drains, disk, committedMetadata>> /\ inFlightSignature'[k] = inFlightSignature[k]
      /\ queued'[k] = <<NewSnap>> /\ ToSet(queued'[k]) = {NewSnap} /\ queued'[k] # <<>>
      /\ k \in event /\ k \notin event' /\ k \notin guard /\ intended'[k] = intended[k]
  <2>1. ToSet(<<NewSnap>>) = {NewSnap} /\ <<NewSnap>> # <<>>
    BY OneEntry, RisingEmpty
  <2> QED
    BY <1>3, <2>1, AbsorbTells DEF Taken, Unmoved
<1>5. Signed(k)' /\ Undiverged(k)'
  BY <1>4 DEF Guarding, Signed, Undiverged
<1>6. disk[k] # None /\ committedMetadata[k] # None /\ seen = committedMetadata[k]
  BY <1>1, TakenFile DEF Guarding
<1>7. /\ snapshots'[NewSnap].header = header /\ snapshots'[NewSnap].key = k /\ NewSnap \in Nat
      /\ \A s \in SnapsOf(k)' : s = NewSnap \/ (s \in SnapsOf(k) /\ s < NewSnap /\ s # NewSnap)
  <2>1. /\ snapshots' = Append(snapshots, Snapshot(k, header, FALSE, NewSnap))
        /\ NewSnap \in SnapIds
    BY <1>3, AbsorbHeap DEF AbsorbExternal
  <2>2. snapshots'[NewSnap] = Snapshot(k, header, FALSE, NewSnap)
    BY <2>1, SnapshotsKept
  <2>3. Snapshot(k, header, FALSE, NewSnap).header = header /\ Snapshot(k, header, FALSE, NewSnap).key = k
    BY DEF Snapshot
  <2>4. \A s \in SnapsOf(k)' : s \in SnapsOf(k) \/ s = NewSnap
    BY <1>3, AbsorbHeap
  <2>5. \A s \in SnapsOf(k) : s < NewSnap /\ s # NewSnap
    BY LandedTyped, LineTyped DEF SnapsOf, SnapsSoFar
  <2> QED
    BY <2>2, <2>3, <2>4, <2>5, LineTyped
<1>8. /\ lastEnqueuedMetadata'[k] = header
      /\ pendingExternalMetadata'[k] # None /\ pendingExternalMetadata'[k].external = seen
      /\ pendingExternalMetadata'[k].localAt =
           IF lastEnqueuedMetadata[k] # None THEN lastEnqueuedMetadata[k] ELSE committedMetadata[k]
  <2> DEFINE p == [seq |-> NewSnap, external |-> seen,
                   localAt |-> IF lastEnqueuedMetadata[k] # None THEN lastEnqueuedMetadata[k]
                                                                 ELSE committedMetadata[k]]
  <2>1. pendingExternalMetadata' = [pendingExternalMetadata EXCEPT ![k] = p]
    BY <1>3 DEF AbsorbExternal
  <2>2. p.localAt = IF lastEnqueuedMetadata[k] # None THEN lastEnqueuedMetadata[k]
                                                      ELSE committedMetadata[k]
    OBVIOUS
  <2> HIDE DEF p
  <2>3. pendingExternalMetadata'[k] = p
    BY <2>1 DEF TypeOK, BaselineTypeOK
  <2>4. lastEnqueuedMetadata'[k] = header
    BY <1>3 DEF AbsorbExternal, TypeOK, IntakeTypeOK
  <2> QED
    BY <1>3, <2>2, <2>3, <2>4, AbsorbTells
<1>9. ASSUME NEW f \in Guarded
      PROVE  Mine(k, f)'
  <2>1. Mine(k, f)
    BY DEF Guarding
  <2>2. seen[f] = memory[k][f]
    BY <1>1, <1>4, <1>6, <2>1 DEF Mine, MineOnDisk
  <2>3. memory'[k][f] = memory[k][f]
    BY <1>1, <2>2, SyncAssumption DEF Taken, Absorbed, Mirror
  <2>4. MineInLine(k, f)'
    <3> SUFFICES ASSUME NEW s \in SnapsOf(k)', Carries(k, s)'
                 PROVE  snapshots'[s].header[f] = memory'[k][f]
      BY DEF MineInLine
    <3>1. CASE s = NewSnap
      BY <1>2, <1>7, <3>1
    <3>2. CASE s \in SnapsOf(k) /\ s < NewSnap /\ s # NewSnap
      <4>1. NewSnap \in SnapsOf(k)'
        <5>1. snapshots'[NewSnap].key = k
          BY <1>7
        <5>2. Len(snapshots') = NewSnap /\ NewSnap = Len(snapshots) + 1 /\ Len(snapshots) \in Nat
          BY <1>3, AbsorbTells, LineTyped
        <5> QED
          BY <5>1, <5>2 DEF SnapsOf
      <4>2. Newer(k, s)'
        <5>1. NewSnap > s
          BY <3>2
        <5> QED
          BY <4>1, <5>1 DEF Newer
      <4> QED
        BY <1>4, <3>2, <4>2 DEF Carries
    <3> QED
      BY <1>7, <3>1, <3>2
  <2>5. MineInHand(k, f)'
    BY <1>4, <2>1, <2>3 DEF Mine, MineInHand
  <2>6. MineHeld(k, f)'
    <3>1. lastEnqueuedMetadata'[k][f] = memory'[k][f]
      BY <1>2, <1>8
    <3>2. pendingExternalMetadata'[k].localAt # None
      BY <1>6, <1>8
    <3>3. pendingExternalMetadata'[k].external[f] = pendingExternalMetadata'[k].localAt[f]
      BY <1>6, <1>8, <2>1, <2>2 DEF Mine, MineHeld
    <3> QED
      BY <3>1, <3>2, <3>3 DEF MineHeld
  <2>7. MineOnDisk(k, f)'
    BY <1>4 DEF MineOnDisk, ToWrite
  <2> QED
    BY <1>4, <2>1, <2>3, <2>4, <2>5, <2>6, <2>7 DEF Mine
<1> QED
  BY <1>5, <1>9 DEF Guarding

\* A write that begins takes memory's value of a guarded field into its header:
\* the file has not diverged, and an observation of ours moved nothing.
LEMMA BeginGuarding ==
  ASSUME Ledger, NEW k \in Keys, NEW d \in Drains, WriteBegins(k, d), Working(k, d), Guarding(k)
  PROVE  Guarding(k)'
<1> USE DEF Ledger
<1>1. PICK s : s = Head(queued[k])
  OBVIOUS
<1>2. /\ drains'[k][d].stage = "writing" /\ drains'[k][d].snap = s
      /\ \A e \in Drains : e # d => drains'[k][e] = drains[k][e]
      /\ StartWrite(k, d, s)
  BY <1>1, WriteStarts
<1>3. \A e \in Drains : drains[k][e].stage = "none"
  BY LoopAlone DEF WriteBegins, Custody
<1>4. \A e \in Drains : drains'[k][e].stage \in {"none", "writing"}
                        /\ (drains'[k][e].stage # "none" => e = d)
  BY <1>2, <1>3
<1>5. /\ drains'[k][d].header = Chosen(k, s)
      /\ UNCHANGED <<pendingExternalMetadata, committedMetadata, disk, snapshots>>
  BY <1>1, BeginTells
<1>6. inFlightSignature'[k] = Chosen(k, s)
  BY <1>2 DEF StartWrite, Chosen, OnDisk, TypeOK, BaselineTypeOK
<1>7. s \in SnapsOf(k) /\ s \in ToSet(queued[k])
      /\ \A t : t \in ToSet(queued'[k]) => t \in ToSet(queued[k])
  <2>1. /\ s \in ToSet(queued[k]) /\ queued'[k] = Tail(queued[k])
        /\ \A t : t \in ToSet(queued[k]) <=> t = s \/ t \in ToSet(Tail(queued[k]))
    BY <1>1, LineTyped, TailOf DEF WriteBegins, TypeOK, IntakeTypeOK
  <2>2. s \in SnapsSoFar /\ snapshots[s].key = k
    BY <2>1, LineTyped DEF Custody, InLine
  <2> QED
    BY <2>1, <2>2 DEF SnapsOf, SnapsSoFar
<1>8. SnapsOf(k)' = SnapsOf(k) /\ (\A t : Newer(k, t)' <=> Newer(k, t))
  BY <1>5 DEF SnapsOf, Newer
<1>9. /\ memory'[k] = memory[k] /\ guard' = guard /\ intended' = intended
      /\ lastEnqueuedMetadata' = lastEnqueuedMetadata /\ (k \in event' => k \in event)
  BY <1>5 DEF Working, Apart
<1>10. Signed(k)'
  BY <1>4, <1>5, <1>6 DEF Signed
<1>11. OnDisk(k) = None
  BY <1>3 DEF OnDisk, Guarding, Undiverged
<1>12. Undiverged(k)'
  BY <1>3, <1>4, <1>5, <1>9 DEF Guarding, Undiverged
<1>13. ASSUME NEW f \in Guarded
       PROVE  Mine(k, f)'
  <2>1. Mine(k, f) /\ f \in Fields
    BY SyncAssumption DEF Guarding
  <2>2. MineInLine(k, f)'
    BY <1>5, <1>7, <1>8, <1>9, <2>1 DEF Mine, MineInLine, Carries
  <2>3. Chosen(k, s)[f] = snapshots[s].header[f]
    <3> DEFINE p == pendingExternalMetadata[k]
               local == snapshots[s].header
    <3>1. p # None => p.external[f] = p.localAt[f] /\ p.localAt # None
      BY <2>1 DEF Mine, MineHeld
    <3>2. Chosen(k, s)[f] = IF p # None /\ p.localAt # None /\ local[f] # p.localAt[f] THEN local[f]
                            ELSE IF p # None THEN p.external[f] ELSE local[f]
      BY <1>11, <2>1 DEF Chosen, Resolve
    <3> QED
      BY <3>1, <3>2
  <2>4. MineInHand(k, f)'
    <3> SUFFICES ASSUME NEW e \in Drains, drains'[k][e].stage # "none",
                        ~Newer(k, drains[k][e].snap)' \/ k \notin guard'
                 PROVE  drains'[k][e].header[f] = memory'[k][f]
      BY DEF MineInHand
    <3>1. e = d /\ drains'[k][e].snap = s
      BY <1>2, <1>4
    <3>2. Carries(k, s)
      BY <1>7, <1>8, <1>9, <3>1 DEF Carries, Newer
    <3>3. snapshots[s].header[f] = memory[k][f]
      BY <1>7, <2>1, <3>2 DEF Mine, MineInLine
    <3> QED
      BY <1>5, <1>9, <2>3, <3>1, <3>3
  <2>5. MineHeld(k, f)'
    BY <1>5, <1>9, <2>1 DEF Mine, MineHeld
  <2>6. ToWrite(k)'
    BY <1>2 DEF ToWrite
  <2>7. MineOnDisk(k, f)'
    BY <1>5, <1>9, <2>1, <2>6 DEF Mine, MineOnDisk
  <2> QED
    BY <1>9, <2>1, <2>2, <2>4, <2>5, <2>7 DEF Mine
<1> QED
  BY <1>10, <1>12, <1>13 DEF Guarding

\* A write that goes on keeps its signature; one that ends has let it go.
LEMMA WriteSigned ==
  ASSUME Ledger, NEW k \in Keys, NEW d \in Drains, WriteStep(k, d)
  PROVE  drains'[k][d].stage \in {"writing", "unlinking", "renaming", "renamed"} =>
           /\ inFlightSignature'[k] = inFlightSignature[k]
           /\ drains[k][d].stage \in {"writing", "unlinking", "renaming"}
<1> USE DEF Ledger
<1>1. CASE TmpWritten(k, d) \/ TargetUnlinked(k, d) \/ Renamed(k, d)
  BY <1>1 DEF TmpWritten, TargetUnlinked, Renamed, AtStage, baselineVars
<1>2. CASE RenameReturns(k, d)
  <2>1. drains'[k][d].stage \in {"none", "abandoning"}
    BY <1>2, WriteDisk DEF Renamed, RenameReturns, AtStage
  <2> QED
    BY <2>1
<1>3. CASE TmpDropped(k, d)
  <2>1. \/ SetDrain(k, d, [drains[k][d] EXCEPT !.stage = "discarding"])
        \/ EndWrite(k, d, drains[k][d].reason)
    BY <1>3 DEF TmpDropped
  <2>2. drains'[k][d].stage \in {"discarding", "none"}
    BY <2>1, StageTells, EndSet
  <2> QED
    BY <2>2
<1>4. CASE FileDiscarded(k, d) \/ FailureTidied(k, d)
  <2>1. EndWrite(k, d, drains[k][d].reason)
    BY <1>4 DEF FileDiscarded, FailureTidied
  <2>2. drains'[k][d].stage = "none"
    BY <2>1, EndSet
  <2> QED
    BY <2>2
<1>5. CASE WriteFails(k, d)
  <2>1. CASE Cancelled(k, Generation(drains[k][d].snap))
    BY <1>5, <2>1 DEF WriteFails, AtStage
  <2>2. CASE ~Cancelled(k, Generation(drains[k][d].snap))
    <3>1. EndWrite(k, d, "failed")
      BY <1>5, <2>2 DEF WriteFails, RetainFailure
    <3>2. drains'[k][d].stage = "none"
      BY <3>1, EndSet
    <3> QED
      BY <3>2
  <2> QED
    BY <2>1, <2>2
<1> QED
  BY <1>1, <1>2, <1>3, <1>4, <1>5 DEF WriteStep

\* The write that leaves nothing else to write is of the newest snapshot.
LEMMA LastWriteIsNewest ==
  ASSUME Ledger, NEW k \in Keys, Filed(k), Undeleted, Lined(k), NEW d \in Drains,
         drains[k][d].stage # "none", queued[k] = <<>>
  PROVE  ~Newer(k, drains[k][d].snap) /\ (drains[k][d].stage = "renamed" => disk[k] # None)
<1>1. HandMarks(k, drains[k][d])
  BY DEF Filed, Marked
<1>2. PICK s \in SnapsSoFar : s = drains[k][d].snap
  BY HandTyped DEF Ledger
<1>3. s \in Nat /\ s # 0
  BY LandedTyped DEF Ledger, SnapsSoFar
<1>4. ~Obsolete(k, s)
  BY <1>3 DEF Undeleted, Obsolete
<1>5. Past(k, s)
  BY <1>2, <1>4 DEF Lined, HandIsNewest
<1>6. ~(s <= supersededAt[k])
  BY <1>1, <1>2, <1>4 DEF HandMarks
<1> QED
  BY <1>1, <1>2, <1>4, <1>5, <1>6 DEF Past, HandMarks

LEMMA WriteGuarding ==
  ASSUME Ledger, NEW k \in Keys, Filed(k), Undeleted, Lined(k), TmpHeld(k), NEW d \in Drains,
         WriteStep(k, d), Working(k, d), Guarding(k)
  PROVE  Guarding(k)'
<1>1. /\ AtWork(k, d) /\ drains[k][d].stage # "none"
      /\ (\A e \in Drains : e # d => drains'[k][e].stage = "none")
      /\ UNCHANGED <<snapshots, queued>> /\ SnapsOf(k)' = SnapsOf(k)
  BY WriteFrame DEF AtWork
<1>2. ASSUME NEW e \in Drains, drains'[k][e].stage # "none"
      PROVE  /\ e = d /\ drains'[k][d].snap = drains[k][d].snap
             /\ drains'[k][d].header = drains[k][d].header
  BY <1>1, <1>2, WriteTells
<1>3. ASSUME NEW e \in Drains, drains[k][e].stage # "none"
      PROVE  e = d
  BY <1>1, <1>3, SoleHand DEF AtWork, Ledger, Custody
<1>4. /\ memory'[k] = memory[k] /\ guard' = guard /\ intended' = intended
      /\ lastEnqueuedMetadata' = lastEnqueuedMetadata
      /\ k \in event' => k \in event \/ disk'[k] # disk[k]
  BY DEF Working, Apart
<1>5. \A t : Newer(k, t)' <=> Newer(k, t)
  BY <1>1 DEF Newer
<1>6. Signed(k)'
  <2> SUFFICES ASSUME NEW e \in Drains,
                      drains'[k][e].stage \in {"writing", "unlinking", "renaming", "renamed"}
               PROVE  inFlightSignature'[k] = drains'[k][e].header
    BY DEF Signed
  <2>1. e = d /\ drains'[k][d].header = drains[k][d].header
    BY <1>2
  <2>2. inFlightSignature'[k] = inFlightSignature[k]
        /\ drains[k][d].stage \in {"writing", "unlinking", "renaming"}
    BY <2>1, WriteSigned
  <2> QED
    BY <2>1, <2>2 DEF Guarding, Signed
<1>7. Renamed(k, d) => /\ disk'[k].header = drains[k][d].header
                       /\ drains'[k][d].stage = "renamed"
  <2> SUFFICES ASSUME Renamed(k, d)
               PROVE  disk'[k].header = drains[k][d].header /\ drains'[k][d].stage = "renamed"
    OBVIOUS
  <2>1. SetDrain(k, d, [drains[k][d] EXCEPT !.stage = "renamed"])
    BY DEF Renamed
  <2>2. drains'[k][d].stage = "renamed"
    BY <2>1, StageTells DEF Ledger
  <2>3. drains[k][d].stage = "renaming" /\ tmp[k] # None /\ disk'[k] = tmp[k]
    BY ONLY <2>2, WriteDisk, Ledger, k \in Keys, d \in Drains, WriteStep(k, d), Renamed(k, d)
    DEF Renamed, RenameReturns, AtStage
  <2> QED
    BY <2>2, <2>3 DEF TmpHeld
<1>8. RenameReturns(k, d) =>
        /\ drains[k][d].stage = "renamed" /\ disk' = disk /\ committedMetadata'[k] = drains[k][d].header
        /\ drains'[k][d].stage # "renamed" /\ drains[k][d].header # None
  <2>1. drains[k][d].stage = "renamed" => drains[k][d].header # None
    BY DEF Ledger, TypeOK, DrainTypeOK
  <2> QED
    BY <2>1, WriteDisk DEF Renamed, RenameReturns, AtStage
<1>9. ~Renamed(k, d) /\ ~RenameReturns(k, d) =>
        /\ drains[k][d].stage # "renamed" /\ drains'[k][d].stage # "renamed"
        /\ disk'[k] # None => disk'[k] = disk[k] /\ committedMetadata'[k] = committedMetadata[k]
  BY WriteDisk
<1>10. Undiverged(k)'
  <2> SUFFICES ASSUME disk'[k] # None
               PROVE  Undiverged(k)'
    BY DEF Undiverged
  <2>1. CASE Renamed(k, d)
    BY <1>2, <1>7, <2>1 DEF Undiverged
  <2>2. CASE RenameReturns(k, d)
    <3>1. disk[k].header = drains[k][d].header
      BY <1>8, <2>2 DEF Guarding, Undiverged
    <3>2. \A e \in Drains : drains'[k][e].stage # "renamed"
      BY <1>2, <1>8, <2>2
    <3> QED
      BY <1>8, <2>2, <3>1, <3>2 DEF Undiverged
  <2>3. CASE ~Renamed(k, d) /\ ~RenameReturns(k, d)
    <3>1. \A e \in Drains : drains'[k][e].stage # "renamed" /\ drains[k][e].stage # "renamed"
      BY <1>2, <1>3, <1>9, <2>3
    <3>2. /\ disk'[k] = disk[k] /\ committedMetadata'[k] = committedMetadata[k]
          /\ k \in event' => k \in event
      BY <1>4, <1>9, <2>3
    <3> QED
      BY <3>1, <3>2 DEF Guarding, Undiverged
  <2> QED
    BY <2>1, <2>2, <2>3
<1>11. ASSUME NEW f \in Guarded
       PROVE  Mine(k, f)'
  <2>1. Mine(k, f)
    BY DEF Guarding
  <2>2. MineInLine(k, f)'
    BY <1>1, <1>4, <1>5, <2>1 DEF Mine, MineInLine, Carries
  <2>3. MineInHand(k, f)'
    <3> SUFFICES ASSUME NEW e \in Drains, drains'[k][e].stage # "none",
                        ~Newer(k, drains[k][e].snap)' \/ k \notin guard'
                 PROVE  drains'[k][e].header[f] = memory'[k][f]
      BY DEF MineInHand
    <3>1. /\ e = d /\ drains'[k][d].snap = drains[k][d].snap
          /\ drains'[k][d].header = drains[k][d].header
      BY <1>2
    <3>2. ~Newer(k, drains[k][d].snap) \/ k \notin guard
      BY <1>4, <1>5, <3>1
    <3> QED
      BY <1>1, <1>4, <2>1, <3>1, <3>2 DEF Mine, MineInHand
  <2>4. MineHeld(k, f)'
    <3>1. pendingExternalMetadata'[k] \in {pendingExternalMetadata[k], None}
      BY WriteLetsGo
    <3> QED
      BY <1>4, <2>1, <3>1 DEF Mine, MineHeld
  <2>5. k \notin guard' /\ k \in event' /\ disk'[k] # None => disk'[k].header[f] = memory'[k][f]
    <3> SUFFICES ASSUME k \notin guard', k \in event', disk'[k] # None
                 PROVE  disk'[k].header[f] = memory'[k][f]
      OBVIOUS
    <3>1. CASE Renamed(k, d)
      BY <1>1, <1>4, <1>7, <2>1, <3>1 DEF Mine, MineInHand
    <3>2. CASE ~Renamed(k, d)
      <4>1. disk'[k] = disk[k]
        BY <1>8, <1>9, <3>2
      <4> QED
        BY <1>4, <2>1, <4>1 DEF Mine, MineOnDisk
    <3> QED
      BY <3>1, <3>2
  <2>6. ~ToWrite(k)' => disk'[k] # None /\ disk'[k].header[f] = memory'[k][f]
    <3> SUFFICES ASSUME ~ToWrite(k)'
                 PROVE  disk'[k] # None /\ disk'[k].header[f] = memory'[k][f]
      OBVIOUS
    <3>1. RenameReturns(k, d) /\ queued[k] = <<>>
      BY <1>1, WriteWorks DEF ToWrite
    <3>2. ~Newer(k, drains[k][d].snap) /\ disk[k] # None
      BY <1>1, <1>8, <3>1, LastWriteIsNewest
    <3>3. disk[k].header = drains[k][d].header
      BY <1>8, <3>1, <3>2 DEF Guarding, Undiverged
    <3>4. drains[k][d].header[f] = memory[k][f]
      BY <1>1, <2>1, <3>2 DEF Mine, MineInHand
    <3> QED
      BY <1>4, <1>8, <3>1, <3>2, <3>3, <3>4
  <2>7. MineOnDisk(k, f)'
    BY <2>5, <2>6 DEF MineOnDisk
  <2> QED
    BY <1>4, <2>1, <2>2, <2>3, <2>4, <2>7 DEF Mine
<1> QED
  BY <1>6, <1>10, <1>11 DEF Guarding

LEMMA LinedSync ==
  ASSUME Synced, [SyncNext]_allVars, NEW k \in Keys, Lined(k)
  PROVE  Lined(k)'
<1>1. Ledger /\ Filed(k)
  BY DEF Synced, Files
<1>2. ASSUME NEW f \in Fields, NEW v \in Values, Rewritten(k, f, v)
      PROVE  Lined(k)'
  <2>1. UNCHANGED <<snapshots, queued, drains, failedSnapshots, deletedAt, supersededAt>>
    BY <1>2 DEF Rewritten, queueVars, outcomeVars, historyVars
  <2>2. SnapsOf(k)' = SnapsOf(k)
    BY <2>1 DEF SnapsOf
  <2>3. (\A t : Newer(k, t)' <=> Newer(k, t)) /\ (\A t : Past(k, t)' <=> Past(k, t))
        /\ (\A t : Obsolete(k, t)' <=> Obsolete(k, t)) /\ (InWork(k)' <=> InWork(k))
    BY <2>1, <2>2 DEF Newer, Past, Obsolete, InWork
  <2> QED
    BY <2>1, <2>2, <2>3 DEF Lined, LineIsNewest, HandIsNewest, Overtaken
<1>3. CASE Aloof(k)
  BY <1>1, <1>3, MildLined DEF Aloof
<1> QED
  BY <1>1, <1>2, <1>3, AbsorbLined, BeginLined, WriteLined, SyncStepOf

Keeping == \A k \in Keys : Lined(k) /\ (Alone(k) => Guarding(k))

LEMMA KeepingInit == SyncInit => Keeping
<1> SUFFICES ASSUME SyncInit, NEW k \in Keys
             PROVE  Lined(k) /\ Guarding(k)
  BY DEF Keeping
<1> DEFINE file == [content |-> 0, header |-> Start]
<1>1. /\ snapshots = <<>> /\ queued[k] = <<>> /\ failedSnapshots[k] = NoSnap
      /\ \A d \in Drains : drains[k][d].stage = "none"
      /\ lastEnqueuedMetadata[k] = None /\ pendingExternalMetadata[k] = None
      /\ committedMetadata[k] \in {Start, None} /\ memory[k] = Start /\ intended[k] = Start
      /\ event = {}
  BY DEF SyncInit, InitWith, IdleDrain
<1>2. disk[k] = file /\ file \in File /\ file.header = Start
  BY StartIsMetadata, BoundsAreNat DEF SyncInit, InitWith, File
<1>3. disk[k] # None /\ disk[k].header = Start
  BY <1>2, QueueAssumption
<1>4. SnapsOf(k) = {}
  BY <1>1 DEF SnapsOf
<1>5. Lined(k)
  BY <1>1 DEF Lined, LineIsNewest, HandIsNewest, Overtaken
<1>6. Signed(k) /\ Undiverged(k)
  BY <1>1, <1>3 DEF Signed, Undiverged
<1>7. ASSUME NEW f \in Guarded
      PROVE  Mine(k, f)
  BY <1>1, <1>3, <1>4 DEF Mine, MineInLine, MineInHand, MineHeld, MineOnDisk
<1> QED
  BY <1>5, <1>6, <1>7 DEF Guarding

LEMMA KeepingStep ==
  ASSUME Observed, AllCarrying, Keeping, [SyncNext]_allVars
  PROVE  Keeping'
<1> SUFFICES ASSUME NEW k \in Keys
             PROVE  (Lined(k) /\ (Alone(k) => Guarding(k)))'
  BY DEF Keeping
<1>1. Synced /\ Ledger /\ SyncTypeOK /\ Filed(k) /\ Undeleted /\ Lined(k)
  BY DEF Observed, Synced, Files, Keeping
<1>2. Lined(k)'
  BY <1>1, LinedSync
<1>3. ASSUME Alone(k)'
      PROVE  Guarding(k)'
  <2>1. Alone(k)
    BY <1>1, <1>3, AloneBefore
  <2>2. NoTurn
    BY <2>1 DEF Alone
  <2>3. TmpHeld(k) /\ Guarding(k) /\ (\A i \in Keys : turn[i] = "idle")
    BY <2>1, <2>2 DEF Keeping, AllCarrying, Carrying
  <2>4. CASE Kept(k)
    <3>1. Signed(k)' /\ Undiverged(k)'
      BY <2>3, <2>4, AloofSigned DEF Kept, Guarding
    <3>2. \A f \in Guarded : Mine(k, f)'
      BY <1>1, <2>3, <2>4, KeptMine DEF Guarding
    <3> QED
      BY <3>1, <3>2 DEF Guarding
  <2>5. ASSUME NEW g \in Fields, NEW v \in Values, Changed(k, g, v)
        PROVE  Guarding(k)'
    <3>1. Signed(k)' /\ Undiverged(k)'
      BY <2>3, <2>5, AloofSigned DEF Changed, Guarding
    <3>2. \A f \in Guarded : Mine(k, f)'
      BY <1>1, <2>3, <2>5, ChangedMine DEF Guarding
    <3> QED
      BY <3>1, <3>2 DEF Guarding
  <2>6. CASE Taken(k)
    BY <1>1, <2>3, <2>6, TakenGuarding
  <2>7. ASSUME NEW d \in Drains, Working(k, d)
        PROVE  Guarding(k)'
    <3>1. CASE WriteBegins(k, d)
      BY <1>1, <2>3, <2>7, <3>1, BeginGuarding
    <3>2. CASE WriteStep(k, d)
      BY <1>1, <2>3, <2>7, <3>2, WriteGuarding
    <3> QED
      BY <2>7, <3>1, <3>2 DEF Working
  <2> QED
    BY <1>1, <1>3, <2>3, <2>4, <2>5, <2>6, <2>7, AloneStepOf
<1> QED
  BY <1>2, <1>3

\* In a session nobody else edits, that has run no turn and was told of no edit at
\* once, a guarded edit is in memory and on disk once all is quiet: no echo of our
\* own writes, and no write that failed, is taken for somebody else's edit.
THEOREM GuardedEditsSurvive == SyncSpec => []GuardedEditSurvives
<1>1. SyncInit => Observed /\ AllCarrying /\ Keeping
  BY ObservedInit, CarryingInit, KeepingInit
<1>2. Observed /\ AllCarrying /\ Keeping /\ [SyncNext]_allVars => (Observed /\ AllCarrying /\ Keeping)'
  BY ObservedStep, CarryingStep, KeepingStep
<1>3. Observed /\ Keeping => GuardedEditSurvives
  <2> SUFFICES ASSUME Observed, Keeping, NEW k \in Keys, Quiet(k), Alone(k), NEW f \in Guarded
               PROVE  /\ memory[k][f] = intended[k][f]
                      /\ disk[k] # None /\ disk[k].header[f] = intended[k][f]
    BY DEF GuardedEditSurvives, Alone
  <2>1. ~ToWrite(k)
    BY QuietHasNothingToWrite DEF Observed, Synced, Files
  <2>2. Mine(k, f)
    BY DEF Keeping, Guarding
  <2> QED
    BY <2>1, <2>2 DEF Mine, MineOnDisk
<1> QED
  BY <1>1, <1>2, <1>3, PTL DEF SyncSpec
=============================================================================
