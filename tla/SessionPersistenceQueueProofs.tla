------------------- MODULE SessionPersistenceQueueProofs -------------------
(***************************************************************************)
(* What SessionPersistenceQueue guarantees for every number of sessions,   *)
(* drains, snapshots and faults: its types, one writer per session, no     *)
(* cancellation of a write that was enqueued after it, honest receipts     *)
(* that somebody will settle, no stranded entry, no bookkeeping left over. *)
(***************************************************************************)
EXTENDS SessionPersistenceQueue, SequenceTheorems, TLAPS

----------------------------------------------------------------------------
(* The operators the steps are built from. *)

LEMMA BoundsAreNat == MaxHeap \in Nat /\ MaxSnapshots \in Nat /\ MaxSnapshots <= MaxHeap
  BY QueueAssumption DEF MaxHeap

\* The later of two generations is one of them, and not below the other.
LEMMA MaxOfTwo ==
  ASSUME NEW a \in Nat, NEW b \in Nat
  PROVE  Max({a, b}) \in Nat /\ Max({a, b}) >= a /\ Max({a, b}) >= b
         /\ Max({a, b}) \in {a, b}
<1>1. \E x \in {a, b} : \A y \in {a, b} : x >= y
  OBVIOUS
<1>2. /\ Max({a, b}) \in {a, b}
      /\ \A y \in {a, b} : Max({a, b}) >= y
  BY <1>1 DEF Max
<1> QED
  BY <1>2

\* A chained drain takes a free place.
LEMMA NewDrainIsFree ==
  ASSUME NEW k \in Keys, HasFreeDrain(k)
  PROVE  NewDrain(k) \in Drains /\ NewDrain(k) \notin Active(k)
<1>1. \E d \in Drains : d \notin Active(k)
  BY DEF HasFreeDrain, Active
<1> QED
  BY <1>1 DEF NewDrain

\* What a write puts in its header is metadata, whatever the disk holds.
LEMMA ResolveIsMetadata ==
  ASSUME NEW local \in Metadata, NEW onDisk \in Metadata \cup {None},
         NEW seen \in [seq : SnapIds, external : Metadata, localAt : Metadata \cup {None}]
                        \cup {None},
         NEW lastWritten
  PROVE  Resolve(local, onDisk, seen, lastWritten) \in Metadata
  BY DEF Resolve, Metadata

----------------------------------------------------------------------------
(* Type correctness.  More snapshots never make a state ill-typed. *)

Grows == snapshots' \in Seq([key : Keys, generation : Nat, checked : BOOLEAN,
                             header : Metadata, content : SnapIds])
         /\ Len(snapshots) <= Len(snapshots')

LEMMA SnapsGrow ==
  ASSUME IntakeTypeOK, Grows
  PROVE  SnapsSoFar \subseteq SnapsSoFar' /\ Len(snapshots) \in Nat /\ Len(snapshots') \in Nat
  BY LenProperties DEF IntakeTypeOK, Grows, SnapsSoFar

LEMMA SnapshotTyped ==
  ASSUME IntakeTypeOK, NEW s \in SnapsSoFar
  PROVE  /\ snapshots[s].key \in Keys /\ snapshots[s].header \in Metadata
         /\ snapshots[s].content \in SnapIds /\ Generation(s) \in Nat /\ s \in SnapIds
<1>1. snapshots[s] \in
        [key : Keys, generation : Nat, checked : BOOLEAN, header : Metadata, content : SnapIds]
  BY ElementOfSeq DEF IntakeTypeOK, SnapsSoFar
<1>2. Len(snapshots) \in Nat
  BY LenProperties DEF IntakeTypeOK
<1>3. s \in SnapIds
  BY <1>2, BoundsAreNat DEF IntakeTypeOK, SnapsSoFar, SnapIds
<1> QED
  BY <1>1, <1>3 DEF Generation

LEMMA OutcomeFrame ==
  ASSUME IntakeTypeOK, Grows, OutcomeTypeOK, UNCHANGED <<receiptVars, outcomeVars>>
  PROVE  OutcomeTypeOK'
  BY SnapsGrow DEF OutcomeTypeOK, receiptVars, outcomeVars

LEMMA BaselineFrame ==
  ASSUME BaselineTypeOK, UNCHANGED baselineVars
  PROVE  BaselineTypeOK'
  BY DEF BaselineTypeOK, baselineVars

LEMMA DrainFrame ==
  ASSUME IntakeTypeOK, Grows, DrainTypeOK, UNCHANGED <<tails, drains>>
  PROVE  DrainTypeOK'
  BY SnapsGrow DEF DrainTypeOK, DrainRecord

LEMMA FlushFrame ==
  ASSUME IntakeTypeOK, Grows, FlushTypeOK, UNCHANGED <<closing, flush>>
  PROVE  FlushTypeOK'
  BY SnapsGrow DEF FlushTypeOK

LEMMA FileFrame ==
  ASSUME FileTypeOK, UNCHANGED <<fileVars, leftover>>
  PROVE  FileTypeOK'
  BY DEF FileTypeOK, fileVars

LEMMA HistoryFrame ==
  ASSUME IntakeTypeOK, Grows, HistoryTypeOK,
         UNCHANGED <<landed, deletedAt, supersededAt, crashedAt>>
  PROVE  HistoryTypeOK'
  BY SnapsGrow DEF HistoryTypeOK

\* The ways the intake changes: not at all, or by one snapshot more.
LEMMA IntakeSame ==
  ASSUME IntakeTypeOK, UNCHANGED snapshots
  PROVE  Grows
  BY DEF IntakeTypeOK, Grows

LEMMA SnapshotAppended ==
  ASSUME IntakeTypeOK, NEW k \in Keys, NEW header \in Metadata,
         NEW checked \in BOOLEAN, NEW content \in SnapIds, Len(snapshots) < MaxHeap,
         snapshots' = Append(snapshots, Snapshot(k, header, checked, content))
  PROVE  Grows /\ NewSnap \in SnapsSoFar' /\ NewSnap \in SnapIds
         /\ Len(snapshots') = NewSnap /\ NewSnap <= MaxHeap
<1>1. Snapshot(k, header, checked, content) \in
        [key : Keys, generation : Nat, checked : BOOLEAN, header : Metadata, content : SnapIds]
  BY DEF Snapshot, IntakeTypeOK
<1>2. /\ snapshots' \in Seq([key : Keys, generation : Nat, checked : BOOLEAN,
                             header : Metadata, content : SnapIds])
      /\ Len(snapshots') = Len(snapshots) + 1
  BY <1>1, AppendProperties DEF IntakeTypeOK
<1>3. Len(snapshots) \in Nat
  BY LenProperties DEF IntakeTypeOK
<1> QED
  BY <1>2, <1>3, BoundsAreNat DEF Grows, SnapsSoFar, SnapIds, NewSnap

LEMMA QueueTyped ==
  ASSUME IntakeTypeOK, Grows, NEW k \in Keys
  PROVE  queued[k] \in Seq(SnapsSoFar) /\ queued \in [Keys -> Seq(SnapsSoFar')]
<1>1. \A q \in Seq(SnapsSoFar) : q \in Seq(SnapsSoFar')
  BY SnapsGrow, SeqMonotonic
<1> QED
  BY <1>1 DEF IntakeTypeOK

LEMMA PutEntryType ==
  ASSUME IntakeTypeOK, NEW k \in Keys, NEW header \in Metadata,
         NEW checked \in BOOLEAN, NEW content \in SnapIds,
         PutEntry(k, header, checked, content), armed' \subseteq armed \cup {NewSnap},
         UNCHANGED cancelledThrough
  PROVE  Grows /\ IntakeTypeOK' /\ NewSnap \in SnapsSoFar' /\ NewSnap \in SnapIds
<1>1. Grows /\ NewSnap \in SnapsSoFar' /\ NewSnap \in SnapIds
      /\ Len(snapshots') = NewSnap /\ NewSnap <= MaxHeap
  BY SnapshotAppended DEF PutEntry
<1>2. queued[k] \in Seq(SnapsSoFar') /\ queued \in [Keys -> Seq(SnapsSoFar')]
  BY <1>1, QueueTyped
<1>3. queued[k] # <<>> => Front(queued[k]) \in Seq(SnapsSoFar')
  BY <1>2, SubSeqProperties, LenProperties DEF Front
<1>4. Replaces(k, checked) => queued[k] # <<>>
  BY DEF Replaces
<1>5. Append(IF Replaces(k, checked) THEN Front(queued[k]) ELSE queued[k], NewSnap)
        \in Seq(SnapsSoFar')
  BY <1>1, <1>2, <1>3, <1>4, AppendProperties
<1>6. queued' \in [Keys -> Seq(SnapsSoFar')]
  BY <1>2, <1>5 DEF PutEntry
<1>7. armed' \subseteq SnapsSoFar'
  BY <1>1, SnapsGrow DEF IntakeTypeOK
<1>8. /\ generations' \in [Keys -> Nat]
      /\ lastEnqueuedMetadata' \in [Keys -> Metadata \cup {None}]
  BY DEF PutEntry, IntakeTypeOK
<1> QED
  BY <1>1, <1>6, <1>7, <1>8 DEF IntakeTypeOK, Grows

Answers == {"ok", "failed", "superseded", "deleted"}
Reasons == {"superseded", "deleted"}

LEMMA SettleType ==
  ASSUME IntakeTypeOK, Grows, OutcomeTypeOK, NEW k \in Keys, NEW S,
         NEW answer \in {"none"} \cup Answers, Settle(k, S, answer)
  PROVE  /\ waiters' \in [Keys -> SUBSET SnapsSoFar']
         /\ receipts' \in [SnapIds -> {"none", "waiting"} \cup Answers]
  BY SnapsGrow DEF Settle, OutcomeTypeOK, Answers

LEMMA ReceiptForType ==
  ASSUME IntakeTypeOK, Grows, OutcomeTypeOK, NEW k \in Keys, ReceiptFor(k),
         NewSnap \in SnapsSoFar'
  PROVE  /\ waiters' \in [Keys -> SUBSET SnapsSoFar']
         /\ receipts' \in [SnapIds -> {"none", "waiting"} \cup Answers]
<1>1. waiters \in [Keys -> SUBSET SnapsSoFar']
  BY SnapsGrow DEF OutcomeTypeOK
<1>2. waiters' \in [Keys -> SUBSET SnapsSoFar']
  BY <1>1 DEF ReceiptFor
<1>3. CancellationReason(k, generations[k] + 1) \in Answers
  BY DEF CancellationReason, Answers
<1>4. receipts' \in [SnapIds -> {"none", "waiting"} \cup Answers]
  BY <1>3 DEF ReceiptFor, OutcomeTypeOK, Answers
<1> QED
  BY <1>2, <1>4

LEMMA RunOnTailType ==
  ASSUME IntakeTypeOK, Grows, DrainTypeOK, NEW S \in SUBSET Keys, RunOnTail(S)
  PROVE  DrainTypeOK'
<1>1. \A k \in S : NewDrain(k) \in Drains
  BY NewDrainIsFree DEF RunOnTail
<1>2. \A k \in Keys : ChainedDrain(k) \in DrainRecord'
      /\ ChainedDrain(k).stage = "none"
  BY DEF ChainedDrain, IdleDrain, DrainTypeOK, DrainRecord, Stages
<1>3. drains \in [Keys -> [Drains -> DrainRecord']]
  BY SnapsGrow DEF DrainTypeOK, DrainRecord
<1>4. tails' \in [Keys -> Drains \cup {NoDrain}]
  BY <1>1 DEF RunOnTail, DrainTypeOK
<1>5. drains' = [k \in Keys |-> IF k \in S
                   THEN [drains[k] EXCEPT ![NewDrain(k)] = ChainedDrain(k)]
                   ELSE drains[k]]
  BY DEF RunOnTail
<1>6. \A k \in Keys, d \in Drains :
        drains'[k][d] = drains[k][d] \/ drains'[k][d] = ChainedDrain(k)
  BY <1>1, <1>3, <1>5
<1>7. \A k \in Keys : drains'[k] \in [Drains -> DrainRecord']
  BY <1>1, <1>2, <1>3, <1>5
<1>8. \A k \in Keys, d \in Drains : drains'[k][d].stage # "none" =>
        drains'[k][d].snap # NoSnap /\ drains'[k][d].header # None
  BY <1>2, <1>6 DEF DrainTypeOK
<1> QED
  BY <1>4, <1>5, <1>7, <1>8 DEF DrainTypeOK

LEMMA SpendType ==
  ASSUME BudgetTypeOK, NEW what \in {"flushes", "failures", "supersedes", "deletes", "crashes"},
         Spend(what)
  PROVE  BudgetTypeOK'
  BY QueueAssumption DEF Spend, BudgetTypeOK

LEMMA BudgetFrame ==
  ASSUME BudgetTypeOK, UNCHANGED budget
  PROVE  BudgetTypeOK'
  BY DEF BudgetTypeOK

LEMMA EnqueueAndDriveType ==
  ASSUME IntakeTypeOK, OutcomeTypeOK, DrainTypeOK, NEW k \in Keys, NEW header \in Metadata,
         NEW content \in SnapIds, EnqueueAndDrive(k, header, content),
         UNCHANGED <<cancelledThrough, outcomeVars>>
  PROVE  /\ Grows /\ NewSnap \in SnapsSoFar'
         /\ IntakeTypeOK' /\ OutcomeTypeOK' /\ DrainTypeOK'
<1>1. PutEntry(k, header, TRUE, content) /\ ReceiptFor(k) /\ ClearTimers({k}) /\ RunOnTail({k})
  BY DEF EnqueueAndDrive
<1>2. armed' \subseteq armed \cup {NewSnap}
  BY <1>1 DEF ClearTimers
<1>3. Grows /\ IntakeTypeOK' /\ NewSnap \in SnapsSoFar'
  BY <1>1, <1>2, PutEntryType
<1>4. /\ waiters' \in [Keys -> SUBSET SnapsSoFar']
      /\ receipts' \in [SnapIds -> {"none", "waiting"} \cup Answers]
  BY <1>1, <1>3, ReceiptForType
<1>5. OutcomeTypeOK'
  BY <1>3, <1>4, SnapsGrow DEF OutcomeTypeOK, outcomeVars, Answers
<1>6. DrainTypeOK'
  BY <1>1, <1>3, RunOnTailType
<1> QED
  BY <1>3, <1>5, <1>6

----------------------------------------------------------------------------
(* Type correctness of each operation. *)

LEMMA EnqueueType ==
  ASSUME TypeOK, NEW k \in Keys, NEW header \in Metadata, Enqueue(k, header)
  PROVE  TypeOK'
<1>1. NewSnap \in SnapIds
  BY BoundsAreNat, LenProperties DEF TypeOK, IntakeTypeOK, Enqueue, PutEntry, NewSnap, SnapIds
<1>2. Grows /\ IntakeTypeOK'
  BY <1>1, PutEntryType DEF TypeOK, Enqueue
<1> QED
  BY <1>2, OutcomeFrame, BaselineFrame, DrainFrame, FlushFrame, FileFrame, BudgetFrame,
     HistoryFrame DEF TypeOK, Enqueue, historyVars

LEMMA EnqueueCheckedType ==
  ASSUME TypeOK, NEW k \in Keys, NEW header \in Metadata, EnqueueChecked(k, header)
  PROVE  TypeOK'
<1>1. NewSnap \in SnapIds
  BY BoundsAreNat, LenProperties
  DEF TypeOK, IntakeTypeOK, EnqueueChecked, Room, NewSnap, SnapIds
<1>2. Grows /\ IntakeTypeOK' /\ OutcomeTypeOK' /\ DrainTypeOK'
  BY <1>1, EnqueueAndDriveType DEF TypeOK, EnqueueChecked
<1> QED
  BY <1>2, BaselineFrame, FlushFrame, FileFrame, BudgetFrame, HistoryFrame
  DEF TypeOK, EnqueueChecked, historyVars

\* Only the timers of the intake change.
LEMMA IntakeFrame ==
  ASSUME IntakeTypeOK, armed' \subseteq armed,
         UNCHANGED <<snapshots, queued, generations, cancelledThrough, lastEnqueuedMetadata>>
  PROVE  Grows /\ IntakeTypeOK'
  BY IntakeSame DEF IntakeTypeOK, SnapsSoFar

LEMMA FlushKeyType ==
  ASSUME TypeOK, NEW k \in Keys, Flush(k)
  PROVE  TypeOK'
<1>1. Grows /\ IntakeTypeOK'
  BY IntakeFrame DEF TypeOK, Flush, ClearTimers
<1>2. DrainTypeOK'
  BY <1>1, RunOnTailType DEF TypeOK, Flush
<1> QED
  BY <1>1, <1>2, OutcomeFrame, BaselineFrame, FlushFrame, FileFrame, SpendType, HistoryFrame
  DEF TypeOK, Flush, historyVars

LEMMA TimerFiresType ==
  ASSUME TypeOK, NEW s \in SnapIds, TimerFires(s)
  PROVE  TypeOK'
<1>1. Grows /\ IntakeTypeOK'
  BY IntakeFrame DEF TypeOK, TimerFires
<1>2. snapshots[s].key \in Keys
  BY SnapshotTyped DEF TypeOK, IntakeTypeOK, TimerFires
<1>3. DrainTypeOK'
  BY <1>1, <1>2, RunOnTailType DEF TypeOK, TimerFires
<1> QED
  BY <1>1, <1>3, OutcomeFrame, BaselineFrame, FlushFrame, FileFrame, BudgetFrame, HistoryFrame
  DEF TypeOK, TimerFires, historyVars

LEMMA StopPendingWritesType ==
  ASSUME IntakeTypeOK, Grows, OutcomeTypeOK, NEW k \in Keys,
         NEW intent \in {"delete", "supersede"}, NEW answer \in Answers,
         StopPendingWrites(k, intent, answer)
  PROVE  /\ cancelledThrough' \in [Keys -> [delete : Nat, supersede : Nat]]
         /\ waiters' \in [Keys -> SUBSET SnapsSoFar']
         /\ receipts' \in [SnapIds -> {"none", "waiting"} \cup Answers]
<1>1. Max({cancelledThrough[k][intent], generations[k]}) \in Nat
  BY MaxOfTwo DEF IntakeTypeOK
<1>2. cancelledThrough' \in [Keys -> [delete : Nat, supersede : Nat]]
  BY <1>1 DEF StopPendingWrites, IntakeTypeOK
<1>3. Settle(k, waiters[k], answer)
  BY DEF StopPendingWrites
<1> QED
  BY <1>2, <1>3, SettleType

LEMMA AbsorbExternalType ==
  ASSUME TypeOK, NEW k \in Keys, NEW seen \in Metadata, NEW header \in Metadata,
         AbsorbExternal(k, seen, header)
  PROVE  TypeOK'
<1>1. NewSnap \in SnapIds /\ Len(snapshots) < MaxHeap /\ Len(snapshots) \in Nat
  BY BoundsAreNat, LenProperties
  DEF TypeOK, IntakeTypeOK, AbsorbExternal, Room, NewSnap, SnapIds
<1>2. Grows /\ NewSnap \in SnapsSoFar' /\ Len(snapshots') = NewSnap /\ NewSnap <= MaxHeap
  BY <1>1, SnapshotAppended DEF TypeOK, AbsorbExternal
<1>3. /\ cancelledThrough' \in [Keys -> [delete : Nat, supersede : Nat]]
      /\ waiters' \in [Keys -> SUBSET SnapsSoFar']
      /\ receipts' \in [SnapIds -> {"none", "waiting"} \cup Answers]
  BY <1>2, StopPendingWritesType DEF TypeOK, AbsorbExternal, Answers
<1>4. queued' \in [Keys -> Seq(SnapsSoFar')]
  <2>1. <<NewSnap>> \in Seq(SnapsSoFar')
    BY <1>2
  <2> QED
    BY <1>2, <2>1, QueueTyped DEF TypeOK, AbsorbExternal
<1>5. IntakeTypeOK'
  <2>1. armed' \subseteq SnapsSoFar'
    BY <1>2, SnapsGrow DEF TypeOK, IntakeTypeOK, AbsorbExternal
  <2>2. /\ generations' \in [Keys -> Nat]
        /\ lastEnqueuedMetadata' \in [Keys -> Metadata \cup {None}]
    BY DEF TypeOK, IntakeTypeOK, AbsorbExternal
  <2> QED
    BY <1>2, <1>3, <1>4, <2>1, <2>2 DEF IntakeTypeOK, Grows
<1>6. OutcomeTypeOK'
  BY <1>2, <1>3, SnapsGrow DEF TypeOK, OutcomeTypeOK, AbsorbExternal, outcomeVars, Answers
<1>7. BaselineTypeOK'
  BY <1>1 DEF TypeOK, BaselineTypeOK, IntakeTypeOK, AbsorbExternal
<1>8. HistoryTypeOK'
  BY <1>1, <1>2, SnapsGrow DEF TypeOK, HistoryTypeOK, AbsorbExternal
<1> QED
  BY <1>2, <1>5, <1>6, <1>7, <1>8, DrainFrame, FlushFrame, FileFrame, SpendType
  DEF TypeOK, AbsorbExternal

LEMMA RetireType ==
  ASSUME IntakeTypeOK, OutcomeTypeOK, NEW k \in Keys, Retire(k)
  PROVE  /\ generations' \in [Keys -> Nat] /\ writtenGeneration' \in [Keys -> Nat]
         /\ cancelledThrough' \in [Keys -> [delete : Nat, supersede : Nat]]
         /\ lastWriteFailure' \subseteq Keys
         /\ lastEnqueuedMetadata' \in [Keys -> Metadata \cup {None}]
  BY DEF Retire, IntakeTypeOK, OutcomeTypeOK

LEMMA DeleteSessionType ==
  ASSUME TypeOK, NEW k \in Keys, DeleteSession(k)
  PROVE  TypeOK'
<1>1. Grows /\ UNCHANGED snapshots
  BY IntakeSame DEF TypeOK, DeleteSession
<1>2. /\ waiters' \in [Keys -> SUBSET SnapsSoFar']
      /\ receipts' \in [SnapIds -> {"none", "waiting"} \cup Answers]
      /\ cancelledThrough' \in [Keys -> [delete : Nat, supersede : Nat]]
      /\ generations' \in [Keys -> Nat] /\ writtenGeneration' \in [Keys -> Nat]
      /\ lastWriteFailure' \subseteq Keys
      /\ lastEnqueuedMetadata' \in [Keys -> Metadata \cup {None}]
  <2>1. CASE tails[k] = NoDrain
    BY <1>1, <2>1, SettleType, RetireType DEF TypeOK, DeleteSession, Answers
  <2>2. CASE tails[k] # NoDrain
    BY <1>1, <2>2, StopPendingWritesType
    DEF TypeOK, DeleteSession, Answers, IntakeTypeOK, OutcomeTypeOK
  <2> QED
    BY <2>1, <2>2
<1>3. queued' \in [Keys -> Seq(SnapsSoFar')] /\ armed' \subseteq SnapsSoFar'
  <2>1. <<>> \in Seq(SnapsSoFar')
    BY EmptySeq
  <2> QED
    BY <1>1, <2>1, QueueTyped DEF TypeOK, DeleteSession, ClearTimers, IntakeTypeOK, SnapsSoFar
<1>4. IntakeTypeOK'
  BY <1>1, <1>2, <1>3 DEF TypeOK, IntakeTypeOK
<1>5. OutcomeTypeOK'
  BY <1>1, <1>2 DEF TypeOK, OutcomeTypeOK, DeleteSession, Answers, SnapsSoFar
<1>6. BaselineTypeOK'
  BY DEF TypeOK, BaselineTypeOK, DeleteSession
<1>7. FileTypeOK' /\ BudgetTypeOK'
  <2>1. BudgetTypeOK'
    <3>1. CASE Spend("deletes")
      BY <3>1, SpendType DEF TypeOK
    <3>2. CASE /\ budget.failures > 0 /\ budget.deletes > 0
               /\ budget' = [budget EXCEPT !.failures = @ - 1, !.deletes = @ - 1]
      <4>1. budget.failures - 1 \in 0 .. MaxFailures /\ budget.deletes - 1 \in 0 .. MaxDeletes
        BY <3>2, QueueAssumption DEF TypeOK, BudgetTypeOK
      <4> QED
        BY <3>2, <4>1 DEF TypeOK, BudgetTypeOK
    <3> QED
      BY <3>1, <3>2 DEF DeleteSession, RemoveDirectory
  <2>2. FileTypeOK'
    BY DEF TypeOK, FileTypeOK, DeleteSession, RemoveDirectory, fileVars
  <2> QED
    BY <2>1, <2>2
<1>8. HistoryTypeOK'
  BY <1>1, SnapsGrow DEF TypeOK, HistoryTypeOK, DeleteSession
<1> QED
  BY <1>1, <1>4, <1>5, <1>6, <1>7, <1>8, DrainFrame, FlushFrame DEF TypeOK, DeleteSession

----------------------------------------------------------------------------
(* Type correctness of a drain's steps, none of which adds a snapshot. *)

\* A drain in the middle of a write holds a snapshot and a header.
LEMMA WriteTyped ==
  ASSUME IntakeTypeOK, DrainTypeOK, NEW k \in Keys, NEW d \in Drains,
         drains[k][d].stage # "none"
  PROVE  /\ drains[k][d] \in DrainRecord /\ drains[k][d].snap \in SnapsSoFar
         /\ drains[k][d].header \in Metadata /\ Generation(drains[k][d].snap) \in Nat
<1>1. drains[k][d] \in DrainRecord /\ drains[k][d].snap # NoSnap /\ drains[k][d].header # None
  BY DEF DrainTypeOK
<1>2. drains[k][d].snap \in SnapsSoFar /\ drains[k][d].header \in Metadata
  BY <1>1 DEF DrainRecord
<1> QED
  BY <1>1, <1>2, SnapshotTyped

LEMMA SetDrainType ==
  ASSUME DrainTypeOK, NEW k \in Keys, NEW d \in Drains, NEW r \in DrainRecord,
         r.stage # "none" => r.snap # NoSnap /\ r.header # None,
         SetDrain(k, d, r), UNCHANGED <<tails, snapshots>>
  PROVE  DrainTypeOK'
<1>1. DrainRecord' = DrainRecord
  BY DEF DrainRecord, SnapsSoFar
<1>2. drains' \in [Keys -> [Drains -> DrainRecord]]
  BY DEF SetDrain, DrainTypeOK
<1>3. \A j \in Keys, e \in Drains :
        drains'[j][e] = IF j = k /\ e = d THEN r ELSE drains[j][e]
  BY DEF SetDrain, DrainTypeOK
<1>4. \A j \in Keys, e \in Drains : drains'[j][e].stage # "none" =>
        drains'[j][e].snap # NoSnap /\ drains'[j][e].header # None
  BY <1>3 DEF DrainTypeOK
<1> QED
  BY <1>1, <1>2, <1>4 DEF DrainTypeOK

LEMMA EndWriteType ==
  ASSUME IntakeTypeOK, OutcomeTypeOK, DrainTypeOK, NEW k \in Keys, NEW d \in Drains,
         NEW answer \in {"none"} \cup Answers, drains[k][d].stage # "none",
         EndWrite(k, d, answer), UNCHANGED <<tails, snapshots>>
  PROVE  /\ DrainTypeOK'
         /\ writtenGeneration' \in [Keys -> Nat]
         /\ waiters' \in [Keys -> SUBSET SnapsSoFar']
         /\ receipts' \in [SnapIds -> {"none", "waiting"} \cup Answers]
<1> DEFINE r == BackToLoop(drains[k][d])
<1>1. drains[k][d] \in DrainRecord /\ Generation(drains[k][d].snap) \in Nat
  BY WriteTyped
<1>2. r \in DrainRecord /\ r.stage = "none"
  BY <1>1 DEF BackToLoop, IdleDrain, DrainRecord, Stages
<1>3. SetDrain(k, d, r) /\ Settle(k, {drains[k][d].snap}, answer)
  BY DEF EndWrite
<1>4. DrainTypeOK'
  BY <1>2, <1>3, SetDrainType
<1>5. Max({writtenGeneration[k], Generation(drains[k][d].snap)}) \in Nat
  BY <1>1, MaxOfTwo DEF OutcomeTypeOK
<1>6. writtenGeneration' \in [Keys -> Nat]
  BY <1>5 DEF EndWrite, OutcomeTypeOK
<1> QED
  BY <1>3, <1>4, <1>6, IntakeSame, SettleType

\* The intake and the sequence of snapshots stay as they are.
LEMMA IntakeKept ==
  ASSUME IntakeTypeOK, UNCHANGED <<queueVars, cancelledThrough>>
  PROVE  Grows /\ IntakeTypeOK' /\ UNCHANGED snapshots /\ SnapsSoFar' = SnapsSoFar
<1>1. UNCHANGED <<snapshots, queued, armed, generations, lastEnqueuedMetadata, cancelledThrough>>
  BY DEF queueVars
<1> QED
  BY <1>1, IntakeFrame DEF SnapsSoFar

LEMMA AbandonType ==
  ASSUME IntakeTypeOK, DrainTypeOK, NEW k \in Keys, NEW d \in Drains,
         NEW committed \in BOOLEAN, drains[k][d].stage # "none",
         Abandon(k, d, committed), UNCHANGED <<tails, snapshots>>
  PROVE  DrainTypeOK'
<1> DEFINE w == drains[k][d]
           g == Generation(w.snap)
           r == [w EXCEPT !.stage = "abandoning", !.discard = committed /\ Discards(k, g),
                          !.reason = CancellationReason(k, g)]
<1>1. w \in DrainRecord /\ w.snap # NoSnap /\ w.header # None
  BY WriteTyped DEF DrainTypeOK
<1>2. CancellationReason(k, g) \in Reasons /\ (committed /\ Discards(k, g)) \in BOOLEAN
  BY DEF CancellationReason, Reasons, Discards
<1>3. r \in DrainRecord /\ r.snap # NoSnap /\ r.header # None
  <2> HIDE DEF g
  <2> QED
    BY <1>1, <1>2 DEF DrainRecord, Stages, Reasons
<1>4. SetDrain(k, d, r)
  BY DEF Abandon
<1> QED
  BY <1>3, <1>4, SetDrainType

\* The stage of a write moves on and nothing else of the drain changes.
LEMMA StageType ==
  ASSUME IntakeTypeOK, DrainTypeOK, NEW k \in Keys, NEW d \in Drains, NEW stage \in Stages,
         drains[k][d].stage # "none",
         SetDrain(k, d, [drains[k][d] EXCEPT !.stage = stage]), UNCHANGED <<tails, snapshots>>
  PROVE  DrainTypeOK'
<1> DEFINE r == [drains[k][d] EXCEPT !.stage = stage]
<1>1. drains[k][d] \in DrainRecord /\ drains[k][d].snap # NoSnap /\ drains[k][d].header # None
  BY WriteTyped DEF DrainTypeOK
<1>2. r \in DrainRecord /\ r.snap # NoSnap /\ r.header # None
  BY <1>1 DEF DrainRecord
<1> QED
  BY <1>2, SetDrainType

LEMMA TmpWrittenType ==
  ASSUME TypeOK, NEW k \in Keys, NEW d \in Drains, TmpWritten(k, d)
  PROVE  TypeOK'
<1>1. Grows /\ IntakeTypeOK' /\ UNCHANGED snapshots
  BY IntakeKept DEF TypeOK, TmpWritten
<1>2. drains[k][d].stage # "none"
  BY DEF TmpWritten, AtStage
<1>3. /\ snapshots[drains[k][d].snap].content \in 0 .. MaxHeap
      /\ drains[k][d].header \in Metadata
  BY <1>2, WriteTyped, SnapshotTyped, BoundsAreNat DEF TypeOK, SnapIds
<1>4. FileTypeOK'
  BY <1>3 DEF TypeOK, FileTypeOK, File, TmpWritten, historyVars
<1>5. DrainTypeOK'
  BY <1>1, <1>2, AbandonType, StageType DEF TypeOK, TmpWritten, Stages
<1> QED
  BY <1>1, <1>4, <1>5, OutcomeFrame, BaselineFrame, FlushFrame, BudgetFrame, HistoryFrame
  DEF TypeOK, TmpWritten, historyVars

LEMMA TargetUnlinkedType ==
  ASSUME TypeOK, NEW k \in Keys, NEW d \in Drains, TargetUnlinked(k, d)
  PROVE  TypeOK'
<1>1. Grows /\ IntakeTypeOK' /\ UNCHANGED snapshots
  BY IntakeKept DEF TypeOK, TargetUnlinked
<1>2. drains[k][d].stage # "none"
  BY DEF TargetUnlinked, AtStage
<1>3. FileTypeOK'
  BY DEF TypeOK, FileTypeOK, TargetUnlinked, historyVars
<1>4. DrainTypeOK'
  BY <1>1, <1>2, AbandonType, StageType DEF TypeOK, TargetUnlinked, Stages
<1>5. BudgetTypeOK'
  BY SpendType, BudgetFrame DEF TypeOK, TargetUnlinked
<1> QED
  BY <1>1, <1>3, <1>4, <1>5, OutcomeFrame, BaselineFrame, FlushFrame, HistoryFrame
  DEF TypeOK, TargetUnlinked, historyVars

LEMMA RenamedType ==
  ASSUME TypeOK, NEW k \in Keys, NEW d \in Drains, Renamed(k, d)
  PROVE  TypeOK'
<1>1. Grows /\ IntakeTypeOK' /\ UNCHANGED snapshots /\ SnapsSoFar' = SnapsSoFar
  BY IntakeKept DEF TypeOK, Renamed
<1>2. drains[k][d].stage # "none"
  BY DEF Renamed, AtStage
<1>3. FileTypeOK'
  BY DEF TypeOK, FileTypeOK, Renamed
<1>4. DrainTypeOK'
  BY <1>1, <1>2, StageType DEF TypeOK, Renamed, Stages
<1>5. HistoryTypeOK'
  BY <1>1, <1>2, WriteTyped DEF TypeOK, HistoryTypeOK, Renamed
<1> QED
  BY <1>1, <1>3, <1>4, <1>5, OutcomeFrame, BaselineFrame, FlushFrame, BudgetFrame
  DEF TypeOK, Renamed

LEMMA RenameReturnsType ==
  ASSUME TypeOK, NEW k \in Keys, NEW d \in Drains, RenameReturns(k, d)
  PROVE  TypeOK'
<1>1. Grows /\ IntakeTypeOK' /\ UNCHANGED snapshots /\ SnapsSoFar' = SnapsSoFar
  BY IntakeKept DEF TypeOK, RenameReturns
<1>2. drains[k][d].stage # "none" /\ drains[k][d].header \in Metadata
  BY WriteTyped DEF TypeOK, RenameReturns, AtStage
<1>3. CASE Abandons(k, Generation(drains[k][d].snap), "committed")
  <2>1. DrainTypeOK'
    BY <1>1, <1>2, <1>3, AbandonType DEF TypeOK, RenameReturns
  <2>2. BaselineTypeOK'
    BY <1>2, <1>3 DEF TypeOK, BaselineTypeOK, RenameReturns
  <2>3. OutcomeTypeOK'
    BY <1>1, <1>3, OutcomeFrame DEF TypeOK, RenameReturns
  <2> QED
    BY <1>1, <2>1, <2>2, <2>3, FlushFrame, FileFrame, BudgetFrame, HistoryFrame
    DEF TypeOK, RenameReturns, historyVars
<1>4. CASE ~Abandons(k, Generation(drains[k][d].snap), "committed")
  <2>1. Commit(k, d)
    BY <1>4 DEF RenameReturns
  <2>2. /\ DrainTypeOK' /\ writtenGeneration' \in [Keys -> Nat]
        /\ waiters' \in [Keys -> SUBSET SnapsSoFar']
        /\ receipts' \in [SnapIds -> {"none", "waiting"} \cup Answers]
    BY <1>1, <1>2, <2>1, EndWriteType DEF TypeOK, Commit, Answers, RenameReturns
  <2>3. OutcomeTypeOK'
    BY <1>1, <2>1, <2>2 DEF TypeOK, OutcomeTypeOK, Commit, Answers
  <2>4. BaselineTypeOK'
    BY <1>2, <2>1 DEF TypeOK, BaselineTypeOK, RenameReturns, Commit
  <2> QED
    BY <1>1, <2>2, <2>3, <2>4, FlushFrame, FileFrame, BudgetFrame, HistoryFrame
    DEF TypeOK, RenameReturns, historyVars
<1> QED
  BY <1>3, <1>4

LEMMA TmpDroppedType ==
  ASSUME TypeOK, NEW k \in Keys, NEW d \in Drains, TmpDropped(k, d)
  PROVE  TypeOK'
<1>1. Grows /\ IntakeTypeOK' /\ UNCHANGED snapshots /\ SnapsSoFar' = SnapsSoFar
  BY IntakeKept DEF TypeOK, TmpDropped
<1>2. drains[k][d].stage # "none"
  BY DEF TmpDropped, AtStage
<1>3. FileTypeOK'
  BY DEF TypeOK, FileTypeOK, TmpDropped, historyVars
<1>4. CASE drains[k][d].discard
  <2>1. DrainTypeOK'
    BY <1>1, <1>2, <1>4, StageType DEF TypeOK, TmpDropped, Stages
  <2>2. OutcomeTypeOK' /\ BaselineTypeOK'
    BY <1>1, <1>4, OutcomeFrame, BaselineFrame
    DEF TypeOK, TmpDropped, outcomeVars, baselineVars
  <2> QED
    BY <1>1, <1>3, <2>1, <2>2, FlushFrame, BudgetFrame, HistoryFrame
    DEF TypeOK, TmpDropped, historyVars
<1>5. CASE ~drains[k][d].discard
  <2>1. drains[k][d].reason \in {"none"} \cup Answers
    BY <1>2, WriteTyped DEF TypeOK, DrainRecord, Answers
  <2>2. /\ DrainTypeOK' /\ writtenGeneration' \in [Keys -> Nat]
        /\ waiters' \in [Keys -> SUBSET SnapsSoFar']
        /\ receipts' \in [SnapIds -> {"none", "waiting"} \cup Answers]
    BY <1>1, <1>2, <1>5, <2>1, EndWriteType DEF TypeOK, TmpDropped
  <2>3. OutcomeTypeOK'
    BY <1>1, <2>2 DEF TypeOK, OutcomeTypeOK, TmpDropped, Answers
  <2>4. BaselineTypeOK'
    BY <1>5 DEF TypeOK, BaselineTypeOK, TmpDropped
  <2> QED
    BY <1>1, <1>3, <2>2, <2>3, <2>4, FlushFrame, BudgetFrame, HistoryFrame
    DEF TypeOK, TmpDropped, historyVars
<1> QED
  BY <1>4, <1>5

LEMMA FileDiscardedType ==
  ASSUME TypeOK, NEW k \in Keys, NEW d \in Drains, FileDiscarded(k, d)
  PROVE  TypeOK'
<1>1. Grows /\ IntakeTypeOK' /\ UNCHANGED snapshots /\ SnapsSoFar' = SnapsSoFar
  BY IntakeKept DEF TypeOK, FileDiscarded
<1>2. drains[k][d].stage # "none" /\ drains[k][d].reason \in {"none"} \cup Answers
  BY WriteTyped DEF TypeOK, FileDiscarded, AtStage, DrainRecord, Answers
<1>3. /\ DrainTypeOK' /\ writtenGeneration' \in [Keys -> Nat]
      /\ waiters' \in [Keys -> SUBSET SnapsSoFar']
      /\ receipts' \in [SnapIds -> {"none", "waiting"} \cup Answers]
  BY <1>1, <1>2, EndWriteType DEF TypeOK, FileDiscarded
<1>4. OutcomeTypeOK'
  BY <1>1, <1>3 DEF TypeOK, OutcomeTypeOK, FileDiscarded, Answers
<1>5. BaselineTypeOK' /\ FileTypeOK'
  BY DEF TypeOK, BaselineTypeOK, FileTypeOK, FileDiscarded, historyVars
<1> QED
  BY <1>1, <1>3, <1>4, <1>5, FlushFrame, BudgetFrame, HistoryFrame
  DEF TypeOK, FileDiscarded, historyVars

LEMMA FailureTidiedType ==
  ASSUME TypeOK, NEW k \in Keys, NEW d \in Drains, FailureTidied(k, d)
  PROVE  TypeOK'
<1>1. Grows /\ IntakeTypeOK' /\ UNCHANGED snapshots /\ SnapsSoFar' = SnapsSoFar
  BY IntakeKept DEF TypeOK, FailureTidied
<1>2. drains[k][d].stage # "none" /\ drains[k][d].reason \in {"none"} \cup Answers
  BY WriteTyped DEF TypeOK, FailureTidied, AtStage, DrainRecord, Answers
<1>3. /\ DrainTypeOK' /\ writtenGeneration' \in [Keys -> Nat]
      /\ waiters' \in [Keys -> SUBSET SnapsSoFar']
      /\ receipts' \in [SnapIds -> {"none", "waiting"} \cup Answers]
  BY <1>1, <1>2, EndWriteType DEF TypeOK, FailureTidied
<1>4. OutcomeTypeOK'
  BY <1>1, <1>3 DEF TypeOK, OutcomeTypeOK, FailureTidied, Answers
<1>5. BaselineTypeOK' /\ FileTypeOK'
  BY DEF TypeOK, BaselineTypeOK, FileTypeOK, FailureTidied, historyVars
<1> QED
  BY <1>1, <1>3, <1>4, <1>5, FlushFrame, BudgetFrame, HistoryFrame
  DEF TypeOK, FailureTidied, historyVars

LEMMA WriteFailsType ==
  ASSUME TypeOK, NEW k \in Keys, NEW d \in Drains, WriteFails(k, d)
  PROVE  TypeOK'
<1>1. Grows /\ IntakeTypeOK' /\ UNCHANGED snapshots /\ SnapsSoFar' = SnapsSoFar
  BY IntakeKept DEF TypeOK, WriteFails
<1>2. drains[k][d].stage # "none"
  BY DEF WriteFails, AtStage
<1>3. BudgetTypeOK'
  BY SpendType, BudgetFrame DEF TypeOK, WriteFails
<1>4. DrainTypeOK' /\ OutcomeTypeOK' /\ BaselineTypeOK'
  <2>1. CASE Cancelled(k, Generation(drains[k][d].snap))
    <3> DEFINE r == [drains[k][d] EXCEPT !.stage = "tidying",
                        !.reason = CancellationReason(k, Generation(drains[k][d].snap))]
    <3>1. SetDrain(k, d, r) /\ UNCHANGED <<receiptVars, outcomeVars, inFlightSignature, tails>>
      BY <2>1 DEF WriteFails
    <3>2. /\ drains[k][d] \in DrainRecord
          /\ drains[k][d].snap # NoSnap /\ drains[k][d].header # None
      BY <1>2, WriteTyped DEF TypeOK, DrainTypeOK
    <3>3. CancellationReason(k, Generation(drains[k][d].snap)) \in Reasons
      BY DEF CancellationReason, Reasons
    <3>4. r \in DrainRecord /\ r.snap # NoSnap /\ r.header # None
      BY <3>2, <3>3 DEF DrainRecord, Stages, Reasons
    <3> QED
      BY <1>1, <3>1, <3>4, SetDrainType, OutcomeFrame, BaselineFrame
      DEF TypeOK, WriteFails, baselineVars
  <2>2. CASE ~Cancelled(k, Generation(drains[k][d].snap))
    <3>1. RetainFailure(k, d) /\ UNCHANGED tails
      BY <2>2 DEF WriteFails
    <3>2. /\ DrainTypeOK' /\ writtenGeneration' \in [Keys -> Nat]
          /\ waiters' \in [Keys -> SUBSET SnapsSoFar']
          /\ receipts' \in [SnapIds -> {"none", "waiting"} \cup Answers]
      BY <1>1, <1>2, <3>1, EndWriteType DEF TypeOK, RetainFailure, Answers
    <3>3. OutcomeTypeOK'
      BY <1>1, <1>2, <3>1, <3>2, WriteTyped DEF TypeOK, OutcomeTypeOK, RetainFailure, Answers
    <3>4. BaselineTypeOK'
      BY <3>1 DEF TypeOK, BaselineTypeOK, WriteFails, RetainFailure
    <3> QED
      BY <3>2, <3>3, <3>4
  <2> QED
    BY <2>1, <2>2
<1> QED
  BY <1>1, <1>3, <1>4, FlushFrame, FileFrame, HistoryFrame DEF TypeOK, WriteFails, historyVars

LEMMA WriteBeginsType ==
  ASSUME TypeOK, NEW k \in Keys, NEW d \in Drains, WriteBegins(k, d)
  PROVE  TypeOK'
<1> DEFINE s == Head(queued[k])
           w == drains[k][d]
<1>1. Grows /\ UNCHANGED snapshots /\ SnapsSoFar' = SnapsSoFar
  BY IntakeSame DEF TypeOK, WriteBegins, SnapsSoFar
<1>2. queued[k] \in Seq(SnapsSoFar) /\ queued[k] # <<>>
  BY DEF TypeOK, IntakeTypeOK, WriteBegins
<1>3. s \in SnapsSoFar /\ Tail(queued[k]) \in Seq(SnapsSoFar)
  BY <1>2, HeadTailProperties
<1>4. snapshots[s].header \in Metadata /\ Generation(s) \in Nat
  BY <1>3, SnapshotTyped DEF TypeOK
<1>5. IntakeTypeOK'
  BY <1>1, <1>3 DEF TypeOK, IntakeTypeOK, WriteBegins
<1>6. w \in DrainRecord /\ (w.state = "waiting" \/ w.state = "running")
  BY DEF TypeOK, DrainTypeOK, WriteBegins, AtLoop, AtStage
<1>7. WritesLeft(k, d) - 1 \in Nat
  <2>1. WritesLeft(k, d) \in Nat
    BY <1>2, <1>6, LenProperties DEF WritesLeft, DrainRecord
  <2> QED
    BY <2>1 DEF WriteBegins
<1>8. CASE Cancelled(k, Generation(s))
  <2> DEFINE r == [w EXCEPT !.state = "running", !.remaining = WritesLeft(k, d) - 1]
  <2>1. SkipWrite(k, d, s)
    BY <1>8 DEF WriteBegins
  <2>2. w.stage # "none" => w.snap # NoSnap /\ w.header # None
    BY DEF TypeOK, DrainTypeOK
  <2>3. r \in DrainRecord /\ (r.stage # "none" => r.snap # NoSnap /\ r.header # None)
    <3> HIDE DEF w
    <3> QED
      BY <1>6, <1>7, <2>2 DEF DrainRecord
  <2>4. DrainTypeOK'
    BY <1>1, <2>1, <2>3, SetDrainType DEF TypeOK, SkipWrite, WriteBegins
  <2>5. CancellationReason(k, Generation(s)) \in Answers
    BY DEF CancellationReason, Answers
  <2>6. /\ waiters' \in [Keys -> SUBSET SnapsSoFar']
        /\ receipts' \in [SnapIds -> {"none", "waiting"} \cup Answers]
    BY <1>1, <2>1, <2>5, SettleType DEF TypeOK, SkipWrite
  <2>7. Max({writtenGeneration[k], Generation(s)}) \in Nat
    BY <1>4, MaxOfTwo DEF TypeOK, OutcomeTypeOK
  <2>8. writtenGeneration' \in [Keys -> Nat]
    BY <2>1, <2>7 DEF TypeOK, OutcomeTypeOK, SkipWrite
  <2>9. OutcomeTypeOK'
    BY <1>1, <2>6, <2>8 DEF TypeOK, OutcomeTypeOK, WriteBegins, Answers
  <2> QED
    BY <1>1, <1>5, <2>1, <2>4, <2>9, BaselineFrame, FlushFrame, FileFrame, BudgetFrame,
       HistoryFrame
    DEF TypeOK, WriteBegins, SkipWrite, baselineVars, fileVars, historyVars
<1>9. CASE ~Cancelled(k, Generation(s))
  <2>1. StartWrite(k, d, s)
    BY <1>9 DEF WriteBegins
  <2> DEFINE onDisk == IF disk[k] # None /\ committedMetadata[k] # None
                          /\ disk[k].header # committedMetadata[k]
                       THEN disk[k].header ELSE None
             seen == pendingExternalMetadata[k]
             header == Resolve(snapshots[s].header, onDisk, seen, committedMetadata[k])
             r == [w EXCEPT !.state = "running", !.stage = "writing",
                     !.remaining = WritesLeft(k, d) - 1, !.snap = s, !.header = header,
                     !.observed = IF seen = None THEN 0 ELSE seen.seq]
  <2>2. onDisk \in Metadata \cup {None}
    BY DEF TypeOK, FileTypeOK, File
  <2>3. seen \in [seq : SnapIds, external : Metadata, localAt : Metadata \cup {None}]
                   \cup {None}
    BY DEF TypeOK, BaselineTypeOK
  <2>4. header \in Metadata /\ header # None
    <3>1. header \in Metadata
      BY <1>4, <2>2, <2>3, ResolveIsMetadata
    <3> QED
      BY <3>1, QueueAssumption
  <2>5. (IF seen = None THEN 0 ELSE seen.seq) \in SnapIds \cup {0}
    BY <2>3
  <2>6. s # NoSnap
    BY <1>3 DEF SnapsSoFar, NoSnap
  <2>7. r \in DrainRecord /\ r.snap # NoSnap /\ r.header # None
    <3> HIDE DEF w, header, seen, s
    <3>1. w \in DrainRecord /\ s \in {NoSnap} \cup SnapsSoFar
      BY ONLY <1>3, <1>6
    <3> DEFINE left == WritesLeft(k, d) - 1
               seq == IF seen = None THEN 0 ELSE seen.seq
    <3>2. left \in Nat /\ seq \in SnapIds \cup {0} /\ header \in Metadata
      BY ONLY <1>7, <2>4, <2>5
    <3>3. r = [w EXCEPT !.state = "running", !.stage = "writing", !.remaining = left,
                 !.snap = s, !.header = header, !.observed = seq]
      OBVIOUS
    <3> HIDE DEF left, seq, r
    <3>4. r \in DrainRecord /\ r.snap = s /\ r.header = header
      <4>1. "running" \in {"idle", "waiting", "running"} /\ "writing" \in Stages
        BY ONLY DEF Stages
      <4>2. header \in Metadata \cup {None}
        BY ONLY <3>2
      <4> QED
        BY ONLY <3>1, <3>2, <3>3, <4>1, <4>2 DEF DrainRecord
    <3> QED
      BY ONLY <2>4, <2>6, <3>4
  <2>8. SetDrain(k, d, r) /\ UNCHANGED <<writtenGeneration, receiptVars>>
        /\ inFlightSignature' = [inFlightSignature EXCEPT ![k] = header]
        /\ dir' = [dir EXCEPT ![k] = TRUE]
    BY <2>1 DEF StartWrite
  <2>9. DrainTypeOK'
    BY <1>1, <2>7, <2>8, SetDrainType DEF TypeOK, WriteBegins
  <2>10. BaselineTypeOK' /\ FileTypeOK'
    <3> HIDE DEF header
    <3> QED
      BY <2>4, <2>8 DEF TypeOK, BaselineTypeOK, FileTypeOK, WriteBegins, historyVars
  <2>11. OutcomeTypeOK'
    BY <1>1, <2>8, OutcomeFrame DEF TypeOK, WriteBegins, outcomeVars
  <2> QED
    BY <1>1, <1>5, <2>9, <2>10, <2>11, FlushFrame, BudgetFrame, HistoryFrame
    DEF TypeOK, WriteBegins, historyVars
<1> QED
  BY <1>8, <1>9

LEMMA DrainEndsType ==
  ASSUME TypeOK, NEW k \in Keys, NEW d \in Drains, DrainEnds(k, d)
  PROVE  TypeOK'
<1>1. Grows /\ UNCHANGED snapshots /\ SnapsSoFar' = SnapsSoFar
  BY IntakeSame DEF TypeOK, DrainEnds, SnapsSoFar
<1>2. /\ generations' \in [Keys -> Nat] /\ writtenGeneration' \in [Keys -> Nat]
      /\ cancelledThrough' \in [Keys -> [delete : Nat, supersede : Nat]]
      /\ lastWriteFailure' \subseteq Keys
      /\ lastEnqueuedMetadata' \in [Keys -> Metadata \cup {None}]
  BY RetireType DEF TypeOK, IntakeTypeOK, OutcomeTypeOK, DrainEnds
<1>3. IntakeTypeOK'
  BY <1>1, <1>2 DEF TypeOK, IntakeTypeOK, DrainEnds
<1>4. OutcomeTypeOK'
  BY <1>1, <1>2 DEF TypeOK, OutcomeTypeOK, DrainEnds, receiptVars
<1>5. DrainTypeOK'
  <2>1. drains' = [drains EXCEPT ![k] =
          [e \in Drains |-> IF e = d THEN IdleDrain
                            ELSE IF @[e].after = d THEN [@[e] EXCEPT !.after = NoDrain]
                            ELSE @[e]]]
    BY DEF DrainEnds, ReleaseSuccessor
  <2>2. IdleDrain \in DrainRecord /\ IdleDrain.stage = "none"
    BY DEF IdleDrain, DrainRecord, Stages
  <2>3. \A e \in Drains : /\ drains[k][e] \in DrainRecord
                          /\ [drains[k][e] EXCEPT !.after = NoDrain] \in DrainRecord
    <3>1. \A r \in DrainRecord : [r EXCEPT !.after = NoDrain] \in DrainRecord
      BY DEF DrainRecord
    <3>2. \A e \in Drains : drains[k][e] \in DrainRecord
      BY DEF TypeOK, DrainTypeOK
    <3> QED
      BY <3>1, <3>2
  <2>4. drains' \in [Keys -> [Drains -> DrainRecord]]
    BY <2>1, <2>2, <2>3 DEF TypeOK, DrainTypeOK
  <2>5. \A j \in Keys, e \in Drains :
          \/ drains'[j][e] = drains[j][e]
          \/ drains'[j][e] = IdleDrain
          \/ drains'[j][e] = [drains[j][e] EXCEPT !.after = NoDrain]
    BY <2>1 DEF TypeOK, DrainTypeOK
  <2>6. \A j \in Keys, e \in Drains : drains'[j][e].stage # "none" =>
          drains'[j][e].snap # NoSnap /\ drains'[j][e].header # None
    <3>1. \A r \in DrainRecord :
            LET q == [r EXCEPT !.after = NoDrain]
            IN  q.stage = r.stage /\ q.snap = r.snap /\ q.header = r.header
      BY DEF DrainRecord
    <3>2. \A j \in Keys, e \in Drains :
            /\ drains[j][e] \in DrainRecord
            /\ drains[j][e].stage # "none" =>
                 drains[j][e].snap # NoSnap /\ drains[j][e].header # None
      BY DEF TypeOK, DrainTypeOK
    <3> SUFFICES ASSUME NEW j \in Keys, NEW e \in Drains, drains'[j][e].stage # "none"
                 PROVE  drains'[j][e].snap # NoSnap /\ drains'[j][e].header # None
      OBVIOUS
    <3>3. CASE drains'[j][e] = drains[j][e]
      BY <3>2, <3>3
    <3>4. CASE drains'[j][e] = IdleDrain
      BY <2>2, <3>4
    <3>5. CASE drains'[j][e] = [drains[j][e] EXCEPT !.after = NoDrain]
      BY <3>1, <3>2, <3>5
    <3> QED
      BY <2>5, <3>3, <3>4, <3>5
  <2>7. tails' \in [Keys -> Drains \cup {NoDrain}]
    BY DEF TypeOK, DrainTypeOK, DrainEnds
  <2> QED
    BY <1>1, <2>4, <2>6, <2>7 DEF DrainTypeOK, DrainRecord
<1>6. FlushTypeOK'
  BY <1>1 DEF TypeOK, FlushTypeOK, DrainEnds
<1> QED
  BY <1>1, <1>3, <1>4, <1>5, <1>6, BaselineFrame, FileFrame, BudgetFrame, HistoryFrame
  DEF TypeOK, DrainEnds, historyVars

LEMMA DrainStepType ==
  ASSUME TypeOK, NEW k \in Keys, NEW d \in Drains, DrainStep(k, d)
  PROVE  TypeOK'
  BY WriteBeginsType, DrainEndsType, TmpWrittenType, TargetUnlinkedType, RenamedType,
     RenameReturnsType, TmpDroppedType, FileDiscardedType, WriteFailsType, FailureTidiedType
  DEF DrainStep

----------------------------------------------------------------------------
(* Type correctness of the shutdown, of a crash, and of the queue. *)

LEMMA FlushAllType ==
  ASSUME TypeOK, FlushAll
  PROVE  TypeOK'
<1>1. Grows /\ IntakeTypeOK' /\ UNCHANGED snapshots /\ SnapsSoFar' = SnapsSoFar
  BY IntakeKept DEF TypeOK, FlushAll
<1>2. FlushTypeOK'
  BY <1>1 DEF TypeOK, FlushTypeOK, FlushAll
<1> QED
  BY <1>1, <1>2, OutcomeFrame, BaselineFrame, DrainFrame, FileFrame, BudgetFrame, HistoryFrame
  DEF TypeOK, FlushAll, historyVars

LEMMA FlushRoundType ==
  ASSUME TypeOK, FlushRound
  PROVE  TypeOK'
<1>1. Grows /\ IntakeTypeOK' /\ SnapsSoFar' = SnapsSoFar
  BY IntakeFrame DEF TypeOK, FlushRound, ClearTimers, SnapsSoFar
<1>2. Busy \in SUBSET Keys
  BY DEF Busy
<1>3. DrainTypeOK'
  BY <1>1, <1>2, RunOnTailType DEF TypeOK, FlushRound
<1>4. {<<k, NewDrain(k)>> : k \in Busy} \in SUBSET (Keys \X Drains)
  BY <1>2, NewDrainIsFree DEF FlushRound, RunOnTail
<1>5. flush.round + 1 \in 0 .. FlushAllMaxRounds
  BY QueueAssumption DEF TypeOK, FlushTypeOK, FlushRound
<1>6. FlushTypeOK'
  BY <1>1, <1>4, <1>5 DEF TypeOK, FlushTypeOK, FlushRound
<1> QED
  BY <1>1, <1>3, <1>6, OutcomeFrame, BaselineFrame, FileFrame, BudgetFrame, HistoryFrame
  DEF TypeOK, FlushRound, historyVars

LEMMA RetryType ==
  ASSUME TypeOK, NEW failures \in SUBSET (Keys \X SnapsSoFar), NEW quiescent \in BOOLEAN,
         Retry(failures, quiescent),
         UNCHANGED <<outcomeVars, baselineVars, cancelledThrough, closing, fileVars, budget,
                     historyVars>>
  PROVE  TypeOK'
<1>1. PICK failure \in failures :
        /\ EnqueueAndDrive(failure[1], snapshots[failure[2]].header,
                           snapshots[failure[2]].content)
        /\ flush' = [flush EXCEPT !.pc = "retrying", !.quiescent = quiescent,
                        !.retries = failures \ {failure}, !.retrying = NewSnap]
  BY DEF Retry
<1>2. failure[1] \in Keys /\ failure[2] \in SnapsSoFar
  BY <1>1
<1>3. snapshots[failure[2]].header \in Metadata /\ snapshots[failure[2]].content \in SnapIds
  BY <1>2, SnapshotTyped DEF TypeOK
<1>4. Grows /\ NewSnap \in SnapsSoFar' /\ IntakeTypeOK' /\ OutcomeTypeOK' /\ DrainTypeOK'
  BY <1>1, <1>2, <1>3, EnqueueAndDriveType DEF TypeOK
<1>5. failures \ {failure} \in SUBSET (Keys \X SnapsSoFar')
  BY <1>4, SnapsGrow DEF TypeOK
<1>6. FlushTypeOK'
  BY <1>1, <1>4, <1>5 DEF TypeOK, FlushTypeOK
<1> QED
  BY <1>4, <1>6, BaselineFrame, FileFrame, BudgetFrame, HistoryFrame DEF TypeOK, historyVars

LEMMA FlushDrainedType ==
  ASSUME TypeOK, FlushDrained
  PROVE  TypeOK'
<1> DEFINE quiescent == Busy = {} /\ flush.round < FlushAllMaxRounds
<1>1. Retained \in SUBSET (Keys \X SnapsSoFar)
  BY DEF TypeOK, OutcomeTypeOK, Retained
<1>2. CASE Retry(Retained, quiescent)
  BY <1>1, <1>2, RetryType DEF FlushDrained
<1>3. CASE flush' = [flush EXCEPT !.pc = "retrying", !.quiescent = quiescent]
           /\ UNCHANGED <<queueVars, receiptVars, tails, drains>>
  <2>1. Grows /\ IntakeTypeOK' /\ SnapsSoFar' = SnapsSoFar
    BY <1>3, IntakeKept DEF TypeOK, FlushDrained
  <2>2. FlushTypeOK'
    BY <1>3, <2>1 DEF TypeOK, FlushTypeOK, FlushDrained
  <2> QED
    BY <1>3, <2>1, <2>2, OutcomeFrame, BaselineFrame, DrainFrame, FileFrame, BudgetFrame,
       HistoryFrame
    DEF TypeOK, FlushDrained, historyVars
<1> QED
  BY <1>2, <1>3 DEF FlushDrained

LEMMA FlushEndsType ==
  ASSUME TypeOK, FlushEnds
  PROVE  TypeOK'
<1>1. Grows /\ IntakeTypeOK' /\ SnapsSoFar' = SnapsSoFar
  BY IntakeKept DEF TypeOK, FlushEnds
<1>2. FlushTypeOK'
  BY <1>1 DEF TypeOK, FlushTypeOK, FlushEnds
<1>3. OutcomeTypeOK'
  BY <1>1 DEF TypeOK, OutcomeTypeOK, FlushEnds, receiptVars
<1> QED
  BY <1>1, <1>2, <1>3, BaselineFrame, DrainFrame, FileFrame, BudgetFrame, HistoryFrame
  DEF TypeOK, FlushEnds, historyVars

LEMMA FlushStepType ==
  ASSUME TypeOK, FlushStep
  PROVE  TypeOK'
<1>1. CASE FlushRetries
  BY <1>1, RetryType DEF TypeOK, FlushTypeOK, FlushRetries
<1> QED
  BY <1>1, FlushRoundType, FlushDrainedType, FlushEndsType DEF FlushStep

LEMMA CrashType ==
  ASSUME TypeOK, CrashAndRestart
  PROVE  TypeOK'
<1>1. Grows /\ SnapsSoFar' = SnapsSoFar
  BY IntakeSame DEF TypeOK, CrashAndRestart, SnapsSoFar
<1>2. <<>> \in Seq(SnapsSoFar)
  BY EmptySeq
<1>3. IntakeTypeOK'
  BY <1>1, <1>2 DEF TypeOK, IntakeTypeOK, CrashAndRestart
<1>4. OutcomeTypeOK' /\ BaselineTypeOK'
  BY <1>1 DEF TypeOK, OutcomeTypeOK, BaselineTypeOK, CrashAndRestart
<1>5. DrainTypeOK'
  BY <1>1 DEF DrainTypeOK, CrashAndRestart, IdleDrain, DrainRecord, Stages
<1>6. FlushTypeOK'
  <2>1. 0 \in 0 .. FlushAllMaxRounds
    BY QueueAssumption
  <2> QED
    BY <2>1, <1>1 DEF TypeOK, FlushTypeOK, CrashAndRestart
<1>7. FileTypeOK' /\ BudgetTypeOK'
  BY SpendType DEF TypeOK, FileTypeOK, CrashAndRestart
<1>8. HistoryTypeOK'
  BY <1>1, SnapsGrow DEF TypeOK, HistoryTypeOK, CrashAndRestart
<1> QED
  BY <1>3, <1>4, <1>5, <1>6, <1>7, <1>8 DEF TypeOK

\* A queue that has just been made, whatever files it finds and whatever it is
\* taken to have written of them.
Started == \E files \in [Keys -> File \cup {None}], written \in [Keys -> Metadata \cup {None}] :
             InitWith(files, written)

LEMMA InitIsStarted == Init => Started
  BY DEF Init, Started

LEMMA InitType == Started => TypeOK
<1> SUFFICES ASSUME Started
             PROVE  TypeOK
  OBVIOUS
<1>0. PICK files \in [Keys -> File \cup {None}], written \in [Keys -> Metadata \cup {None}] :
              InitWith(files, written)
  BY DEF Started
<1>1. IntakeTypeOK
  BY <1>0, EmptySeq, BoundsAreNat DEF InitWith, IntakeTypeOK
<1>2. OutcomeTypeOK /\ BaselineTypeOK
  BY <1>0 DEF InitWith, OutcomeTypeOK, BaselineTypeOK
<1>3. DrainTypeOK
  BY <1>0 DEF InitWith, DrainTypeOK, DrainRecord, IdleDrain, Stages
<1>4. 0 \in 0 .. FlushAllMaxRounds
  BY QueueAssumption
<1>5. FlushTypeOK
  BY <1>0, <1>4 DEF InitWith, FlushTypeOK
<1>6. BudgetTypeOK
  BY <1>0, QueueAssumption DEF InitWith, BudgetTypeOK
<1>7. FileTypeOK /\ HistoryTypeOK
  BY <1>0 DEF InitWith, FileTypeOK, HistoryTypeOK
<1> QED
  BY <1>1, <1>2, <1>3, <1>5, <1>6, <1>7 DEF TypeOK

LEMMA NextType == TypeOK /\ [Next]_vars => TypeOK'
<1> SUFFICES ASSUME TypeOK, [Next]_vars
             PROVE  TypeOK'
  OBVIOUS
<1>1. CASE UNCHANGED vars
  <2>1. Grows /\ IntakeTypeOK'
    BY <1>1, IntakeKept DEF TypeOK, vars
  <2> QED
    BY <1>1, <2>1, OutcomeFrame, BaselineFrame, DrainFrame, FlushFrame, FileFrame, BudgetFrame,
       HistoryFrame
    DEF TypeOK, vars, historyVars
<1>2. CASE Next
  BY <1>2, EnqueueType, EnqueueCheckedType, FlushKeyType, TimerFiresType, AbsorbExternalType,
     DeleteSessionType, DrainStepType, FlushAllType, FlushStepType, CrashType
  DEF Next
<1> QED
  BY <1>1, <1>2

\* Every value the queue keeps is of its type, and a drain in the middle of a
\* write holds the snapshot it writes and the header it decided on.
THEOREM TypeCorrectness == Spec => []TypeOK
  BY InitIsStarted, InitType, NextType, PTL DEF Spec

----------------------------------------------------------------------------
(* The promise chain.  OneWriterPerKey is not inductive: that the tail is the *)
(* end of one chain, along which only the first drain may run, is what makes  *)
(* runOnTail append behind every drain there is.                              *)

IsChain(k, q) ==
  /\ q \in Seq(Drains)
  /\ \A d \in Drains : drains[k][d].state # "idle" <=> \E i \in 1 .. Len(q) : q[i] = d
  /\ \A i, j \in 1 .. Len(q) : q[i] = q[j] => i = j
  /\ \A i \in 1 .. Len(q) : drains[k][q[i]].after = IF i = 1 THEN NoDrain ELSE q[i - 1]
  /\ \A i \in 1 .. Len(q) : i > 1 => drains[k][q[i]].state = "waiting"
  /\ tails[k] = IF Len(q) = 0 THEN NoDrain ELSE q[Len(q)]

ChainInv == \A k \in Keys : \E q \in Seq(Drains) : IsChain(k, q)

LEMMA ChainFacts ==
  ASSUME NEW k \in Keys, NEW q, IsChain(k, q)
  PROVE  /\ Len(q) \in Nat /\ q \in Seq(Drains)
         /\ \A i \in 1 .. Len(q) : q[i] \in Drains /\ q[i] # NoDrain
<1>1. Len(q) \in Nat /\ q \in Seq(Drains)
  BY LenProperties DEF IsChain
<1>2. \A i \in 1 .. Len(q) : q[i] \in Drains
  BY <1>1, ElementOfSeq
<1> QED
  BY <1>1, <1>2 DEF Drains, NoDrain

\* Only the first drain of the chain can be at work.
LEMMA WorkingIsFirst ==
  ASSUME NEW k \in Keys, NEW q, IsChain(k, q), NEW d \in Drains,
         drains[k][d].state # "idle",
         drains[k][d].state = "running" \/ drains[k][d].after = NoDrain
  PROVE  Len(q) >= 1 /\ q[1] = d /\ drains[k][d].after = NoDrain
<1>1. PICK i \in 1 .. Len(q) : q[i] = d
  BY DEF IsChain
<1>2. Len(q) \in Nat /\ \A j \in 1 .. Len(q) : q[j] # NoDrain
  BY ChainFacts
<1>3. i = 1
  <2> SUFFICES ASSUME i > 1 PROVE FALSE
    BY <1>1, <1>2
  <2>1. drains[k][d].state = "waiting"
    BY <1>1 DEF IsChain
  <2>2. i - 1 \in 1 .. Len(q)
    BY <1>1, <1>2
  <2>3. drains[k][d].after = q[i - 1]
    BY <1>1, <1>2 DEF IsChain
  <2> QED
    BY <1>2, <2>1, <2>2, <2>3
<1> QED
  BY <1>1, <1>2, <1>3 DEF IsChain

LEMMA ChainGivesOneWriter ==
  ASSUME ChainInv
  PROVE  OneWriterPerKey
<1> SUFFICES ASSUME NEW k \in Keys, NEW d \in Running(k), NEW e \in Running(k)
             PROVE  d = e
  BY DEF OneWriterPerKey
<1>1. PICK q \in Seq(Drains) : IsChain(k, q)
  BY DEF ChainInv
<1>2. /\ d \in Drains /\ drains[k][d].state = "running"
      /\ e \in Drains /\ drains[k][e].state = "running"
  BY DEF Running
<1> QED
  BY <1>1, <1>2, WorkingIsFirst

LEMMA ChainFrame ==
  ASSUME NEW k \in Keys, NEW q, IsChain(k, q),
         drains'[k] = drains[k], tails'[k] = tails[k]
  PROVE  IsChain(k, q)'
  BY DEF IsChain

\* A drain at work stays at work in its place.
LEMMA ChainMove ==
  ASSUME DrainTypeOK, ChainInv, NEW k \in Keys, NEW d \in Drains, NEW r,
         drains[k][d].state # "idle",
         drains[k][d].state = "running" \/ drains[k][d].after = NoDrain,
         r.state = "running", r.after = drains[k][d].after,
         SetDrain(k, d, r), UNCHANGED tails
  PROVE  ChainInv'
<1>1. \A j \in Keys, e \in Drains :
        drains'[j][e] = IF j = k /\ e = d THEN r ELSE drains[j][e]
  BY DEF SetDrain, DrainTypeOK
<1>2. \A j \in Keys : j # k => drains'[j] = drains[j]
  BY DEF SetDrain, DrainTypeOK
<1> SUFFICES ASSUME NEW j \in Keys
             PROVE  \E q \in Seq(Drains) : IsChain(j, q)'
  BY DEF ChainInv
<1>3. PICK q \in Seq(Drains) : IsChain(j, q)
  BY DEF ChainInv
<1>4. CASE j # k
  BY <1>2, <1>3, <1>4, ChainFrame
<1>5. CASE j = k
  <2>1. Len(q) \in Nat /\ \A i \in 1 .. Len(q) : q[i] \in Drains
    BY <1>3, ChainFacts
  <2>2. q[1] = d /\ Len(q) >= 1
    BY <1>3, <1>5, WorkingIsFirst
  <2>3. \A i \in 1 .. Len(q) : i > 1 => q[i] # d
    BY <1>3, <2>1, <2>2 DEF IsChain
  <2>4. \A e \in Drains : drains'[k][e].state # "idle" <=> drains[k][e].state # "idle"
    BY <1>1
  <2>5. \A e \in Drains : drains'[k][e].after = drains[k][e].after
    BY <1>1
  <2>6. \A i \in 1 .. Len(q) : i > 1 => drains'[k][q[i]].state = "waiting"
    BY <1>1, <1>3, <1>5, <2>1, <2>3 DEF IsChain
  <2>7. IsChain(k, q)'
    BY <1>3, <1>5, <2>1, <2>4, <2>5, <2>6 DEF IsChain
  <2> QED
    BY <1>5, <2>7
<1> QED
  BY <1>4, <1>5

\* runOnTail appends.
LEMMA ChainAppend ==
  ASSUME DrainTypeOK, ChainInv, NEW S \in SUBSET Keys, RunOnTail(S)
  PROVE  ChainInv'
<1> SUFFICES ASSUME NEW k \in Keys
             PROVE  \E q \in Seq(Drains) : IsChain(k, q)'
  BY DEF ChainInv
<1>1. PICK q \in Seq(Drains) : IsChain(k, q)
  BY DEF ChainInv
<1>2. CASE k \notin S
  <2>1. drains'[k] = drains[k] /\ tails'[k] = tails[k]
    BY <1>2 DEF RunOnTail
  <2> QED
    BY <1>1, <2>1, ChainFrame
<1>3. CASE k \in S
  <2> DEFINE n == NewDrain(k)
  <2>1. n \in Drains /\ drains[k][n].state = "idle"
    BY <1>3, NewDrainIsFree DEF RunOnTail, Active
  <2>2. \A e \in Drains : drains'[k][e] = IF e = n THEN ChainedDrain(k) ELSE drains[k][e]
    BY <1>3, <2>1 DEF RunOnTail, DrainTypeOK
  <2>3. tails'[k] = n
    BY <1>3 DEF RunOnTail
  <2>4. ChainedDrain(k).state = "waiting" /\ ChainedDrain(k).after = tails[k]
    BY DEF ChainedDrain, IdleDrain
  <2>5. Len(q) \in Nat /\ \A i \in 1 .. Len(q) : q[i] \in Drains
    BY <1>1, ChainFacts
  <2>6. PICK p \in Seq(Drains) :
          /\ Len(p) = Len(q) + 1 /\ p[Len(p)] = n
          /\ \A i \in 1 .. Len(q) : i \in 1 .. Len(p) /\ i # Len(p) /\ p[i] = q[i]
          /\ \A i \in 1 .. Len(p) : i \in 1 .. Len(q) \/ i = Len(p)
          /\ Len(p) \in 1 .. Len(p)
    <3> DEFINE pp == Append(q, n)
    <3>1. pp \in Seq(Drains) /\ Len(pp) = Len(q) + 1 /\ pp[Len(q) + 1] = n
          /\ \A i \in 1 .. Len(q) : pp[i] = q[i]
      BY <2>1, AppendProperties
    <3> HIDE DEF n, pp
    <3> QED
      BY <2>5, <3>1
  <2>7. \A i \in 1 .. Len(q) : q[i] # n
    BY <1>1, <2>1, <2>5 DEF IsChain
  <2>8. ASSUME NEW e \in Drains
        PROVE  drains'[k][e].state # "idle" <=> \E i \in 1 .. Len(p) : p[i] = e
    <3>1. CASE e = n
      <4>1. drains'[k][e].state # "idle"
        BY <2>2, <2>4, <3>1
      <4>2. \E i \in 1 .. Len(p) : p[i] = e
        BY <2>6, <3>1
      <4> QED
        BY <4>1, <4>2
    <3>2. CASE e # n
      <4>1. drains[k][e].state # "idle" <=> \E i \in 1 .. Len(q) : q[i] = e
        BY <1>1 DEF IsChain
      <4>2. (\E i \in 1 .. Len(q) : q[i] = e) <=> (\E i \in 1 .. Len(p) : p[i] = e)
        <5> HIDE DEF n
        <5> QED
          BY <2>6, <3>2
      <4> QED
        BY <2>2, <3>2, <4>1, <4>2
    <3> QED
      BY <3>1, <3>2
  <2>9. \A i, j \in 1 .. Len(p) : p[i] = p[j] => i = j
    <3> SUFFICES ASSUME NEW i \in 1 .. Len(p), NEW j \in 1 .. Len(p), p[i] = p[j]
                 PROVE  i = j
      OBVIOUS
    <3>1. CASE i <= Len(q) /\ j <= Len(q)
      <4>1. i \in 1 .. Len(q) /\ j \in 1 .. Len(q) /\ q[i] = q[j]
        BY <2>5, <2>6, <3>1
      <4> QED
        BY <1>1, <4>1 DEF IsChain
    <3>2. CASE i = Len(q) + 1 \/ j = Len(q) + 1
      <4> HIDE DEF n
      <4> QED
        BY <2>5, <2>6, <2>7, <3>2
    <3> QED
      BY <2>5, <2>6, <3>1, <3>2
  <2>10. \A i \in 1 .. Len(p) : drains'[k][p[i]].after = IF i = 1 THEN NoDrain ELSE p[i - 1]
    <3>1. ASSUME NEW i \in 1 .. Len(q)
          PROVE  drains'[k][p[i]].after = IF i = 1 THEN NoDrain ELSE p[i - 1]
      <4>1. drains'[k][p[i]].after = drains[k][q[i]].after
        BY <2>2, <2>5, <2>6, <2>7
      <4>2. drains[k][q[i]].after = IF i = 1 THEN NoDrain ELSE q[i - 1]
        BY <1>1 DEF IsChain
      <4>3. i > 1 => p[i - 1] = q[i - 1]
        BY <2>5, <2>6
      <4> QED
        BY <2>5, <4>1, <4>2, <4>3
    <3>2. drains'[k][n].after = IF Len(p) = 1 THEN NoDrain ELSE p[Len(p) - 1]
      <4>1. tails[k] = IF Len(q) = 0 THEN NoDrain ELSE q[Len(q)]
        BY <1>1 DEF IsChain
      <4> QED
        BY <2>1, <2>2, <2>4, <2>5, <2>6, <4>1
    <3> HIDE DEF n
    <3> QED
      BY <2>6, <3>1, <3>2
  <2>11. \A i \in 1 .. Len(p) : i > 1 => drains'[k][p[i]].state = "waiting"
    <3>1. \A i \in 1 .. Len(q) : i > 1 => drains[k][q[i]].state = "waiting"
      BY <1>1 DEF IsChain
    <3> QED
      BY <2>1, <2>2, <2>4, <2>5, <2>6, <2>7, <3>1
  <2>12. tails'[k] = IF Len(p) = 0 THEN NoDrain ELSE p[Len(p)]
    BY <2>3, <2>5, <2>6
  <2>13. IsChain(k, p)'
    BY <2>6, <2>8, <2>9, <2>10, <2>11, <2>12 DEF IsChain
  <2> QED
    BY <2>6, <2>13
<1> QED
  BY <1>2, <1>3

\* A drain that ends leaves the chain at its head.
LEMMA ChainShift ==
  ASSUME DrainTypeOK, ChainInv, NEW k \in Keys, NEW d \in Drains, DrainEnds(k, d)
  PROVE  ChainInv'
<1>1. drains' = [drains EXCEPT ![k] =
        [e \in Drains |-> IF e = d THEN IdleDrain
                          ELSE IF @[e].after = d THEN [@[e] EXCEPT !.after = NoDrain]
                          ELSE @[e]]]
  BY DEF DrainEnds, ReleaseSuccessor
<1>2. tails' = [tails EXCEPT ![k] = IF @ = d THEN NoDrain ELSE @]
  BY DEF DrainEnds
<1>3. \/ drains[k][d].state = "running"
      \/ (drains[k][d].state = "waiting" /\ drains[k][d].after = NoDrain)
  BY DEF DrainEnds, AtLoop, AtStage
<1> SUFFICES ASSUME NEW j \in Keys
             PROVE  \E p \in Seq(Drains) : IsChain(j, p)'
  BY DEF ChainInv
<1>4. PICK q \in Seq(Drains) : IsChain(j, q)
  BY DEF ChainInv
<1>5. CASE j # k
  <2>1. drains'[j] = drains[j] /\ tails'[j] = tails[j]
    BY <1>1, <1>2, <1>5 DEF DrainTypeOK
  <2> QED
    BY <1>4, <2>1, ChainFrame
<1>6. CASE j = k
  <2>1. Len(q) \in Nat /\ \A i \in 1 .. Len(q) : q[i] \in Drains /\ q[i] # NoDrain
    BY <1>4, ChainFacts
  <2>2. Len(q) >= 1 /\ q[1] = d
    BY <1>3, <1>4, <1>6, WorkingIsFirst
  <2>3. \A i \in 1 .. Len(q) : i > 1 => q[i] # d
    BY <1>4, <2>1, <2>2 DEF IsChain
  <2>4. PICK p \in Seq(Drains) :
          /\ Len(p) = Len(q) - 1
          /\ \A i \in 1 .. Len(p) : i + 1 \in 1 .. Len(q) /\ p[i] = q[i + 1]
    <3> DEFINE rest == Tail(q)
    <3>1. q # <<>>
      BY <2>2
    <3>2. /\ rest \in Seq(Drains) /\ Len(rest) = Len(q) - 1
          /\ \A i \in 1 .. Len(rest) : rest[i] = q[i + 1]
      BY <3>1, HeadTailProperties
    <3> HIDE DEF rest
    <3>3. \A i \in 1 .. Len(rest) : i + 1 \in 1 .. Len(q)
      BY <2>1, <3>2
    <3> QED
      BY <3>2, <3>3
  <2>5. \A e \in Drains : drains'[k][e] = IF e = d THEN IdleDrain
                             ELSE IF drains[k][e].after = d
                                  THEN [drains[k][e] EXCEPT !.after = NoDrain]
                                  ELSE drains[k][e]
    BY <1>1 DEF DrainTypeOK
  <2>6. \A e \in Drains : e # d =>
          /\ drains'[k][e].state = drains[k][e].state
          /\ drains'[k][e].after = IF drains[k][e].after = d THEN NoDrain ELSE drains[k][e].after
    <3>1. \A r \in DrainRecord : LET s == [r EXCEPT !.after = NoDrain]
                                 IN  s.after = NoDrain /\ s.state = r.state
      BY DEF DrainRecord
    <3>2. \A e \in Drains : drains[k][e] \in DrainRecord
      BY DEF DrainTypeOK
    <3> SUFFICES ASSUME NEW e \in Drains, e # d
                 PROVE  /\ drains'[k][e].state = drains[k][e].state
                        /\ drains'[k][e].after = IF drains[k][e].after = d
                                                 THEN NoDrain ELSE drains[k][e].after
      OBVIOUS
    <3>3. CASE drains[k][e].after = d
      <4>1. drains'[k][e] = [drains[k][e] EXCEPT !.after = NoDrain]
        BY <2>5, <3>3
      <4> QED
        BY <3>1, <3>2, <3>3, <4>1
    <3>4. CASE drains[k][e].after # d
      <4>1. drains'[k][e] = drains[k][e]
        BY <2>5, <3>4
      <4> QED
        BY <3>4, <4>1
    <3> QED
      BY <3>3, <3>4
  <2>7. ASSUME NEW e \in Drains
        PROVE  drains'[k][e].state # "idle" <=> \E i \in 1 .. Len(p) : p[i] = e
    <3>1. CASE e = d
      <4>1. drains'[k][e].state = "idle"
        <5>1. drains'[k][d] = IdleDrain
          BY <2>5
        <5> QED
          BY <3>1, <5>1 DEF IdleDrain
      <4>2. \A i \in 1 .. Len(p) : p[i] # d
        BY <2>1, <2>3, <2>4
      <4> QED
        BY <3>1, <4>1, <4>2
    <3>2. CASE e # d
      <4>1. drains[k][e].state # "idle" <=> \E i \in 1 .. Len(q) : q[i] = e
        BY <1>4, <1>6 DEF IsChain
      <4>2. ASSUME NEW i \in 1 .. Len(q), q[i] = e
            PROVE  \E h \in 1 .. Len(p) : p[h] = e
        <5>1. i # 1
          BY <2>2, <3>2, <4>2
        <5>2. i - 1 \in 1 .. Len(p) /\ p[i - 1] = q[i]
          BY <2>1, <2>4, <5>1
        <5> QED
          BY <4>2, <5>2
      <4>3. (\E i \in 1 .. Len(p) : p[i] = e) => \E i \in 1 .. Len(q) : q[i] = e
        BY <2>4
      <4> QED
        BY <2>6, <3>2, <4>1, <4>2, <4>3
    <3> QED
      BY <3>1, <3>2
  <2>8. \A h, i \in 1 .. Len(p) : p[h] = p[i] => h = i
    <3> SUFFICES ASSUME NEW h \in 1 .. Len(p), NEW i \in 1 .. Len(p), p[h] = p[i]
                 PROVE  h = i
      OBVIOUS
    <3>1. h + 1 \in 1 .. Len(q) /\ i + 1 \in 1 .. Len(q) /\ q[h + 1] = q[i + 1]
      BY <2>4
    <3>2. h + 1 = i + 1
      BY <1>4, <3>1 DEF IsChain
    <3> QED
      BY <3>2
  <2>9. ASSUME NEW i \in 1 .. Len(p)
        PROVE  /\ drains'[k][p[i]].after = IF i = 1 THEN NoDrain ELSE p[i - 1]
               /\ drains'[k][p[i]].state = "waiting"
    <3>1. i + 1 \in 1 .. Len(q) /\ p[i] = q[i + 1] /\ i + 1 > 1 /\ i + 1 # 1
      BY <2>4
    <3>2. /\ drains[k][p[i]].after = q[i + 1 - 1]
          /\ drains[k][p[i]].state = "waiting"
      BY <1>4, <1>6, <3>1 DEF IsChain
    <3>3. p[i] \in Drains /\ p[i] # d /\ q[i + 1 - 1] = q[i] /\ i \in 1 .. Len(q)
      BY <2>1, <2>3, <2>4, <3>1
    <3>4. drains'[k][p[i]].state = "waiting"
      BY <2>6, <3>2, <3>3
    <3>5. CASE i = 1
      BY <2>2, <2>6, <3>2, <3>3, <3>5
    <3>6. CASE i # 1
      <4>1. i - 1 \in 1 .. Len(p) /\ i - 1 + 1 = i
        BY <2>1, <2>4, <3>6
      <4>2. p[i - 1] = q[i]
        BY <2>4, <4>1
      <4>3. q[i] # d
        BY <2>1, <2>3, <3>3, <3>6
      <4> QED
        BY <2>6, <3>2, <3>3, <3>4, <3>6, <4>2, <4>3
    <3> QED
      BY <3>4, <3>5, <3>6
  <2>10. tails'[k] = IF Len(p) = 0 THEN NoDrain ELSE p[Len(p)]
    <3>1. tails[k] = q[Len(q)]
      BY <1>4, <1>6, <2>1, <2>2 DEF IsChain
    <3>2. tails'[k] = IF tails[k] = d THEN NoDrain ELSE tails[k]
      BY <1>2 DEF DrainTypeOK
    <3>3. CASE Len(q) = 1
      BY <2>2, <2>4, <3>1, <3>2, <3>3
    <3>4. CASE Len(q) > 1
      <4>1. q[Len(q)] # d
        BY <2>1, <2>3, <3>4
      <4>2. Len(p) \in 1 .. Len(p) /\ Len(p) + 1 = Len(q)
        BY <2>1, <2>4, <3>4
      <4> QED
        BY <2>4, <3>1, <3>2, <4>1, <4>2
    <3>5. Len(q) = 1 \/ Len(q) > 1
      <4>1. Len(q) \in Nat /\ Len(q) >= 1
        BY <2>1, <2>2
      <4> QED
        BY <4>1
    <3> QED
      BY <3>3, <3>4, <3>5
  <2>11. IsChain(k, p)'
    BY <2>7, <2>8, <2>9, <2>10 DEF IsChain
  <2> QED
    BY <1>6, <2>11
<1> QED
  BY <1>5, <1>6

\* A step of a write leaves its drain running where it is.
LEMMA WriteKeepsPlace ==
  ASSUME TypeOK, ChainInv, NEW k \in Keys, NEW d \in Drains,
         DrainStep(k, d), ~DrainEnds(k, d)
  PROVE  ChainInv'
<1>1. /\ drains[k][d].state # "idle"
      /\ drains[k][d].state = "running" \/ drains[k][d].after = NoDrain
  BY DEF DrainStep, WriteBegins, TmpWritten, TargetUnlinked, Renamed, RenameReturns, TmpDropped,
         FileDiscarded, WriteFails, FailureTidied, AtLoop, AtStage
<1>2. drains[k][d].after = NoDrain
  BY <1>1, WorkingIsFirst DEF ChainInv
<1>3. drains[k][d] \in DrainRecord
  BY DEF TypeOK, DrainTypeOK
<1>4. ASSUME NEW r, r.state = "running", r.after = NoDrain, SetDrain(k, d, r), UNCHANGED tails
      PROVE  ChainInv'
  BY <1>1, <1>2, <1>4, ChainMove DEF TypeOK
<1>5. CASE WriteBegins(k, d)
  <2> DEFINE s == Head(queued[k])
  <2>1. CASE SkipWrite(k, d, s)
    <3> DEFINE r == [drains[k][d] EXCEPT !.state = "running", !.remaining = WritesLeft(k, d) - 1]
    <3>1. r.state = "running" /\ r.after = NoDrain
      BY <1>2, <1>3 DEF DrainRecord
    <3>2. SetDrain(k, d, r) /\ UNCHANGED tails
      BY <1>5, <2>1 DEF SkipWrite, WriteBegins
    <3> QED
      BY <1>4, <3>1, <3>2
  <2>2. CASE StartWrite(k, d, s)
    <3> DEFINE header == Resolve(snapshots[s].header,
                           IF disk[k] # None /\ committedMetadata[k] # None
                              /\ disk[k].header # committedMetadata[k]
                           THEN disk[k].header ELSE None,
                           pendingExternalMetadata[k], committedMetadata[k])
               seen == IF pendingExternalMetadata[k] = None THEN 0
                                                            ELSE pendingExternalMetadata[k].seq
               r == [drains[k][d] EXCEPT !.state = "running", !.stage = "writing",
                       !.remaining = WritesLeft(k, d) - 1, !.snap = s, !.header = header,
                       !.observed = seen]
    <3>1. r.state = "running" /\ r.after = NoDrain
      <4> HIDE DEF header, seen, s
      <4> QED
        BY <1>2, <1>3 DEF DrainRecord
    <3>2. SetDrain(k, d, r) /\ UNCHANGED tails
      BY <1>5, <2>2 DEF StartWrite, WriteBegins
    <3> HIDE DEF r
    <3> QED
      BY <1>4, <3>1, <3>2
  <2> QED
    BY <1>5, <2>1, <2>2 DEF WriteBegins
<1>6. ASSUME NEW committed \in BOOLEAN, Abandon(k, d, committed), UNCHANGED tails,
             drains[k][d].state = "running"
      PROVE  ChainInv'
  <2> DEFINE g == Generation(drains[k][d].snap)
             r == [drains[k][d] EXCEPT !.stage = "abandoning",
                     !.discard = committed /\ Discards(k, g), !.reason = CancellationReason(k, g)]
  <2>1. r.state = "running" /\ r.after = NoDrain
    <3> HIDE DEF g
    <3> QED
      BY <1>2, <1>3, <1>6 DEF DrainRecord
  <2>2. SetDrain(k, d, r)
    BY <1>6 DEF Abandon
  <2> QED
    BY <1>4, <1>6, <2>1, <2>2
<1>7. ASSUME NEW stage, SetDrain(k, d, [drains[k][d] EXCEPT !.stage = stage]), UNCHANGED tails,
             drains[k][d].state = "running"
      PROVE  ChainInv'
  <2> DEFINE r == [drains[k][d] EXCEPT !.stage = stage]
  <2>1. r.state = "running" /\ r.after = NoDrain
    BY <1>2, <1>3, <1>7 DEF DrainRecord
  <2> QED
    BY <1>4, <1>7, <2>1
<1>8. ASSUME NEW answer, EndWrite(k, d, answer), UNCHANGED tails
      PROVE  ChainInv'
  <2> DEFINE r == BackToLoop(drains[k][d])
  <2>1. r.state = "running" /\ r.after = NoDrain
    BY DEF BackToLoop, IdleDrain
  <2>2. SetDrain(k, d, r)
    BY <1>8 DEF EndWrite
  <2> QED
    BY <1>4, <1>8, <2>1, <2>2
<1>9. CASE TmpWritten(k, d)
  BY <1>6, <1>7, <1>9 DEF TmpWritten, AtStage
<1>10. CASE TargetUnlinked(k, d)
  BY <1>6, <1>7, <1>10 DEF TargetUnlinked, AtStage
<1>11. CASE Renamed(k, d)
  BY <1>7, <1>11 DEF Renamed, AtStage
<1>12. CASE RenameReturns(k, d)
  BY <1>6, <1>8, <1>12 DEF RenameReturns, Commit, AtStage
<1>13. CASE TmpDropped(k, d)
  BY <1>7, <1>8, <1>13 DEF TmpDropped, AtStage
<1>14. CASE FileDiscarded(k, d)
  BY <1>8, <1>14 DEF FileDiscarded
<1>15. CASE FailureTidied(k, d)
  BY <1>8, <1>15 DEF FailureTidied
<1>16. CASE WriteFails(k, d)
  <2>1. CASE RetainFailure(k, d)
    BY <1>8, <1>16, <2>1 DEF WriteFails, RetainFailure
  <2>2. CASE SetDrain(k, d, [drains[k][d] EXCEPT !.stage = "tidying",
                       !.reason = CancellationReason(k, Generation(drains[k][d].snap))])
    <3> DEFINE r == [drains[k][d] EXCEPT !.stage = "tidying",
                       !.reason = CancellationReason(k, Generation(drains[k][d].snap))]
    <3>1. r.state = "running" /\ r.after = NoDrain
      BY <1>2, <1>3, <1>16 DEF DrainRecord, WriteFails, AtStage
    <3> QED
      BY <1>4, <1>16, <2>2, <3>1 DEF WriteFails
  <2> QED
    BY <1>16, <2>1, <2>2 DEF WriteFails
<1> QED
  BY <1>5, <1>9, <1>10, <1>11, <1>12, <1>13, <1>14, <1>15, <1>16 DEF DrainStep

LEMMA ChainInit == Started => ChainInv
<1> SUFFICES ASSUME Started, NEW k \in Keys
             PROVE  \E q \in Seq(Drains) : IsChain(k, q)
  BY DEF ChainInv
<1>1. <<>> \in Seq(Drains) /\ Len(<<>>) = 0
  BY EmptySeq
<1>2. IsChain(k, <<>>)
  BY <1>1 DEF IsChain, Started, InitWith, IdleDrain
<1> QED
  BY <1>1, <1>2

LEMMA ChainStep == TypeOK /\ ChainInv /\ [Next]_vars => ChainInv'
<1> SUFFICES ASSUME TypeOK, ChainInv, [Next]_vars
             PROVE  ChainInv'
  OBVIOUS
<1>1. ASSUME UNCHANGED <<drains, tails>>
      PROVE  ChainInv'
  BY <1>1 DEF ChainInv, IsChain
<1>2. ASSUME NEW S \in SUBSET Keys, RunOnTail(S)
      PROVE  ChainInv'
  BY <1>2, ChainAppend DEF TypeOK
<1>3. ASSUME NEW k \in Keys, NEW header \in Metadata, Enqueue(k, header)
      PROVE  ChainInv'
  BY <1>1, <1>3 DEF Enqueue
<1>4. ASSUME NEW k \in Keys, NEW header \in Metadata, EnqueueChecked(k, header)
      PROVE  ChainInv'
  BY <1>2, <1>4 DEF EnqueueChecked, EnqueueAndDrive
<1>5. ASSUME NEW k \in Keys, Flush(k)
      PROVE  ChainInv'
  BY <1>2, <1>5 DEF Flush
<1>6. ASSUME NEW s \in SnapIds, TimerFires(s)
      PROVE  ChainInv'
  <2>1. snapshots[s].key \in Keys
    BY <1>6, SnapshotTyped DEF TypeOK, IntakeTypeOK, TimerFires
  <2> QED
    BY <1>2, <1>6, <2>1 DEF TimerFires
<1>7. ASSUME NEW k \in Keys, NEW seen \in Metadata, NEW header \in Metadata,
             AbsorbExternal(k, seen, header)
      PROVE  ChainInv'
  BY <1>1, <1>7 DEF AbsorbExternal
<1>8. ASSUME NEW k \in Keys, DeleteSession(k)
      PROVE  ChainInv'
  BY <1>1, <1>8 DEF DeleteSession
<1>9. ASSUME NEW k \in Keys, NEW d \in Drains, DrainStep(k, d)
      PROVE  ChainInv'
  BY <1>9, WriteKeepsPlace, ChainShift DEF TypeOK
<1>10. CASE FlushAll
  BY <1>1, <1>10 DEF FlushAll
<1>11. ASSUME NEW failures \in SUBSET (Keys \X SnapsSoFar), NEW quiescent,
              Retry(failures, quiescent)
       PROVE  ChainInv'
  <2>1. PICK failure \in failures :
          EnqueueAndDrive(failure[1], snapshots[failure[2]].header,
                          snapshots[failure[2]].content)
    BY <1>11 DEF Retry
  <2> QED
    BY <1>2, <2>1 DEF EnqueueAndDrive
<1>12. CASE FlushStep
  <2>1. Retained \in SUBSET (Keys \X SnapsSoFar) /\ Busy \in SUBSET Keys
    BY DEF TypeOK, OutcomeTypeOK, Retained, Busy
  <2>2. CASE FlushRound
    BY <1>2, <2>1, <2>2 DEF FlushRound
  <2>3. CASE FlushDrained
    BY <1>1, <1>11, <2>1, <2>3 DEF FlushDrained
  <2>4. CASE FlushRetries
    BY <1>11, <2>4 DEF FlushRetries, TypeOK, FlushTypeOK
  <2>5. CASE FlushEnds
    BY <1>1, <2>5 DEF FlushEnds
  <2> QED
    BY <1>12, <2>2, <2>3, <2>4, <2>5 DEF FlushStep
<1>13. CASE CrashAndRestart
  <2> SUFFICES ASSUME NEW k \in Keys
               PROVE  \E q \in Seq(Drains) : IsChain(k, q)'
    BY DEF ChainInv
  <2>1. <<>> \in Seq(Drains) /\ Len(<<>>) = 0
    BY EmptySeq
  <2>2. IsChain(k, <<>>)'
    BY <1>13, <2>1 DEF IsChain, CrashAndRestart, IdleDrain
  <2> QED
    BY <2>1, <2>2
<1>14. CASE UNCHANGED vars
  BY <1>1, <1>14 DEF vars
<1> QED
  BY <1>3, <1>4, <1>5, <1>6, <1>7, <1>8, <1>9, <1>10, <1>12, <1>13, <1>14 DEF Next

\* I1 of the queue: no session ever has two writes in flight, however timers,
\* flushes, checked saves, deletions and the shutdown interleave.
THEOREM OneWriter == Spec => []OneWriterPerKey
<1>1. Init => TypeOK /\ ChainInv
  BY InitIsStarted, InitType, ChainInit
<1>2. TypeOK /\ ChainInv /\ [Next]_vars => (TypeOK /\ ChainInv)'
  BY NextType, ChainStep
<1>3. TypeOK /\ ChainInv => OneWriterPerKey
  BY ChainGivesOneWriter
<1> QED
  BY <1>1, <1>2, <1>3, PTL DEF Spec

----------------------------------------------------------------------------
(* The watermarks.  FreshWritesNotCancelled is inductive: a generation is   *)
(* minted above both watermarks, and they are reset with it or not at all.  *)

Uncancelled(k) ==
  /\ cancelledThrough[k].delete <= generations[k]
  /\ cancelledThrough[k].supersede <= generations[k]
  /\ \A s \in ToSet(queued[k]) : ~Cancelled(k, Generation(s))

\* A session whose queue only loses entries, or gains one of the next generation.
LEMMA QueueShrinks ==
  ASSUME TypeOK, NEW k \in Keys, Uncancelled(k),
         cancelledThrough'[k] = cancelledThrough[k], generations'[k] >= generations[k],
         generations'[k] \in Nat,
         \A s \in ToSet(queued[k]) : snapshots'[s] = snapshots[s],
         \A s \in ToSet(queued[k])' :
           \/ s \in ToSet(queued[k])
           \/ snapshots'[s].generation = generations[k] + 1
  PROVE  Uncancelled(k)'
<1>1. /\ generations[k] \in Nat
      /\ cancelledThrough[k].delete \in Nat /\ cancelledThrough[k].supersede \in Nat
  BY DEF TypeOK, IntakeTypeOK
<1>2. /\ cancelledThrough'[k].delete <= generations'[k]
      /\ cancelledThrough'[k].supersede <= generations'[k]
  BY <1>1 DEF Uncancelled
<1>3. ASSUME NEW s \in ToSet(queued[k])'
      PROVE  ~(Cancelled(k, Generation(s)))'
  <2>1. CASE s \in ToSet(queued[k])
    BY <1>3, <2>1 DEF Uncancelled, Cancelled, Generation
  <2>2. CASE snapshots'[s].generation = generations[k] + 1
    BY <1>1, <1>2, <1>3, <2>2 DEF Uncancelled, Cancelled, Generation
  <2> QED
    BY <1>3, <2>1, <2>2
<1> QED
  BY <1>2, <1>3 DEF Uncancelled

LEMMA IntakeUncancelled ==
  ASSUME TypeOK, FreshWritesNotCancelled,
         UNCHANGED <<snapshots, queued, generations, cancelledThrough>>
  PROVE  FreshWritesNotCancelled'
  BY DEF FreshWritesNotCancelled, Cancelled, Generation

\* Accepting a snapshot changes no earlier one.
LEMMA SnapshotsKept ==
  ASSUME TypeOK, NEW k \in Keys, NEW header \in Metadata, NEW checked \in BOOLEAN,
         NEW content \in SnapIds,
         snapshots' = Append(snapshots, Snapshot(k, header, checked, content))
  PROVE  /\ \A s \in SnapsSoFar : snapshots'[s] = snapshots[s]
         /\ snapshots'[NewSnap] = Snapshot(k, header, checked, content)
<1>1. Snapshot(k, header, checked, content) \in
        [key : Keys, generation : Nat, checked : BOOLEAN, header : Metadata, content : SnapIds]
  BY DEF Snapshot, TypeOK, IntakeTypeOK
<1>2. /\ \A s \in 1 .. Len(snapshots) : snapshots'[s] = snapshots[s]
      /\ snapshots'[Len(snapshots) + 1] = Snapshot(k, header, checked, content)
  BY <1>1, AppendProperties DEF TypeOK, IntakeTypeOK
<1> QED
  BY <1>2 DEF SnapsSoFar, NewSnap

LEMMA PutUncancelled ==
  ASSUME TypeOK, FreshWritesNotCancelled, NEW k \in Keys, NEW header \in Metadata,
         NEW checked \in BOOLEAN, NEW content \in SnapIds, PutEntry(k, header, checked, content),
         UNCHANGED cancelledThrough
  PROVE  FreshWritesNotCancelled'
<1> SUFFICES ASSUME NEW j \in Keys
             PROVE  Uncancelled(j)'
  BY DEF FreshWritesNotCancelled, Uncancelled
<1>1. Uncancelled(j) /\ generations[j] \in Nat
  BY DEF FreshWritesNotCancelled, Uncancelled, TypeOK, IntakeTypeOK
<1>2. /\ Len(snapshots) \in Nat
      /\ \A s \in SnapsSoFar : snapshots'[s] = snapshots[s]
      /\ snapshots'[NewSnap].generation = generations[k] + 1
  <2>1. snapshots' = Append(snapshots, Snapshot(k, header, checked, content))
    BY DEF PutEntry
  <2>2. Len(snapshots) \in Nat
    BY LenProperties DEF TypeOK, IntakeTypeOK
  <2>3. /\ \A s \in SnapsSoFar : snapshots'[s] = snapshots[s]
        /\ snapshots'[NewSnap] = Snapshot(k, header, checked, content)
    BY <2>1, SnapshotsKept
  <2>4. Snapshot(k, header, checked, content).generation = generations[k] + 1
    BY DEF Snapshot
  <2> QED
    BY <2>2, <2>3, <2>4
<1>3. queued[j] \in Seq(SnapsSoFar) /\ \A s \in ToSet(queued[j]) : s \in SnapsSoFar
  <2>1. queued[j] \in Seq(SnapsSoFar)
    BY DEF TypeOK, IntakeTypeOK
  <2> QED
    BY <2>1, ElementOfSeq, LenProperties DEF ToSet
<1>4. CASE j # k
  <2>1. /\ queued'[j] = queued[j] /\ generations'[j] = generations[j]
        /\ cancelledThrough'[j] = cancelledThrough[j]
    BY <1>4 DEF PutEntry, TypeOK, IntakeTypeOK
  <2>2. \A s \in ToSet(queued[j])' : s \in ToSet(queued[j])
    BY <2>1 DEF ToSet
  <2>3. generations'[j] >= generations[j] /\ generations'[j] \in Nat
    BY <1>1, <2>1
  <2> QED
    BY <1>1, <1>2, <1>3, <2>1, <2>2, <2>3, QueueShrinks
<1>5. CASE j = k
  <2> DEFINE kept == IF Replaces(k, checked) THEN Front(queued[k]) ELSE queued[k]
  <2>1. /\ kept \in Seq(SnapsSoFar)
        /\ \A s \in ToSet(kept) : s \in ToSet(queued[k])
    <3>1. CASE Replaces(k, checked)
      <4>1. queued[k] # <<>> /\ Len(queued[k]) \in Nat /\ Len(queued[k]) >= 1
        BY <1>3, <1>5, <3>1, LenProperties, EmptySeq DEF Replaces
      <4>2. /\ Front(queued[k]) \in Seq(SnapsSoFar)
            /\ Len(Front(queued[k])) = Len(queued[k]) - 1
            /\ \A i \in 1 .. Len(queued[k]) - 1 : Front(queued[k])[i] = queued[k][i]
        BY <1>3, <1>5, <4>1, SubSeqProperties DEF Front
      <4>3. ASSUME NEW s \in ToSet(Front(queued[k]))
            PROVE  s \in ToSet(queued[k])
        <5>1. PICK i \in 1 .. Len(queued[k]) - 1 : s = queued[k][i]
          BY <4>1, <4>2, LenProperties DEF ToSet
        <5>2. i \in DOMAIN queued[k]
          BY <1>3, <1>5, <4>1, <5>1, LenProperties
        <5> QED
          BY <5>1, <5>2 DEF ToSet
      <4> QED
        BY <3>1, <4>2, <4>3
    <3>2. CASE ~Replaces(k, checked)
      BY <1>3, <1>5, <3>2
    <3> QED
      BY <3>1, <3>2
  <2>2. queued'[k] = Append(kept, NewSnap)
    BY DEF PutEntry, TypeOK, IntakeTypeOK
  <2>3. \A s \in ToSet(Append(kept, NewSnap)) : s \in ToSet(kept) \/ s = NewSnap
    <3> HIDE DEF kept
    <3>1. Len(kept) \in Nat /\ DOMAIN kept = 1 .. Len(kept)
      BY <2>1, LenProperties
    <3>2. kept \in Seq(SnapsSoFar \cup {NewSnap})
      BY <2>1, SeqMonotonic
    <3>3. /\ DOMAIN Append(kept, NewSnap) = 1 .. Len(kept) + 1
          /\ \A i \in 1 .. Len(kept) : Append(kept, NewSnap)[i] = kept[i]
          /\ Append(kept, NewSnap)[Len(kept) + 1] = NewSnap
      BY <3>2, AppendProperties, LenProperties
    <3> QED
      BY <3>1, <3>3 DEF ToSet
  <2>4. \A s \in ToSet(queued[k])' : \/ s \in ToSet(queued[k])
                                    \/ snapshots'[s].generation = generations[k] + 1
    <3>1. ToSet(queued[k])' = ToSet(queued'[k])
      OBVIOUS
    <3> HIDE DEF kept
    <3> QED
      BY <1>2, <2>1, <2>2, <2>3, <3>1
  <2>5. generations'[k] = generations[k] + 1
    BY DEF PutEntry, TypeOK, IntakeTypeOK
  <2>6. generations'[k] >= generations[k] /\ generations'[k] \in Nat
    BY <1>1, <1>5, <2>5
  <2> QED
    BY <1>1, <1>2, <1>3, <1>5, <2>4, <2>6, QueueShrinks
<1> QED
  BY <1>4, <1>5

\* A session whose queue is emptied: by a retirement, or under raised watermarks.
LEMMA EmptiedUncancelled ==
  ASSUME TypeOK, NEW k \in Keys, queued'[k] = <<>>,
         cancelledThrough'[k].delete <= generations'[k],
         cancelledThrough'[k].supersede <= generations'[k]
  PROVE  Uncancelled(k)'
<1>1. ToSet(queued[k])' = {}
  BY DEF ToSet
<1> QED
  BY <1>1 DEF Uncancelled

\* A session none of whose intake changes.
LEMMA SessionUntouched ==
  ASSUME TypeOK, NEW k \in Keys, Uncancelled(k), cancelledThrough'[k] = cancelledThrough[k],
         generations'[k] = generations[k], queued'[k] = queued[k],
         \A s \in SnapsSoFar : snapshots'[s] = snapshots[s]
  PROVE  Uncancelled(k)'
<1>1. queued[k] \in Seq(SnapsSoFar)
  BY DEF TypeOK, IntakeTypeOK
<1>2. \A s \in ToSet(queued[k]) : s \in SnapsSoFar
  BY <1>1, ElementOfSeq, LenProperties DEF ToSet
<1>3. \A s \in ToSet(queued[k])' : s \in ToSet(queued[k])
  BY DEF ToSet
<1>4. generations'[k] >= generations[k] /\ generations'[k] \in Nat
  BY DEF TypeOK, IntakeTypeOK
<1> QED
  BY <1>2, <1>3, <1>4, QueueShrinks

\* An absorbed edit leaves one entry, whose generation is above the watermark.
LEMMA AbsorbUncancelled ==
  ASSUME TypeOK, FreshWritesNotCancelled, NEW k \in Keys,
         NEW seen \in Metadata, NEW header \in Metadata, AbsorbExternal(k, seen, header)
  PROVE  FreshWritesNotCancelled'
<1> SUFFICES ASSUME NEW j \in Keys
             PROVE  Uncancelled(j)'
  BY DEF FreshWritesNotCancelled, Uncancelled
<1>1. Uncancelled(j) /\ Uncancelled(k)
  BY DEF FreshWritesNotCancelled, Uncancelled
<1>2. /\ \A s \in SnapsSoFar : snapshots'[s] = snapshots[s]
      /\ snapshots'[NewSnap] = Snapshot(k, header, FALSE, NewSnap)
  <2>1. snapshots' = Append(snapshots, Snapshot(k, header, FALSE, NewSnap))
    BY DEF AbsorbExternal
  <2>2. NewSnap \in SnapIds
    BY BoundsAreNat, LenProperties
    DEF TypeOK, IntakeTypeOK, AbsorbExternal, Room, NewSnap, SnapIds
  <2> QED
    BY <2>1, <2>2, SnapshotsKept
<1>3. CASE j # k
  <2>1. /\ queued'[j] = queued[j] /\ generations'[j] = generations[j]
        /\ cancelledThrough'[j] = cancelledThrough[j]
    BY <1>3 DEF AbsorbExternal, StopPendingWrites, TypeOK, IntakeTypeOK
  <2> QED
    BY <1>1, <1>2, <2>1, SessionUntouched
<1>4. CASE j = k
  <2>1. /\ generations[k] \in Nat /\ cancelledThrough[k].delete \in Nat
        /\ cancelledThrough[k].supersede \in Nat
        /\ cancelledThrough[k].delete <= generations[k]
        /\ cancelledThrough[k].supersede <= generations[k]
    BY <1>1 DEF Uncancelled, TypeOK, IntakeTypeOK
  <2>2. /\ generations'[k] = generations[k] + 1
        /\ queued'[k] = <<NewSnap>>
    BY DEF AbsorbExternal, TypeOK, IntakeTypeOK
  <2>3. /\ cancelledThrough'[k].delete = cancelledThrough[k].delete
        /\ cancelledThrough'[k].supersede =
             Max({cancelledThrough[k].supersede, generations[k]})
    BY DEF AbsorbExternal, StopPendingWrites, TypeOK, IntakeTypeOK
  <2>4. /\ cancelledThrough'[k].delete <= generations[k]
        /\ cancelledThrough'[k].supersede <= generations[k]
    BY <2>1, <2>3, MaxOfTwo
  <2>5. cancelledThrough'[k].delete \in Nat /\ cancelledThrough'[k].supersede \in Nat
    BY <2>1, <2>3, MaxOfTwo
  <2>6. \A s \in ToSet(queued[k])' : s = NewSnap
    BY <2>2 DEF ToSet
  <2>7. \A s \in ToSet(queued[k])' : snapshots'[s].generation = generations[k] + 1
    BY <1>2, <2>6 DEF Snapshot
  <2>8. \A s \in ToSet(queued[k])' : ~(Cancelled(k, Generation(s)))'
    BY <2>1, <2>4, <2>5, <2>7 DEF Cancelled, Generation
  <2> QED
    BY <1>4, <2>1, <2>2, <2>4, <2>5, <2>8 DEF Uncancelled
<1> QED
  BY <1>3, <1>4

LEMMA DeleteUncancelled ==
  ASSUME TypeOK, FreshWritesNotCancelled, NEW k \in Keys, DeleteSession(k)
  PROVE  FreshWritesNotCancelled'
<1> SUFFICES ASSUME NEW j \in Keys
             PROVE  Uncancelled(j)'
  BY DEF FreshWritesNotCancelled, Uncancelled
<1>1. Uncancelled(j) /\ Uncancelled(k)
  BY DEF FreshWritesNotCancelled, Uncancelled
<1>2. /\ generations[k] \in Nat /\ cancelledThrough[k].delete \in Nat
      /\ cancelledThrough[k].supersede \in Nat
      /\ cancelledThrough[k].supersede <= generations[k]
  BY <1>1 DEF Uncancelled, TypeOK, IntakeTypeOK
<1>3. UNCHANGED snapshots /\ queued' = [queued EXCEPT ![k] = <<>>]
  BY DEF DeleteSession
<1>4. CASE Retire(k)
  <2>1. CASE j # k
    <3>1. /\ queued'[j] = queued[j] /\ generations'[j] = generations[j]
          /\ cancelledThrough'[j] = cancelledThrough[j]
      BY <1>3, <1>4, <2>1 DEF Retire, TypeOK, IntakeTypeOK
    <3> QED
      BY <1>1, <1>3, <3>1, SessionUntouched
  <2>2. CASE j = k
    <3>1. /\ queued'[k] = <<>> /\ generations'[k] = 0
          /\ cancelledThrough'[k] = [delete |-> 0, supersede |-> 0]
      BY <1>3, <1>4 DEF Retire, TypeOK, IntakeTypeOK
    <3> QED
      BY <2>2, <3>1, EmptiedUncancelled
  <2> QED
    BY <2>1, <2>2
<1>5. CASE StopPendingWrites(k, "delete", "deleted") /\ UNCHANGED generations
  <2>1. CASE j # k
    <3>1. /\ queued'[j] = queued[j] /\ generations'[j] = generations[j]
          /\ cancelledThrough'[j] = cancelledThrough[j]
      BY <1>3, <1>5, <2>1 DEF StopPendingWrites, TypeOK, IntakeTypeOK
    <3> QED
      BY <1>1, <1>3, <3>1, SessionUntouched
  <2>2. CASE j = k
    <3>1. /\ queued'[k] = <<>> /\ generations'[k] = generations[k]
          /\ cancelledThrough'[k].delete = Max({cancelledThrough[k].delete, generations[k]})
          /\ cancelledThrough'[k].supersede = cancelledThrough[k].supersede
      BY <1>3, <1>5 DEF StopPendingWrites, TypeOK, IntakeTypeOK
    <3>2. cancelledThrough[k].delete <= generations[k]
      BY <1>1 DEF Uncancelled
    <3>3. cancelledThrough'[k].delete <= generations[k]
      BY <1>2, <3>1, <3>2, MaxOfTwo
    <3> QED
      BY <1>2, <2>2, <3>1, <3>3, EmptiedUncancelled
  <2> QED
    BY <2>1, <2>2
<1> QED
  BY <1>4, <1>5 DEF DeleteSession

\* A write that begins takes the head of its own queue.
LEMMA WriteBeginsUncancelled ==
  ASSUME TypeOK, FreshWritesNotCancelled, NEW k \in Keys, NEW d \in Drains, WriteBegins(k, d)
  PROVE  FreshWritesNotCancelled'
<1> SUFFICES ASSUME NEW j \in Keys
             PROVE  Uncancelled(j)'
  BY DEF FreshWritesNotCancelled, Uncancelled
<1>1. Uncancelled(j)
  BY DEF FreshWritesNotCancelled, Uncancelled
<1>2. /\ UNCHANGED <<snapshots, generations, cancelledThrough>>
      /\ queued' = [queued EXCEPT ![k] = Tail(@)] /\ queued[k] # <<>>
  BY DEF WriteBegins
<1>3. CASE j # k
  <2>1. queued'[j] = queued[j]
    BY <1>2, <1>3 DEF TypeOK, IntakeTypeOK
  <2> QED
    BY <1>1, <1>2, <2>1, SessionUntouched
<1>4. CASE j = k
  <2>1. queued[k] \in Seq(SnapsSoFar) /\ queued'[k] = Tail(queued[k])
    BY <1>2 DEF TypeOK, IntakeTypeOK
  <2>2. ASSUME NEW s \in ToSet(Tail(queued[k]))
        PROVE  s \in ToSet(queued[k])
    <3>1. /\ Len(queued[k]) \in Nat /\ DOMAIN queued[k] = 1 .. Len(queued[k])
          /\ DOMAIN Tail(queued[k]) = 1 .. Len(queued[k]) - 1
          /\ \A i \in 1 .. Len(queued[k]) - 1 : Tail(queued[k])[i] = queued[k][i + 1]
      BY <1>2, <2>1, HeadTailProperties, LenProperties
    <3>2. PICK i \in 1 .. Len(queued[k]) - 1 : s = queued[k][i + 1]
      BY <3>1 DEF ToSet
    <3>3. i + 1 \in 1 .. Len(queued[k])
      BY <3>1, <3>2
    <3> QED
      BY <3>1, <3>2, <3>3 DEF ToSet
  <2>3. \A s \in ToSet(queued[k])' : s \in ToSet(queued[k])
    BY <2>1, <2>2 DEF ToSet
  <2>4. generations'[k] >= generations[k] /\ generations'[k] \in Nat
    BY <1>2 DEF TypeOK, IntakeTypeOK
  <2> QED
    BY <1>1, <1>2, <1>4, <2>3, <2>4, QueueShrinks
<1> QED
  BY <1>3, <1>4

\* The bookkeeping retires only over an empty queue.
LEMMA DrainEndsUncancelled ==
  ASSUME TypeOK, FreshWritesNotCancelled, NEW k \in Keys, NEW d \in Drains, DrainEnds(k, d)
  PROVE  FreshWritesNotCancelled'
<1>1. UNCHANGED <<snapshots, queued>>
  BY DEF DrainEnds
<1>2. CASE UNCHANGED <<generations, cancelledThrough>>
  BY <1>1, <1>2, IntakeUncancelled
<1>3. CASE Retire(k) /\ queued[k] = <<>>
  <2> SUFFICES ASSUME NEW j \in Keys
               PROVE  Uncancelled(j)'
    BY DEF FreshWritesNotCancelled, Uncancelled
  <2>1. Uncancelled(j)
    BY DEF FreshWritesNotCancelled, Uncancelled
  <2>2. CASE j # k
    <3>1. generations'[j] = generations[j] /\ cancelledThrough'[j] = cancelledThrough[j]
      BY <1>3, <2>2 DEF Retire, TypeOK, IntakeTypeOK
    <3> QED
      BY <1>1, <2>1, <3>1, SessionUntouched
  <2>3. CASE j = k
    <3>1. /\ queued'[k] = <<>> /\ generations'[k] = 0
          /\ cancelledThrough'[k] = [delete |-> 0, supersede |-> 0]
      BY <1>1, <1>3 DEF Retire, TypeOK, IntakeTypeOK
    <3> QED
      BY <2>3, <3>1, EmptiedUncancelled
  <2> QED
    BY <2>2, <2>3
<1> QED
  BY <1>2, <1>3 DEF DrainEnds

LEMMA RetryUncancelled ==
  ASSUME TypeOK, FreshWritesNotCancelled, NEW quiescent,
         NEW failures \in SUBSET (Keys \X SnapsSoFar), Retry(failures, quiescent),
         UNCHANGED cancelledThrough
  PROVE  FreshWritesNotCancelled'
<1>1. PICK failure \in failures :
        EnqueueAndDrive(failure[1], snapshots[failure[2]].header, snapshots[failure[2]].content)
  BY DEF Retry
<1>2. failure[1] \in Keys /\ failure[2] \in SnapsSoFar
  OBVIOUS
<1>3. snapshots[failure[2]].header \in Metadata /\ snapshots[failure[2]].content \in SnapIds
  BY <1>2, SnapshotTyped DEF TypeOK
<1> QED
  BY <1>1, <1>2, <1>3, PutUncancelled DEF EnqueueAndDrive

LEMMA FreshInit == Started => FreshWritesNotCancelled
  BY DEF Started, InitWith, FreshWritesNotCancelled, ToSet

LEMMA FreshStep ==
  ASSUME TypeOK, FreshWritesNotCancelled, [Next]_vars
  PROVE  FreshWritesNotCancelled'
<1>1. ASSUME NEW k \in Keys, NEW header \in Metadata,
             Enqueue(k, header) \/ EnqueueChecked(k, header)
      PROVE  FreshWritesNotCancelled'
  <2>1. Len(snapshots) < MaxSnapshots
    BY <1>1 DEF Enqueue, EnqueueChecked, Room
  <2>2. NewSnap \in SnapIds
    BY <2>1, BoundsAreNat, LenProperties DEF TypeOK, IntakeTypeOK, NewSnap, SnapIds
  <2> QED
    BY <1>1, <2>2, PutUncancelled DEF Enqueue, EnqueueChecked, EnqueueAndDrive
<1>2. ASSUME NEW k \in Keys, Flush(k)
      PROVE  FreshWritesNotCancelled'
  BY <1>2, IntakeUncancelled DEF Flush
<1>3. ASSUME NEW s \in SnapIds, TimerFires(s)
      PROVE  FreshWritesNotCancelled'
  BY <1>3, IntakeUncancelled DEF TimerFires
<1>4. ASSUME NEW k \in Keys, NEW d \in Drains, DrainStep(k, d)
      PROVE  FreshWritesNotCancelled'
  <2>1. CASE WriteBegins(k, d)
    BY <2>1, WriteBeginsUncancelled
  <2>2. CASE DrainEnds(k, d)
    BY <2>2, DrainEndsUncancelled
  <2>3. CASE TmpWritten(k, d) \/ TargetUnlinked(k, d) \/ Renamed(k, d)
    BY <2>3, IntakeUncancelled DEF TmpWritten, TargetUnlinked, Renamed, queueVars
  <2>4. CASE RenameReturns(k, d) \/ TmpDropped(k, d) \/ FileDiscarded(k, d)
    BY <2>4, IntakeUncancelled DEF RenameReturns, TmpDropped, FileDiscarded, queueVars
  <2>5. CASE WriteFails(k, d) \/ FailureTidied(k, d)
    BY <2>5, IntakeUncancelled DEF WriteFails, FailureTidied, queueVars
  <2> QED
    BY <1>4, <2>1, <2>2, <2>3, <2>4, <2>5 DEF DrainStep
<1>5. CASE FlushAll
  BY <1>5, IntakeUncancelled DEF FlushAll, queueVars
<1>6. CASE FlushStep
  <2>1. CASE FlushRound
    BY <2>1, IntakeUncancelled DEF FlushRound
  <2>2. CASE FlushDrained
    <3>1. CASE \E quiescent \in BOOLEAN : Retry(Retained, quiescent)
      <4>1. Retained \in SUBSET (Keys \X SnapsSoFar)
        BY DEF Retained, TypeOK, OutcomeTypeOK
      <4> QED
        BY <2>2, <3>1, <4>1, RetryUncancelled DEF FlushDrained
    <3>2. CASE UNCHANGED queueVars
      BY <2>2, <3>2, IntakeUncancelled DEF FlushDrained, queueVars
    <3> QED
      BY <2>2, <3>1, <3>2 DEF FlushDrained
  <2>3. CASE FlushRetries
    BY <2>3, RetryUncancelled DEF FlushRetries, TypeOK, FlushTypeOK
  <2>4. CASE FlushEnds
    BY <2>4, IntakeUncancelled DEF FlushEnds, queueVars
  <2> QED
    BY <1>6, <2>1, <2>2, <2>3, <2>4 DEF FlushStep
<1>7. CASE CrashAndRestart
  <2> SUFFICES ASSUME NEW k \in Keys
               PROVE  Uncancelled(k)'
    BY DEF FreshWritesNotCancelled, Uncancelled
  <2>1. /\ queued'[k] = <<>> /\ generations'[k] = 0
        /\ cancelledThrough'[k] = [delete |-> 0, supersede |-> 0]
    BY <1>7 DEF CrashAndRestart
  <2> QED
    BY <2>1, EmptiedUncancelled
<1>8. CASE UNCHANGED vars
  BY <1>8, IntakeUncancelled DEF vars, queueVars
<1> QED
  BY <1>1, <1>2, <1>3, <1>4, <1>5, <1>6, <1>7, <1>8, AbsorbUncancelled, DeleteUncancelled
  DEF Next

\* A write enqueued after a supersede or a deletion is never cancelled by it.
THEOREM FreshWrites == Spec => []FreshWritesNotCancelled
<1>1. Init => TypeOK /\ FreshWritesNotCancelled
  BY InitIsStarted, InitType, FreshInit
<1>2. TypeOK /\ FreshWritesNotCancelled /\ [Next]_vars => (TypeOK /\ FreshWritesNotCancelled)'
  BY NextType, FreshStep
<1> QED
  BY <1>1, <1>2, PTL DEF Spec

----------------------------------------------------------------------------
(* The queue of one session, oldest first.  Positions of snapshots only rise *)
(* along it, so an entry is in it once.                                      *)

Rising(q) == \A i, j \in 1 .. Len(q) : i < j => q[i] < q[j]

LEMMA RisingEmpty == Rising(<<>>) /\ ToSet(<<>>) = {}
  BY DEF Rising, ToSet

LEMMA OneEntry ==
  ASSUME NEW e
  PROVE  Rising(<<e>>) /\ ToSet(<<e>>) = {e} /\ Len(<<e>>) = 1
<1>1. Len(<<e>>) = 1 /\ DOMAIN <<e>> = {1} /\ <<e>>[1] = e
  OBVIOUS
<1> QED
  BY <1>1 DEF Rising, ToSet

LEMMA EntriesOf ==
  ASSUME NEW S, NEW q \in Seq(S)
  PROVE  /\ Len(q) \in Nat /\ DOMAIN q = 1 .. Len(q)
         /\ \A s : s \in ToSet(q) <=> \E i \in 1 .. Len(q) : q[i] = s
         /\ \A s \in ToSet(q) : s \in S
<1>1. Len(q) \in Nat /\ DOMAIN q = 1 .. Len(q)
  BY LenProperties
<1>2. \A i \in 1 .. Len(q) : q[i] \in S
  BY ElementOfSeq
<1> QED
  BY <1>1, <1>2 DEF ToSet

LEMMA TailOf ==
  ASSUME NEW S \in SUBSET Nat, NEW q \in Seq(S), q # <<>>
  PROVE  /\ Tail(q) \in Seq(S) /\ Head(q) \in ToSet(q) /\ Len(q) > 0
         /\ Len(Tail(q)) = Len(q) - 1
         /\ \A i \in 1 .. Len(Tail(q)) : i + 1 \in 1 .. Len(q) /\ Tail(q)[i] = q[i + 1]
         /\ \A s : s \in ToSet(q) <=> s = Head(q) \/ s \in ToSet(Tail(q))
         /\ Rising(q) => Rising(Tail(q)) /\ \A s \in ToSet(Tail(q)) : Head(q) < s
<1>1. /\ Tail(q) \in Seq(S) /\ Len(Tail(q)) = Len(q) - 1
      /\ \A i \in 1 .. Len(Tail(q)) : Tail(q)[i] = q[i + 1]
      /\ Head(q) = q[1]
  BY HeadTailProperties
<1>2. Len(q) \in Nat /\ Len(q) > 0
  BY LenProperties, EmptySeq
<1>3. \A i \in 1 .. Len(Tail(q)) : i + 1 \in 1 .. Len(q)
  BY <1>1, <1>2
<1>4. \A s : s \in ToSet(q) <=> \E i \in 1 .. Len(q) : q[i] = s
  BY EntriesOf
<1>5. \A s : s \in ToSet(Tail(q)) <=> \E i \in 1 .. Len(Tail(q)) : Tail(q)[i] = s
  BY <1>1, EntriesOf
<1>6. Head(q) \in ToSet(q)
  BY <1>1, <1>2, <1>4
<1>7. \A s : s \in ToSet(Tail(q)) => s \in ToSet(q)
  BY <1>1, <1>3, <1>4, <1>5
<1>8. ASSUME NEW s, s \in ToSet(q), s # Head(q)
      PROVE  s \in ToSet(Tail(q))
  <2>1. PICK i \in 1 .. Len(q) : q[i] = s
    BY <1>4, <1>8
  <2>2. i # 1
    BY <1>1, <1>8, <2>1
  <2>3. i - 1 \in 1 .. Len(Tail(q)) /\ i - 1 + 1 = i
    BY <1>1, <1>2, <2>2
  <2> QED
    BY <1>1, <1>5, <2>1, <2>3
<1>9. ASSUME Rising(q)
      PROVE  Rising(Tail(q)) /\ \A s \in ToSet(Tail(q)) : Head(q) < s
  <2>1. Rising(Tail(q))
    BY <1>1, <1>2, <1>3, <1>9 DEF Rising
  <2>2. ASSUME NEW s \in ToSet(Tail(q))
        PROVE  Head(q) < s
    <3>1. PICK i \in 1 .. Len(Tail(q)) : Tail(q)[i] = s
      BY <1>5, <2>2
    <3>2. i + 1 \in 1 .. Len(q) /\ 1 \in 1 .. Len(q) /\ 1 < i + 1 /\ s = q[i + 1]
      BY <1>1, <1>2, <1>3, <3>1
    <3> QED
      BY <1>1, <1>9, <3>2 DEF Rising
  <2> QED
    BY <2>1, <2>2
<1> QED
  BY <1>1, <1>2, <1>3, <1>6, <1>7, <1>8, <1>9

LEMMA FrontOf ==
  ASSUME NEW S \in SUBSET Nat, NEW q \in Seq(S), q # <<>>
  PROVE  /\ Front(q) \in Seq(S) /\ Len(Front(q)) = Len(q) - 1 /\ Len(q) > 0
         /\ \A i \in 1 .. Len(Front(q)) : i \in 1 .. Len(q) /\ Front(q)[i] = q[i]
         /\ Last(q) = q[Len(q)] /\ Last(q) \in ToSet(q)
         /\ \A s : s \in ToSet(q) <=> s = Last(q) \/ s \in ToSet(Front(q))
         /\ Rising(q) => Rising(Front(q)) /\ \A s \in ToSet(Front(q)) : s < Last(q)
<1>1. Len(q) \in Nat /\ Len(q) > 0
  BY LenProperties, EmptySeq
<1>2. /\ Front(q) \in Seq(S) /\ Len(Front(q)) = Len(q) - 1
      /\ \A i \in 1 .. Len(q) - 1 : Front(q)[i] = q[i]
  <2>1. \A i \in 1 .. Len(q) - 1 : q[i] \in S
    BY <1>1, ElementOfSeq
  <2> DEFINE n == Len(q) - 1
             p == SubSeq(q, 1, n)
  <2>2. n \in Int
    BY <1>1
  <2>3. /\ p \in Seq(S) /\ Len(p) = IF 1 <= n THEN n - 1 + 1 ELSE 0
        /\ \A i \in 1 .. n - 1 + 1 : p[i] = q[1 + i - 1]
    <3>1. \A i \in 1 .. n : q[i] \in S
      BY <2>1
    <3> HIDE DEF n
    <3> QED
      BY <2>2, <3>1, SubSeqProperties
  <2> HIDE DEF p
  <2>4. p \in Seq(S) /\ Len(p) = Len(q) - 1 /\ \A i \in 1 .. Len(q) - 1 : p[i] = q[i]
    <3>1. Len(p) = Len(q) - 1
      <4>1. n \in Int /\ n >= 0 /\ n - 1 + 1 = n
        BY <1>1
      <4>2. Len(p) = n
        <5> HIDE DEF n
        <5>1. CASE 1 <= n
          BY <2>3, <4>1, <5>1
        <5>2. CASE ~(1 <= n)
          <6>1. n = 0
            BY <4>1, <5>2
          <6> QED
            BY <2>3, <5>2, <6>1
        <5> QED
          BY <5>1, <5>2
      <4> QED
        BY <4>2
    <3>2. ASSUME NEW i \in 1 .. Len(q) - 1
          PROVE  p[i] = q[i]
      <4>1. 1 + i - 1 = i /\ i \in 1 .. n - 1 + 1
        BY <1>1
      <4> HIDE DEF n
      <4> QED
        BY <2>3, <4>1
    <3> QED
      BY <2>3, <3>1, <3>2
  <2>5. p = Front(q)
    BY DEF p, Front
  <2> QED
    BY <2>4, <2>5
<1>3. Last(q) = q[Len(q)] /\ Len(q) \in 1 .. Len(q)
  BY <1>1 DEF Last
<1>4. \A s : s \in ToSet(q) <=> \E i \in 1 .. Len(q) : q[i] = s
  BY EntriesOf
<1>5. \A s : s \in ToSet(Front(q)) <=> \E i \in 1 .. Len(Front(q)) : Front(q)[i] = s
  BY <1>2, EntriesOf
<1>6. \A i \in 1 .. Len(Front(q)) : i \in 1 .. Len(q) /\ Front(q)[i] = q[i] /\ i < Len(q)
  BY <1>1, <1>2
<1>7. \A s : s \in ToSet(q) <=> s = Last(q) \/ s \in ToSet(Front(q))
  <2>1. ASSUME NEW s, s \in ToSet(q), s # Last(q)
        PROVE  s \in ToSet(Front(q))
    <3>1. PICK i \in 1 .. Len(q) : q[i] = s
      BY <1>4, <2>1
    <3>2. i # Len(q)
      BY <1>3, <2>1, <3>1
    <3>3. i \in 1 .. Len(Front(q))
      BY <1>1, <1>2, <3>2
    <3> QED
      BY <1>5, <1>6, <3>1, <3>3
  <2>2. \A s : s \in ToSet(Front(q)) => s \in ToSet(q)
    BY <1>4, <1>5, <1>6
  <2>3. Last(q) \in ToSet(q)
    BY <1>3, <1>4
  <2> QED
    BY <2>1, <2>2, <2>3
<1>8. ASSUME Rising(q)
      PROVE  Rising(Front(q)) /\ \A s \in ToSet(Front(q)) : s < Last(q)
  BY <1>3, <1>5, <1>6, <1>8 DEF Rising
<1>9. Last(q) \in ToSet(q)
  BY <1>7
<1>10. \A i \in 1 .. Len(Front(q)) : i \in 1 .. Len(q) /\ Front(q)[i] = q[i]
  BY <1>6
<1> QED
  BY <1>1, <1>2, <1>3, <1>7, <1>8, <1>9, <1>10

LEMMA AppendOf ==
  ASSUME NEW S \in SUBSET Nat, NEW q \in Seq(S), NEW e \in Nat
  PROVE  /\ Len(Append(q, e)) = Len(q) + 1 /\ Len(q) \in Nat
         /\ Append(q, e)[Len(q) + 1] = e
         /\ \A i \in 1 .. Len(q) : Append(q, e)[i] = q[i]
         /\ \A s : s \in ToSet(Append(q, e)) <=> s = e \/ s \in ToSet(q)
         /\ Rising(q) /\ (\A s \in ToSet(q) : s < e) => Rising(Append(q, e))
<1>1. q \in Seq(Nat) /\ Len(q) \in Nat
  BY SeqMonotonic, LenProperties
<1>2. /\ Append(q, e) \in Seq(Nat) /\ Len(Append(q, e)) = Len(q) + 1
      /\ Append(q, e)[Len(q) + 1] = e
      /\ \A i \in 1 .. Len(q) : Append(q, e)[i] = q[i]
  BY <1>1, AppendProperties
<1>3. \A s : s \in ToSet(q) <=> \E i \in 1 .. Len(q) : q[i] = s
  BY EntriesOf
<1>4. \A s : s \in ToSet(Append(q, e)) <=>
               \E i \in 1 .. Len(Append(q, e)) : Append(q, e)[i] = s
  BY <1>2, EntriesOf
<1> DEFINE p == Append(q, e)
<1> HIDE DEF p
<1>5. \A i : i \in 1 .. Len(p) <=> i \in 1 .. Len(q) \/ i = Len(q) + 1
  BY <1>1, <1>2 DEF p
<1>6. \A s : s \in ToSet(p) <=> s = e \/ s \in ToSet(q)
  BY <1>2, <1>3, <1>4, <1>5 DEF p
<1>7. ASSUME Rising(q), \A s \in ToSet(q) : s < e
      PROVE  Rising(p)
  <2> SUFFICES ASSUME NEW i \in 1 .. Len(p), NEW j \in 1 .. Len(p), i < j
               PROVE  p[i] < p[j]
    BY DEF Rising
  <2>1. i \in 1 .. Len(q)
    BY <1>1, <1>2, <1>5 DEF p
  <2>2. CASE j \in 1 .. Len(q)
    BY <1>2, <1>7, <2>1, <2>2 DEF Rising, p
  <2>3. CASE j = Len(q) + 1
    BY <1>2, <1>3, <1>7, <2>1, <2>3 DEF p
  <2> QED
    BY <1>5, <2>2, <2>3
<1> QED
  BY <1>1, <1>2, <1>6, <1>7 DEF p


----------------------------------------------------------------------------
(* Who has a snapshot: it waits in the queue, a drain has it in hand, or it  *)
(* is done with.  A receipt is waited for only while one of the first two    *)
(* holds, and nothing is written or answered twice.                          *)

\* Between writes a drain holds no snapshot.
AtRest(k) == \A d \in Drains :
  /\ drains[k][d].stage # "none" => drains[k][d].state = "running"
  /\ drains[k][d].stage = "none" => drains[k][d].snap = NoSnap

Untouched(s) == s \notin landed /\ receipts[s] # "failed"

InLine(k) ==
  /\ Rising(queued[k])
  /\ \A s \in ToSet(queued[k]) :
       snapshots[s].key = k /\ Generation(s) <= generations[k] /\ Untouched(s)

HandFacts(k, w) ==
  /\ snapshots[w.snap].key = k /\ Generation(w.snap) <= generations[k]
  /\ \A s \in ToSet(queued[k]) : w.snap < s
  /\ w.stage \in {"writing", "unlinking", "renaming"} => Untouched(w.snap)
  /\ w.stage = "renamed" => w.snap \in landed
  /\ w.stage \in {"abandoning", "discarding", "tidying"} => w.snap \notin waiters[k]
InHand(k) == \A d \in Drains : drains[k][d].stage # "none" => HandFacts(k, drains[k][d])

Held(k, s) == s \in ToSet(queued[k]) \/ \E d \in Drains : /\ drains[k][d].stage # "none"
                                                         /\ drains[k][d].snap = s
Awaited(k) == \A s \in waiters[k] :
  snapshots[s].key = k /\ snapshots[s].checked /\ ~Cancelled(k, Generation(s)) /\ Held(k, s)

Published(k) == inFlightSignature[k] # None => \E d \in Drains : drains[k][d].stage # "none"

Custody(k) == /\ AtRest(k) /\ InLine(k) /\ InHand(k) /\ Awaited(k)
              /\ writtenGeneration[k] <= generations[k] /\ Published(k)

\* The snapshot in hand, and those in line, are snapshots there are.
LEMMA HandTyped ==
  ASSUME TypeOK, NEW k \in Keys, NEW d \in Drains, drains[k][d].stage # "none"
  PROVE  drains[k][d].snap \in SnapsSoFar /\ drains[k][d].snap # NoSnap
         /\ drains[k][d].snap \in SnapIds
<1>1. drains[k][d].snap \in {NoSnap} \cup SnapsSoFar
  BY DEF TypeOK, DrainTypeOK, DrainRecord
<1>2. drains[k][d].snap # NoSnap
  BY DEF TypeOK, DrainTypeOK
<1> QED
  BY <1>1, <1>2, SnapshotTyped DEF TypeOK

LEMMA LineTyped ==
  ASSUME TypeOK, NEW k \in Keys
  PROVE  /\ queued[k] \in Seq(SnapsSoFar) /\ SnapsSoFar \in SUBSET Nat
         /\ Len(snapshots) \in Nat /\ NewSnap \in Nat /\ NewSnap \notin SnapsSoFar
         /\ \A s \in ToSet(queued[k]) : s \in SnapsSoFar /\ s < NewSnap /\ s # NoSnap
<1>1. queued[k] \in Seq(SnapsSoFar)
  BY DEF TypeOK, IntakeTypeOK
<1>2. Len(snapshots) \in Nat
  BY LenProperties DEF TypeOK, IntakeTypeOK
<1>3. \A s \in ToSet(queued[k]) : s \in SnapsSoFar
  BY <1>1, EntriesOf
<1> QED
  BY <1>1, <1>2, <1>3 DEF SnapsSoFar, NewSnap, NoSnap

----------------------------------------------------------------------------
(* What leaves a session's custody alone. *)

\* Drains go on with the snapshots they have; others may come and go.
HandsKept(k) == \A d \in Drains :
  \/ /\ drains'[k][d].stage = drains[k][d].stage /\ drains'[k][d].snap = drains[k][d].snap
     /\ drains'[k][d].state = drains[k][d].state
  \/ drains[k][d].stage = "none" /\ drains'[k][d].stage = "none" /\ drains'[k][d].snap = NoSnap

SnapsKept(k) == \A s \in SnapsSoFar :
  /\ snapshots'[s] = snapshots[s]
  /\ snapshots[s].key = k => receipts'[s] = receipts[s] /\ (s \in landed' <=> s \in landed)

Aside(k) ==
  /\ queued'[k] = queued[k] /\ generations'[k] = generations[k]
  /\ cancelledThrough'[k] = cancelledThrough[k]
  /\ writtenGeneration'[k] = writtenGeneration[k]
  /\ waiters'[k] = waiters[k] /\ inFlightSignature'[k] = inFlightSignature[k]
  /\ SnapsKept(k) /\ HandsKept(k)

LEMMA AsideAtRest ==
  ASSUME NEW k \in Keys, AtRest(k), HandsKept(k)
  PROVE  AtRest(k)'
  BY DEF AtRest, HandsKept

LEMMA AsideHeld ==
  ASSUME NEW k \in Keys, HandsKept(k), NEW s, Held(k, s), s \in ToSet(queued[k]) => s \in ToSet(queued[k])'
  PROVE  Held(k, s)'
<1>1. CASE s \in ToSet(queued[k])
  BY <1>1 DEF Held
<1>2. CASE s \notin ToSet(queued[k])
  <2>1. PICK d \in Drains : drains[k][d].stage # "none" /\ drains[k][d].snap = s
    BY <1>2 DEF Held
  <2>2. drains'[k][d].stage # "none" /\ drains'[k][d].snap = s
    BY <2>1 DEF HandsKept
  <2> QED
    BY <2>2 DEF Held
<1> QED
  BY <1>1, <1>2

LEMMA AsideCustody ==
  ASSUME TypeOK, NEW k \in Keys, Custody(k), Aside(k)
  PROVE  Custody(k)'
<1>1. AtRest(k)'
  BY AsideAtRest DEF Custody, Aside
<1>2. ToSet(queued[k])' = ToSet(queued[k])
  BY DEF Aside
<1>3. \A s \in ToSet(queued[k]) : s \in SnapsSoFar
  BY LineTyped
<1>4. InLine(k)'
  <2>1. Rising(queued[k])'
    BY DEF Custody, InLine, Aside, Rising
  <2>2. ASSUME NEW s \in ToSet(queued[k])
        PROVE  (snapshots[s].key = k /\ Generation(s) <= generations[k] /\ Untouched(s))'
    <3>1. snapshots[s].key = k /\ Generation(s) <= generations[k] /\ Untouched(s)
      BY <2>2 DEF Custody, InLine
    <3> QED
      BY <1>3, <2>2, <3>1 DEF Aside, SnapsKept, Generation, Untouched
  <2> QED
    BY <1>2, <2>1, <2>2 DEF InLine
<1>5. ASSUME NEW d \in Drains, drains'[k][d].stage # "none"
      PROVE  HandFacts(k, drains[k][d])'
  <2>1. /\ drains[k][d].stage # "none" /\ drains'[k][d].stage = drains[k][d].stage
        /\ drains'[k][d].snap = drains[k][d].snap
    BY <1>5 DEF Aside, HandsKept
  <2>2. drains[k][d].snap \in SnapsSoFar
    BY <2>1, HandTyped
  <2>3. HandFacts(k, drains[k][d])
    BY <2>1 DEF Custody, InHand
  <2> QED
    BY <1>2, <2>1, <2>2, <2>3 DEF HandFacts, Aside, SnapsKept, Generation, Untouched
<1>6. ASSUME NEW s \in waiters'[k]
      PROVE  (snapshots[s].key = k /\ snapshots[s].checked /\ ~Cancelled(k, Generation(s))
              /\ Held(k, s))'
  <2>1. s \in waiters[k] /\ s \in SnapsSoFar
    BY <1>6 DEF Aside, TypeOK, OutcomeTypeOK
  <2>2. snapshots[s].key = k /\ snapshots[s].checked /\ ~Cancelled(k, Generation(s)) /\ Held(k, s)
    BY <2>1 DEF Custody, Awaited
  <2>3. Held(k, s)'
    BY <1>2, <2>2, AsideHeld DEF Aside
  <2> QED
    BY <2>1, <2>2, <2>3 DEF Aside, SnapsKept, Cancelled, Generation
<1>7. Published(k)'
  BY DEF Custody, Published, Aside, HandsKept
<1>8. (writtenGeneration[k] <= generations[k])'
  BY DEF Custody, Aside
<1> QED
  BY <1>1, <1>4, <1>5, <1>6, <1>7, <1>8 DEF Custody, InHand, Awaited

LEMMA TailKeepsHands ==
  ASSUME TypeOK, NEW S \in SUBSET Keys, RunOnTail(S), NEW k \in Keys, AtRest(k)
  PROVE  HandsKept(k)
<1>1. CASE k \notin S
  BY <1>1 DEF RunOnTail, HandsKept
<1>2. CASE k \in S
  <2> DEFINE n == NewDrain(k)
  <2>1. n \in Drains /\ drains[k][n].state = "idle"
    BY <1>2, NewDrainIsFree DEF RunOnTail, Active
  <2>2. \A d \in Drains : drains'[k][d] = IF d = n THEN ChainedDrain(k) ELSE drains[k][d]
    BY <1>2, <2>1 DEF RunOnTail, TypeOK, DrainTypeOK
  <2>3. ChainedDrain(k).stage = "none" /\ ChainedDrain(k).snap = NoSnap
    BY DEF ChainedDrain, IdleDrain
  <2>4. drains[k][n].stage = "none"
    BY <2>1 DEF AtRest
  <2> HIDE DEF n
  <2> QED
    BY <2>2, <2>3, <2>4 DEF HandsKept
<1> QED
  BY <1>1, <1>2

LEMMA OtherHandsKept ==
  ASSUME TypeOK, NEW k \in Keys, NEW d \in Drains, NEW r, SetDrain(k, d, r),
         NEW j \in Keys, j # k
  PROVE  HandsKept(j)
  BY DEF SetDrain, TypeOK, DrainTypeOK, HandsKept

LEMMA EndKeepsHands ==
  ASSUME TypeOK, NEW k \in Keys, NEW d \in Drains, DrainEnds(k, d), NEW j \in Keys, AtRest(k)
  PROVE  HandsKept(j)
<1>1. drains' = [drains EXCEPT ![k] =
        [e \in Drains |-> IF e = d THEN IdleDrain
                          ELSE IF @[e].after = d THEN [@[e] EXCEPT !.after = NoDrain]
                          ELSE @[e]]]
  BY DEF DrainEnds, ReleaseSuccessor
<1>2. CASE j # k
  BY <1>1, <1>2 DEF TypeOK, DrainTypeOK, HandsKept
<1>3. CASE j = k
  <2>1. \A e \in Drains : drains'[k][e] = IF e = d THEN IdleDrain
                             ELSE IF drains[k][e].after = d
                                  THEN [drains[k][e] EXCEPT !.after = NoDrain]
                                  ELSE drains[k][e]
    BY <1>1 DEF TypeOK, DrainTypeOK
  <2>2. \A r \in DrainRecord : LET s == [r EXCEPT !.after = NoDrain]
                               IN  s.stage = r.stage /\ s.state = r.state /\ s.snap = r.snap
    BY DEF DrainRecord
  <2>3. \A e \in Drains : drains[k][e] \in DrainRecord
    BY DEF TypeOK, DrainTypeOK
  <2>4. drains[k][d].stage = "none"
    <3>1. drains[k][d].state = "waiting" \/ drains[k][d].stage = "none"
      BY DEF DrainEnds, AtLoop, AtStage
    <3> QED
      BY <3>1 DEF AtRest
  <2>5. IdleDrain.stage = "none" /\ IdleDrain.snap = NoSnap
    BY DEF IdleDrain
  <2>6. ASSUME NEW e \in Drains, e # d
        PROVE  /\ drains'[k][e].stage = drains[k][e].stage
               /\ drains'[k][e].snap = drains[k][e].snap
               /\ drains'[k][e].state = drains[k][e].state
    <3>1. CASE drains[k][e].after = d
      <4>1. drains'[k][e] = [drains[k][e] EXCEPT !.after = NoDrain]
        BY <2>1, <2>6, <3>1
      <4> QED
        BY <2>2, <2>3, <4>1
    <3>2. CASE drains[k][e].after # d
      <4>1. drains'[k][e] = drains[k][e]
        BY <2>1, <2>6, <3>2
      <4> QED
        BY <4>1
    <3> QED
      BY <3>1, <3>2
  <2>7. drains'[k][d].stage = "none" /\ drains'[k][d].snap = NoSnap
    BY <2>1, <2>5
  <2> QED
    BY <1>3, <2>4, <2>6, <2>7 DEF HandsKept
<1> QED
  BY <1>2, <1>3

\* The receipts of one session settle no other's.
LEMMA SettledAside ==
  ASSUME TypeOK, NEW k \in Keys, Awaited(k), NEW S, NEW answer, Settle(k, S, answer),
         NEW j \in Keys, j # k
  PROVE  /\ waiters'[j] = waiters[j]
         /\ \A s \in SnapsSoFar : snapshots[s].key = j => receipts'[s] = receipts[s]
<1>1. waiters'[j] = waiters[j]
  BY DEF Settle, TypeOK, OutcomeTypeOK
<1>2. ASSUME NEW s \in SnapsSoFar, snapshots[s].key = j
      PROVE  receipts'[s] = receipts[s]
  <2>1. s \notin waiters[k] /\ s \in SnapIds
    BY <1>2, SnapshotTyped DEF Awaited, TypeOK
  <2> QED
    BY <2>1 DEF Settle
<1> QED
  BY <1>1, <1>2


----------------------------------------------------------------------------
(* What the operations do to the custody of the session they are about. *)

\* The entry put is the last of its queue; of the others at most a trailing
\* unchecked one is gone.
LEMMA PutLine ==
  ASSUME TypeOK, NEW k \in Keys, Custody(k), NEW header \in Metadata, NEW checked \in BOOLEAN,
         NEW content \in SnapIds, PutEntry(k, header, checked, content)
  PROVE  /\ NewSnap \in SnapIds /\ NewSnap \in Nat
         /\ snapshots'[NewSnap] = Snapshot(k, header, checked, content)
         /\ \A s \in SnapsSoFar : snapshots'[s] = snapshots[s]
         /\ generations'[k] = generations[k] + 1 /\ generations[k] \in Nat
         /\ Rising(queued[k])' /\ NewSnap \in ToSet(queued[k])'
         /\ \A s \in ToSet(queued[k])' : s = NewSnap \/ s \in ToSet(queued[k])
         /\ \A s \in ToSet(queued[k]) :
              \/ s \in ToSet(queued[k])'
              \/ Replaces(k, checked) /\ s = Last(queued[k]) /\ ~snapshots[s].checked
<1> DEFINE kept == IF Replaces(k, checked) THEN Front(queued[k]) ELSE queued[k]
<1>1. NewSnap \in SnapIds /\ NewSnap \in Nat
  BY LineTyped, BoundsAreNat DEF PutEntry, NewSnap, SnapIds
<1>2. /\ snapshots'[NewSnap] = Snapshot(k, header, checked, content)
      /\ \A s \in SnapsSoFar : snapshots'[s] = snapshots[s]
  BY SnapshotsKept DEF PutEntry
<1>3. generations'[k] = generations[k] + 1 /\ generations[k] \in Nat
  BY DEF PutEntry, TypeOK, IntakeTypeOK
<1>4. /\ queued[k] \in Seq(SnapsSoFar) /\ SnapsSoFar \in SUBSET Nat
      /\ \A s \in ToSet(queued[k]) : s < NewSnap
  BY LineTyped
<1>5. /\ kept \in Seq(SnapsSoFar) /\ Rising(kept)
      /\ \A s \in ToSet(kept) : s \in ToSet(queued[k])
      /\ \A s \in ToSet(queued[k]) :
           s \in ToSet(kept) \/ (Replaces(k, checked) /\ s = Last(queued[k]))
  <2>1. CASE Replaces(k, checked)
    <3>1. queued[k] # <<>> /\ kept = Front(queued[k])
      BY <2>1 DEF Replaces
    <3> HIDE DEF kept
    <3> DEFINE q == queued[k]
    <3>2. q \in Seq(SnapsSoFar) /\ SnapsSoFar \in SUBSET Nat /\ q # <<>>
      BY <1>4, <3>1
    <3> HIDE DEF q
    <3>3. /\ Front(q) \in Seq(SnapsSoFar)
          /\ \A s : s \in ToSet(q) <=> s = Last(q) \/ s \in ToSet(Front(q))
          /\ Rising(q) => Rising(Front(q))
      BY <3>2, FrontOf, Zenon
    <3>4. Rising(q) /\ kept = Front(q)
      BY <3>1 DEF Custody, InLine, q
    <3>5. /\ kept \in Seq(SnapsSoFar) /\ Rising(kept)
          /\ \A s \in ToSet(kept) : s \in ToSet(q)
          /\ \A s \in ToSet(q) : s \in ToSet(kept) \/ s = Last(q)
      BY <3>3, <3>4
    <3> HIDE DEF kept
    <3> QED
      BY <2>1, <3>5 DEF q
  <2>2. CASE ~Replaces(k, checked)
    <3>1. Rising(queued[k]) /\ kept = queued[k]
      BY <2>2 DEF Custody, InLine
    <3> HIDE DEF kept
    <3> QED
      BY <1>4, <3>1
  <2> QED
    BY <2>1, <2>2
<1>6. queued'[k] = Append(kept, NewSnap)
  BY DEF PutEntry, TypeOK, IntakeTypeOK
<1> HIDE DEF kept
<1>7. /\ \A s : s \in ToSet(Append(kept, NewSnap)) <=> s = NewSnap \/ s \in ToSet(kept)
      /\ Rising(kept) /\ (\A s \in ToSet(kept) : s < NewSnap) => Rising(Append(kept, NewSnap))
  BY <1>1, <1>4, <1>5, AppendOf
<1>8. Rising(queued[k])'
  <2>1. Rising(Append(kept, NewSnap))
    BY <1>4, <1>5, <1>7
  <2> QED
    BY <1>6, <2>1 DEF Rising
<1>9. ToSet(queued[k])' = ToSet(Append(kept, NewSnap))
  BY <1>6
<1>10. Replaces(k, checked) => ~snapshots[Last(queued[k])].checked
  BY DEF Replaces
<1> QED
  BY <1>1, <1>2, <1>3, <1>5, <1>7, <1>8, <1>9, <1>10

\* Nothing but the queue and, for a checked entry, its receipt changes.
LEMMA PutCustody ==
  ASSUME TypeOK, FreshWritesNotCancelled, NEW k \in Keys, Custody(k),
         NEW header \in Metadata, NEW checked \in BOOLEAN,
         NEW content \in SnapIds, PutEntry(k, header, checked, content),
         HandsKept(k), UNCHANGED <<cancelledThrough, inFlightSignature, landed>>,
         writtenGeneration'[k] = writtenGeneration[k],
         \A s \in SnapsSoFar : receipts'[s] = receipts[s], receipts'[NewSnap] # "failed",
         \/ waiters'[k] = waiters[k]
         \/ checked /\ waiters'[k] = waiters[k] \cup {NewSnap}
  PROVE  Custody(k)'
<1>1. /\ NewSnap \in SnapIds /\ NewSnap \in Nat
      /\ snapshots'[NewSnap] = Snapshot(k, header, checked, content)
      /\ \A s \in SnapsSoFar : snapshots'[s] = snapshots[s]
      /\ generations'[k] = generations[k] + 1 /\ generations[k] \in Nat
      /\ Rising(queued[k])' /\ NewSnap \in ToSet(queued[k])'
      /\ \A s \in ToSet(queued[k])' : s = NewSnap \/ s \in ToSet(queued[k])
      /\ \A s \in ToSet(queued[k]) :
           s \in ToSet(queued[k])' \/ ~snapshots[s].checked
  BY PutLine
<1>2. NewSnap \notin landed /\ NewSnap \notin SnapsSoFar
  BY LineTyped DEF TypeOK, HistoryTypeOK
<1>3. /\ snapshots'[NewSnap].key = k /\ snapshots'[NewSnap].checked = checked
      /\ snapshots'[NewSnap].generation = generations[k] + 1
  BY <1>1 DEF Snapshot
<1>4. \A s \in ToSet(queued[k]) : s \in SnapsSoFar /\ s < NewSnap
  BY LineTyped
<1>5. \A s \in SnapsSoFar : Generation(s) \in Nat /\ s < NewSnap
  BY SnapshotTyped, LineTyped DEF TypeOK, SnapsSoFar, NewSnap
<1>6. AtRest(k)'
  BY AsideAtRest DEF Custody
<1>7. InLine(k)'
  <2>1. ASSUME NEW s \in ToSet(queued[k])'
        PROVE  (snapshots[s].key = k /\ Generation(s) <= generations[k] /\ Untouched(s))'
    <3>1. CASE s = NewSnap
      BY <1>1, <1>2, <1>3, <3>1 DEF Generation, Untouched
    <3>2. CASE s \in ToSet(queued[k])
      <4>1. snapshots[s].key = k /\ Generation(s) <= generations[k] /\ Untouched(s)
        BY <3>2 DEF Custody, InLine
      <4>2. s \in SnapsSoFar /\ Generation(s) \in Nat
        BY <1>4, <1>5, <3>2
      <4> QED
        BY <1>1, <4>1, <4>2 DEF Generation, Untouched
    <3> QED
      BY <1>1, <3>1, <3>2
  <2> QED
    BY <1>1, <2>1 DEF InLine
<1>8. ASSUME NEW d \in Drains, drains'[k][d].stage # "none"
      PROVE  HandFacts(k, drains[k][d])'
  <2> DEFINE w == drains[k][d]
  <2>1. w.stage # "none" /\ drains'[k][d].stage = w.stage /\ drains'[k][d].snap = w.snap
    BY <1>8 DEF HandsKept
  <2>2. w.snap \in SnapsSoFar /\ Generation(w.snap) \in Nat /\ w.snap < NewSnap
    BY <1>5, <2>1, HandTyped
  <2>3. HandFacts(k, w)
    BY <2>1 DEF Custody, InHand
  <2>4. (snapshots[w.snap].key = k /\ Generation(w.snap) <= generations[k])'
    BY <1>1, <2>1, <2>2, <2>3 DEF HandFacts, Generation
  <2>5. \A s \in ToSet(queued[k])' : drains'[k][d].snap < s
    BY <1>1, <2>1, <2>2, <2>3 DEF HandFacts
  <2>6. (w.stage \in {"writing", "unlinking", "renaming"} => Untouched(w.snap))'
    BY <2>1, <2>2, <2>3 DEF HandFacts, Untouched
  <2>7. /\ (w.stage = "renamed" => w.snap \in landed)'
        /\ (w.stage \in {"abandoning", "discarding", "tidying"} => w.snap \notin waiters[k])'
    BY <1>2, <2>1, <2>2, <2>3 DEF HandFacts
  <2> QED
    BY <2>4, <2>5, <2>6, <2>7 DEF HandFacts
<1>9. ASSUME NEW s \in waiters'[k]
      PROVE  (snapshots[s].key = k /\ snapshots[s].checked /\ ~Cancelled(k, Generation(s))
              /\ Held(k, s))'
  <2>1. CASE s \in waiters[k]
    <3>1. s \in SnapsSoFar
      BY <2>1 DEF TypeOK, OutcomeTypeOK
    <3>2. /\ snapshots[s].key = k /\ snapshots[s].checked /\ ~Cancelled(k, Generation(s))
          /\ Held(k, s)
      BY <2>1 DEF Custody, Awaited
    <3>3. Held(k, s)'
      BY <1>1, <3>2, AsideHeld
    <3> QED
      BY <1>1, <3>1, <3>2, <3>3, Zenon DEF Cancelled, Generation
  <2>2. CASE s = NewSnap /\ checked
    <3>1. Held(k, s)'
      BY <1>1, <2>2 DEF Held
    <3>2. ~Cancelled(k, Generation(s))'
      <4>1. /\ cancelledThrough[k].delete <= generations[k]
            /\ cancelledThrough[k].supersede <= generations[k]
            /\ cancelledThrough[k].delete \in Nat /\ cancelledThrough[k].supersede \in Nat
        BY DEF FreshWritesNotCancelled, TypeOK, IntakeTypeOK
      <4>2. snapshots'[s].generation = generations[k] + 1 /\ generations[k] \in Nat
        BY <1>1, <1>3, <2>2
      <4>3. cancelledThrough' = cancelledThrough
        OBVIOUS
      <4> QED
        BY <4>1, <4>2, <4>3 DEF Cancelled, Generation
    <3> QED
      BY <1>3, <2>2, <3>1, <3>2
  <2> QED
    BY <1>9, <2>1, <2>2
<1>10. Published(k)'
  BY DEF Custody, Published, HandsKept
<1>11. (writtenGeneration[k] <= generations[k])'
  BY <1>1 DEF Custody, TypeOK, OutcomeTypeOK
<1> QED
  BY <1>6, <1>7, <1>8, <1>9, <1>10, <1>11 DEF Custody, InHand, Awaited

\* A receipt asked for is never answered at once: its generation is the newest.
LEMMA ReceiptWaits ==
  ASSUME TypeOK, FreshWritesNotCancelled, NEW k \in Keys, ReceiptFor(k), NewSnap \in SnapIds,
         writtenGeneration[k] <= generations[k]
  PROVE  /\ receipts' = [receipts EXCEPT ![NewSnap] = "waiting"]
         /\ waiters' = [waiters EXCEPT ![k] = @ \cup {NewSnap}]
<1>1. /\ generations[k] \in Nat /\ writtenGeneration[k] \in Nat
      /\ cancelledThrough[k].delete \in Nat /\ cancelledThrough[k].supersede \in Nat
      /\ cancelledThrough[k].delete <= generations[k]
      /\ cancelledThrough[k].supersede <= generations[k]
  BY DEF TypeOK, IntakeTypeOK, OutcomeTypeOK, FreshWritesNotCancelled
<1>2. ~Cancelled(k, generations[k] + 1)
  BY <1>1 DEF Cancelled
<1>3. writtenGeneration[k] < generations[k] + 1
  BY <1>1
<1> QED
  BY <1>2, <1>3 DEF ReceiptFor

\* A checked write, and the retry of a failed one.
LEMMA DriveCustody ==
  ASSUME TypeOK, FreshWritesNotCancelled, NEW k \in Keys, NEW j \in Keys, \A i \in Keys : Custody(i),
         NEW header \in Metadata, NEW content \in SnapIds, EnqueueAndDrive(k, header, content),
         UNCHANGED <<cancelledThrough, inFlightSignature, landed, writtenGeneration>>
  PROVE  Custody(j)'
<1>1. NewSnap \in SnapIds /\ NewSnap \notin SnapsSoFar
  BY PutLine, LineTyped DEF EnqueueAndDrive
<1>2. /\ receipts' = [receipts EXCEPT ![NewSnap] = "waiting"]
      /\ waiters' = [waiters EXCEPT ![k] = @ \cup {NewSnap}]
  BY <1>1, ReceiptWaits DEF EnqueueAndDrive, Custody
<1>3. \A s \in SnapsSoFar : receipts'[s] = receipts[s]
  <2>1. \A s \in SnapsSoFar : s \in SnapIds
    BY SnapshotTyped DEF TypeOK
  <2> QED
    BY <1>1, <1>2, <2>1 DEF TypeOK, OutcomeTypeOK
<1>4. HandsKept(j)
  BY TailKeepsHands DEF EnqueueAndDrive, Custody
<1>5. CASE j = k
  <2>1. waiters'[k] = waiters[k] \cup {NewSnap} /\ receipts'[NewSnap] # "failed"
    BY <1>1, <1>2 DEF TypeOK, OutcomeTypeOK
  <2>2. PutEntry(k, header, TRUE, content)
    BY DEF EnqueueAndDrive
  <2> QED
    BY <1>3, <1>4, <1>5, <2>1, <2>2, PutCustody
<1>6. CASE j # k
  <2>1. \A s \in SnapsSoFar : snapshots'[s] = snapshots[s]
    BY SnapshotsKept DEF EnqueueAndDrive, PutEntry
  <2>2. queued'[j] = queued[j] /\ generations'[j] = generations[j] /\ waiters'[j] = waiters[j]
    BY <1>2, <1>6 DEF EnqueueAndDrive, PutEntry, TypeOK, IntakeTypeOK, OutcomeTypeOK
  <2>3. Aside(j)
    BY <1>3, <1>4, <2>1, <2>2 DEF Aside, SnapsKept
  <2> QED
    BY <2>3, AsideCustody
<1> QED
  BY <1>5, <1>6


Unasked == \A s \in SnapIds : s > Len(snapshots) => receipts[s] = "none"

\* A debounced write.
LEMMA EnqueueCustody ==
  ASSUME TypeOK, FreshWritesNotCancelled, Unasked, NEW k \in Keys, NEW j \in Keys,
         \A i \in Keys : Custody(i), NEW header \in Metadata, Enqueue(k, header)
  PROVE  Custody(j)'
<1>1. /\ PutEntry(k, header, FALSE, NewSnap)
      /\ UNCHANGED <<waiters, receipts, writtenGeneration, inFlightSignature, landed, drains,
                     cancelledThrough>>
  BY DEF Enqueue, receiptVars, outcomeVars, baselineVars, historyVars
<1>2. NewSnap \in SnapIds
  BY LineTyped, BoundsAreNat DEF Enqueue, PutEntry, NewSnap, SnapIds
<1>3. HandsKept(j)
  BY <1>1 DEF HandsKept
<1>4. CASE j = k
  <2>1. receipts'[NewSnap] # "failed"
    BY <1>1, <1>2, LineTyped DEF Unasked, NewSnap
  <2> QED
    BY <1>1, <1>2, <1>3, <1>4, <2>1, PutCustody
<1>5. CASE j # k
  <2>1. \A s \in SnapsSoFar : snapshots'[s] = snapshots[s]
    BY <1>1, <1>2, SnapshotsKept DEF PutEntry
  <2>2. queued'[j] = queued[j] /\ generations'[j] = generations[j]
    BY <1>1, <1>5 DEF PutEntry, TypeOK, IntakeTypeOK
  <2>3. Aside(j)
    BY <1>1, <1>3, <2>1, <2>2 DEF Aside, SnapsKept
  <2> QED
    BY <2>3, AsideCustody
<1> QED
  BY <1>4, <1>5

\* Nobody at work where no tail is left, and nobody but the tail's owner where
\* that one is the first.
LEMMA NoTailNoDrain ==
  ASSUME ChainInv, NEW k \in Keys, tails[k] = NoDrain
  PROVE  \A d \in Drains : drains[k][d].state = "idle"
<1>1. PICK q \in Seq(Drains) : IsChain(k, q)
  BY DEF ChainInv
<1>2. Len(q) \in Nat /\ \A i \in 1 .. Len(q) : q[i] # NoDrain
  BY <1>1, ChainFacts
<1>3. Len(q) = 0
  <2> SUFFICES ASSUME Len(q) # 0 PROVE FALSE
    OBVIOUS
  <2>1. tails[k] = q[Len(q)] /\ Len(q) \in 1 .. Len(q)
    BY <1>1, <1>2 DEF IsChain
  <2> QED
    BY <1>2, <2>1
<1> QED
  BY <1>1, <1>3 DEF IsChain

LEMMA SoleDrain ==
  ASSUME ChainInv, NEW k \in Keys, NEW d \in Drains, AtLoop(k, d), tails[k] = d
  PROVE  \A e \in Drains : e # d => drains[k][e].state = "idle"
<1>1. PICK q \in Seq(Drains) : IsChain(k, q)
  BY DEF ChainInv
<1>2. Len(q) \in Nat /\ \A i \in 1 .. Len(q) : q[i] # NoDrain
  BY <1>1, ChainFacts
<1>3. Len(q) >= 1 /\ q[1] = d
  BY <1>1, WorkingIsFirst DEF AtLoop, AtStage
<1>4. q[Len(q)] = d
  BY <1>1, <1>2, <1>3 DEF IsChain
<1>5. 1 \in 1 .. Len(q) /\ Len(q) \in 1 .. Len(q)
  BY <1>2, <1>3
<1>6. Len(q) = 1
  <2>1. \A h, i \in 1 .. Len(q) : q[h] = q[i] => h = i
    BY <1>1 DEF IsChain
  <2> QED
    BY <1>3, <1>4, <1>5, <2>1
<1>7. \A i \in 1 .. Len(q) : q[i] = d
  BY <1>3, <1>6
<1> QED
  BY <1>1, <1>7 DEF IsChain

\* At work on a write: nobody else of the session is.
LEMMA SoleHand ==
  ASSUME TypeOK, ChainInv, NEW k \in Keys, AtRest(k), NEW d \in Drains, NEW e \in Drains,
         drains[k][d].state = "running", drains[k][e].stage # "none"
  PROVE  e = d
<1>1. drains[k][e].state = "running"
  BY DEF AtRest
<1> QED
  BY <1>1, ChainGivesOneWriter DEF OneWriterPerKey, Running

LEMMA AbsorbCustody ==
  ASSUME TypeOK, FreshWritesNotCancelled, Unasked, NEW k \in Keys, NEW j \in Keys,
         \A i \in Keys : Custody(i), NEW seen \in Metadata, NEW header \in Metadata,
         AbsorbExternal(k, seen, header)
  PROVE  Custody(j)'
<1>1. /\ Settle(k, waiters[k], "superseded")
      /\ snapshots' = Append(snapshots, Snapshot(k, header, FALSE, NewSnap))
      /\ UNCHANGED <<writtenGeneration, inFlightSignature, drains, landed>>
  BY DEF AbsorbExternal, StopPendingWrites, outcomeVars
<1>2. NewSnap \in SnapIds /\ NewSnap \in Nat /\ NewSnap \notin SnapsSoFar
  BY LineTyped, BoundsAreNat DEF AbsorbExternal, Room, NewSnap, SnapIds
<1>3. /\ \A s \in SnapsSoFar : snapshots'[s] = snapshots[s]
      /\ snapshots'[NewSnap] = Snapshot(k, header, FALSE, NewSnap)
  BY <1>1, <1>2, SnapshotsKept
<1>4. HandsKept(j)
  BY <1>1 DEF HandsKept
<1>5. CASE j # k
  <2>1. /\ queued'[j] = queued[j] /\ generations'[j] = generations[j]
        /\ cancelledThrough'[j] = cancelledThrough[j]
    BY <1>5 DEF AbsorbExternal, StopPendingWrites, TypeOK, IntakeTypeOK
  <2>2. /\ waiters'[j] = waiters[j]
        /\ \A s \in SnapsSoFar : snapshots[s].key = j => receipts'[s] = receipts[s]
    BY <1>1, <1>5, SettledAside DEF Custody
  <2>3. Aside(j)
    BY <1>1, <1>3, <1>4, <2>1, <2>2 DEF Aside, SnapsKept
  <2> QED
    BY <2>3, AsideCustody
<1>6. CASE j = k
  <2>1. /\ queued'[k] = <<NewSnap>> /\ generations'[k] = generations[k] + 1
        /\ generations[k] \in Nat
    BY DEF AbsorbExternal, TypeOK, IntakeTypeOK
  <2>2. waiters'[k] = {} /\ \A s \in SnapIds : receipts'[s] = receipts[s]
                                             \/ receipts'[s] = "superseded"
    BY <1>1 DEF Settle, TypeOK, OutcomeTypeOK
  <2>3. Rising(queued[k])' /\ ToSet(queued[k])' = {NewSnap}
    <3>1. Rising(<<NewSnap>>) /\ ToSet(<<NewSnap>>) = {NewSnap}
      BY OneEntry
    <3> QED
      BY <2>1, <3>1 DEF Rising
  <2>4. InLine(k)'
    <3>1. snapshots'[NewSnap].key = k /\ snapshots'[NewSnap].generation = generations[k] + 1
      BY <1>3 DEF Snapshot
    <3>2. NewSnap \notin landed
      BY <1>2 DEF TypeOK, HistoryTypeOK
    <3>3. receipts[NewSnap] = "none"
      BY <1>2, LineTyped DEF Unasked, NewSnap
    <3>4. receipts'[NewSnap] # "failed"
      BY <1>2, <2>2, <3>3
    <3>5. PICK n : n = NewSnap
      OBVIOUS
    <3>6. Untouched(n)'
      BY <1>1, <3>2, <3>4, <3>5 DEF Untouched
    <3>7. (snapshots[n].key = k /\ Generation(n) <= generations[k])'
      BY <2>1, <3>1, <3>5 DEF Generation
    <3> QED
      BY <2>3, <3>5, <3>6, <3>7 DEF InLine
  <2>5. ASSUME NEW d \in Drains, drains'[k][d].stage # "none"
        PROVE  HandFacts(k, drains[k][d])'
    <3> DEFINE w == drains[k][d]
    <3>1. w.stage # "none" /\ drains'[k][d] = w
      BY <1>1, <2>5
    <3>2. w.snap \in SnapsSoFar /\ w.snap \in SnapIds
      BY <3>1, HandTyped
    <3>3. HandFacts(k, w)
      BY <3>1 DEF Custody, InHand
    <3>4. Generation(w.snap) \in Nat /\ w.snap < NewSnap
      BY <3>2, SnapshotTyped, LineTyped DEF TypeOK, SnapsSoFar, NewSnap
    <3>5. (snapshots[w.snap].key = k /\ Generation(w.snap) <= generations[k])'
      BY <1>3, <2>1, <3>1, <3>2, <3>3, <3>4 DEF HandFacts, Generation
    <3>6. \A s \in ToSet(queued[k])' : drains'[k][d].snap < s
      BY <2>3, <3>1, <3>4
    <3>7. (w.stage \in {"writing", "unlinking", "renaming"} => Untouched(w.snap))'
      BY <1>1, <2>2, <3>1, <3>2, <3>3 DEF HandFacts, Untouched
    <3>8. /\ (w.stage = "renamed" => w.snap \in landed)'
          /\ (w.stage \in {"abandoning", "discarding", "tidying"} => w.snap \notin waiters[k])'
      BY <1>1, <2>2, <3>1, <3>3 DEF HandFacts
    <3> QED
      BY <3>5, <3>6, <3>7, <3>8 DEF HandFacts
  <2>6. AtRest(k)' /\ Published(k)'
    BY <1>1 DEF Custody, AtRest, Published
  <2>7. Awaited(k)'
    BY <2>2 DEF Awaited
  <2>8. (writtenGeneration[k] <= generations[k])'
    BY <1>1, <2>1 DEF Custody, TypeOK, OutcomeTypeOK
  <2> QED
    BY <1>6, <2>4, <2>5, <2>6, <2>7, <2>8 DEF Custody, InHand
<1> QED
  BY <1>5, <1>6

\* A session with an empty queue, no receipt awaited and nobody at work.
LEMMA IdleCustody ==
  ASSUME NEW k \in Keys, AtRest(k)', queued'[k] = <<>>, waiters'[k] = {},
         writtenGeneration'[k] <= generations'[k], Published(k)',
         \A d \in Drains : drains'[k][d].stage = "none"
  PROVE  Custody(k)'
<1>1. Rising(<<>>) /\ ToSet(<<>>) = {}
  BY RisingEmpty
<1>2. Rising(queued[k])' /\ ToSet(queued[k])' = {}
  BY <1>1 DEF Rising
<1> QED
  BY <1>2 DEF Custody, InLine, InHand, Awaited

LEMMA DeleteCustody ==
  ASSUME TypeOK, ChainInv, NEW k \in Keys, NEW j \in Keys, \A i \in Keys : Custody(i),
         DeleteSession(k)
  PROVE  Custody(j)'
<1>1. /\ Settle(k, waiters[k], "deleted") /\ queued' = [queued EXCEPT ![k] = <<>>]
      /\ inFlightSignature' = [inFlightSignature EXCEPT ![k] = None]
      /\ UNCHANGED <<snapshots, drains, landed>>
  BY DEF DeleteSession, StopPendingWrites
<1>2. HandsKept(j)
  BY <1>1 DEF HandsKept
<1>3. CASE j # k
  <2>1. /\ queued'[j] = queued[j] /\ generations'[j] = generations[j]
        /\ cancelledThrough'[j] = cancelledThrough[j]
        /\ writtenGeneration'[j] = writtenGeneration[j]
        /\ inFlightSignature'[j] = inFlightSignature[j]
    <3>1. queued'[j] = queued[j] /\ inFlightSignature'[j] = inFlightSignature[j]
      BY <1>1, <1>3 DEF TypeOK, IntakeTypeOK, BaselineTypeOK
    <3>2. CASE Retire(k)
      BY <1>3, <3>1, <3>2 DEF Retire, TypeOK, IntakeTypeOK, OutcomeTypeOK
    <3>3. CASE /\ StopPendingWrites(k, "delete", "deleted")
               /\ UNCHANGED <<generations, writtenGeneration>>
      BY <1>3, <3>1, <3>3 DEF StopPendingWrites, TypeOK, IntakeTypeOK
    <3> QED
      BY <3>2, <3>3 DEF DeleteSession
  <2>2. /\ waiters'[j] = waiters[j]
        /\ \A s \in SnapsSoFar : snapshots[s].key = j => receipts'[s] = receipts[s]
    BY <1>1, <1>3, SettledAside DEF Custody
  <2>3. Aside(j)
    BY <1>1, <1>2, <2>1, <2>2 DEF Aside, SnapsKept
  <2> QED
    BY <2>3, AsideCustody
<1>4. CASE j = k
  <2>1. /\ queued'[k] = <<>> /\ waiters'[k] = {} /\ inFlightSignature'[k] = None
        /\ \A s \in SnapIds : receipts'[s] = receipts[s] \/ receipts'[s] = "deleted"
    BY <1>1 DEF Settle, TypeOK, IntakeTypeOK, OutcomeTypeOK, BaselineTypeOK
  <2>2. AtRest(k)' /\ Published(k)'
    BY <1>1, <2>1 DEF Custody, AtRest, Published
  <2>3. CASE tails[k] = NoDrain
    <3>1. \A d \in Drains : drains'[k][d].stage = "none"
      BY <1>1, <2>3, NoTailNoDrain DEF Custody, AtRest
    <3>2. generations'[k] = 0 /\ writtenGeneration'[k] = 0
      BY <2>3 DEF DeleteSession, Retire, TypeOK, IntakeTypeOK, OutcomeTypeOK
    <3> QED
      BY <1>4, <2>1, <2>2, <3>1, <3>2, IdleCustody
  <2>4. CASE tails[k] # NoDrain
    <3>1. UNCHANGED <<generations, writtenGeneration>>
      BY <2>4 DEF DeleteSession
    <3>2. Rising(<<>>) /\ ToSet(<<>>) = {}
      BY RisingEmpty
    <3>3. Rising(queued[k])' /\ ToSet(queued[k])' = {}
      BY <2>1, <3>2 DEF Rising
    <3>4. InLine(k)' /\ Awaited(k)'
      BY <2>1, <3>3 DEF InLine, Awaited
    <3>5. ASSUME NEW d \in Drains, drains'[k][d].stage # "none"
          PROVE  HandFacts(k, drains[k][d])'
      <4>1. drains[k][d].stage # "none" /\ drains' = drains
        BY <1>1, <3>5
      <4>2. drains[k][d].snap \in SnapIds /\ HandFacts(k, drains[k][d])
        BY <4>1, HandTyped DEF Custody, InHand
      <4> QED
        BY <1>1, <2>1, <3>1, <3>3, <4>1, <4>2 DEF HandFacts, Generation, Untouched
    <3> QED
      BY <1>4, <2>2, <3>1, <3>4, <3>5 DEF Custody, InHand
  <2> QED
    BY <2>3, <2>4
<1> QED
  BY <1>3, <1>4


\* Nothing in line is cancelled, so a write that begins takes its entry in hand.
LEMMA WriteStarts ==
  ASSUME TypeOK, FreshWritesNotCancelled, NEW k \in Keys, NEW d \in Drains, WriteBegins(k, d)
  PROVE  /\ StartWrite(k, d, Head(queued[k]))
         /\ drains'[k][d].state = "running" /\ drains'[k][d].stage = "writing"
         /\ drains'[k][d].snap = Head(queued[k])
         /\ drains'[k][d].remaining = WritesLeft(k, d) - 1
         /\ \A j \in Keys, e \in Drains : ~(j = k /\ e = d) => drains'[j][e] = drains[j][e]
<1> DEFINE s == Head(queued[k])
<1>1. ~Cancelled(k, Generation(s))
  <2>1. s \in ToSet(queued[k])
    BY LineTyped, TailOf DEF WriteBegins
  <2> QED
    BY <2>1 DEF FreshWritesNotCancelled
<1>2. StartWrite(k, d, s)
  BY <1>1 DEF WriteBegins
<1> HIDE DEF s
<1> DEFINE header == Resolve(snapshots[s].header,
                       IF disk[k] # None /\ committedMetadata[k] # None
                          /\ disk[k].header # committedMetadata[k]
                       THEN disk[k].header ELSE None,
                       pendingExternalMetadata[k], committedMetadata[k])
           seen == IF pendingExternalMetadata[k] = None THEN 0
                                                        ELSE pendingExternalMetadata[k].seq
           left == WritesLeft(k, d) - 1
           r == [drains[k][d] EXCEPT !.state = "running", !.stage = "writing",
                   !.remaining = left, !.snap = s, !.header = header, !.observed = seen]
<1>3. SetDrain(k, d, r)
  BY <1>2 DEF StartWrite
<1>4. r.state = "running" /\ r.stage = "writing" /\ r.snap = s /\ r.remaining = left
  <2>1. drains[k][d] \in DrainRecord
    BY DEF TypeOK, DrainTypeOK
  <2> HIDE DEF header, seen, left
  <2> QED
    BY <2>1 DEF DrainRecord
<1> HIDE DEF r
<1>5. /\ drains'[k][d] = r
      /\ \A j \in Keys, e \in Drains : ~(j = k /\ e = d) => drains'[j][e] = drains[j][e]
  BY <1>3 DEF SetDrain, TypeOK, DrainTypeOK
<1> QED
  BY <1>2, <1>4, <1>5 DEF s

LEMMA BeginCustody ==
  ASSUME TypeOK, FreshWritesNotCancelled, ChainInv, NEW k \in Keys, NEW d \in Drains,
         NEW j \in Keys, \A i \in Keys : Custody(i), WriteBegins(k, d)
  PROVE  Custody(j)'
<1>1. PICK s : s = Head(queued[k])
  OBVIOUS
<1>2. /\ StartWrite(k, d, s)
      /\ drains'[k][d].state = "running" /\ drains'[k][d].stage = "writing"
      /\ drains'[k][d].snap = s
      /\ \A i \in Keys, e \in Drains : ~(i = k /\ e = d) => drains'[i][e] = drains[i][e]
  BY <1>1, WriteStarts
<1>3. /\ queued' = [queued EXCEPT ![k] = Tail(@)] /\ queued[k] # <<>>
      /\ UNCHANGED <<snapshots, generations, cancelledThrough, landed, writtenGeneration,
                     waiters, receipts>>
  BY <1>2, <1>1 DEF WriteBegins, StartWrite, historyVars, receiptVars
<1>4. CASE j # k
  <2>1. queued'[j] = queued[j] /\ inFlightSignature'[j] = inFlightSignature[j]
    BY <1>2, <1>3, <1>4 DEF StartWrite, TypeOK, IntakeTypeOK, BaselineTypeOK
  <2>2. HandsKept(j)
    BY <1>2, <1>4 DEF HandsKept
  <2>3. Aside(j)
    BY <1>3, <2>1, <2>2 DEF Aside, SnapsKept
  <2> QED
    BY <2>3, AsideCustody
<1>5. CASE j = k
  <2> DEFINE rest == Tail(queued[k])
  <2>1. drains[k][d].stage = "none"
    BY <1>5 DEF WriteBegins, AtLoop, AtStage, Custody, AtRest
  <2>2. /\ queued[k] \in Seq(SnapsSoFar) /\ SnapsSoFar \in SUBSET Nat /\ Rising(queued[k])
    BY LineTyped DEF Custody, InLine
  <2>3. /\ s \in ToSet(queued[k]) /\ Rising(rest)
        /\ \A t : t \in ToSet(queued[k]) <=> t = s \/ t \in ToSet(rest)
        /\ \A t \in ToSet(rest) : s < t
    BY <1>1, <1>3, <2>2, TailOf
  <2>4. queued'[k] = rest
    BY <1>3 DEF TypeOK, IntakeTypeOK
  <2> HIDE DEF rest
  <2>5. Rising(queued[k])' /\ ToSet(queued[k])' = ToSet(rest)
    BY <2>3, <2>4 DEF Rising
  <2>6. InLine(k)'
    BY <1>3, <2>3, <2>5 DEF InLine, Custody, Generation, Untouched
  <2>7. AtRest(k)'
    BY <1>2, <2>2, LineTyped, <2>3 DEF AtRest, Custody
  <2>8. ASSUME NEW e \in Drains, drains'[k][e].stage # "none"
        PROVE  HandFacts(k, drains[k][e])'
    <3>1. CASE e = d
      <4>1. snapshots[s].key = k /\ Generation(s) <= generations[k] /\ Untouched(s)
        BY <2>3 DEF Custody, InLine
      <4> QED
        BY <1>2, <1>3, <2>3, <2>5, <3>1, <4>1 DEF HandFacts, Generation, Untouched
    <3>2. CASE e # d
      <4>1. drains'[k][e] = drains[k][e]
        BY <1>2, <3>2
      <4>2. HandFacts(k, drains[k][e])
        BY <2>8, <4>1 DEF Custody, InHand
      <4>3. \A t \in ToSet(queued[k])' : drains[k][e].snap < t
        BY <2>3, <2>5, <4>2 DEF HandFacts
      <4> QED
        BY <1>3, <4>1, <4>2, <4>3 DEF HandFacts, Generation, Untouched
    <3> QED
      BY <3>1, <3>2
  <2>9. ASSUME NEW t \in waiters'[k]
        PROVE  (snapshots[t].key = k /\ snapshots[t].checked /\ ~Cancelled(k, Generation(t))
                /\ Held(k, t))'
    <3>1. /\ snapshots[t].key = k /\ snapshots[t].checked /\ ~Cancelled(k, Generation(t))
          /\ Held(k, t)
      BY <1>3, <2>9 DEF Custody, Awaited
    <3>2. Held(k, t)'
      <4>1. CASE t = s
        BY <1>2, <4>1 DEF Held
      <4>2. CASE t \in ToSet(rest)
        BY <2>5, <4>2 DEF Held
      <4>3. CASE \E e \in Drains : drains[k][e].stage # "none" /\ drains[k][e].snap = t
        <5>1. PICK e \in Drains : drains[k][e].stage # "none" /\ drains[k][e].snap = t
          BY <4>3
        <5>2. drains'[k][e] = drains[k][e]
          BY <1>2, <2>1, <5>1
        <5> QED
          BY <5>1, <5>2 DEF Held
      <4> QED
        BY <2>3, <3>1, <4>1, <4>2, <4>3 DEF Held
    <3> QED
      BY <1>3, <3>1, <3>2 DEF Cancelled, Generation
  <2>10. Published(k)'
    BY <1>2 DEF Published
  <2>11. (writtenGeneration[k] <= generations[k])'
    BY <1>3 DEF Custody
  <2> QED
    BY <1>5, <2>6, <2>7, <2>8, <2>9, <2>10, <2>11 DEF Custody, InHand, Awaited
<1> QED
  BY <1>4, <1>5

\* A write moves on with its snapshot in hand.
LEMMA MoveCustody ==
  ASSUME TypeOK, ChainInv, NEW k \in Keys, NEW d \in Drains, NEW j \in Keys,
         \A i \in Keys : Custody(i), drains[k][d].state = "running",
         drains[k][d].stage # "none",
         NEW r, SetDrain(k, d, r), r.state = "running", r.snap = drains[k][d].snap,
         r.stage # "none",
         UNCHANGED <<snapshots, queued, generations, cancelledThrough, waiters, receipts,
                     writtenGeneration>>,
         \/ UNCHANGED inFlightSignature
         \/ inFlightSignature' = [inFlightSignature EXCEPT ![k] = None],
         \/ UNCHANGED landed
         \/ landed' = landed \cup {drains[k][d].snap} /\ r.stage = "renamed",
         r.stage \in {"writing", "unlinking", "renaming"} =>
           drains[k][d].stage \in {"writing", "unlinking", "renaming"},
         r.stage = "renamed" => drains[k][d].snap \in landed',
         r.stage \in {"abandoning", "discarding", "tidying"} => drains[k][d].snap \notin waiters[k]
  PROVE  Custody(j)'
<1>1. drains[k][d].snap \in SnapsSoFar /\ HandFacts(k, drains[k][d])
  BY HandTyped DEF Custody, InHand
<1>2. PICK s \in SnapsSoFar : s = drains[k][d].snap
  BY <1>1
<1>3. /\ drains'[k][d] = r
      /\ \A i \in Keys, e \in Drains : ~(i = k /\ e = d) => drains'[i][e] = drains[i][e]
  BY DEF SetDrain, TypeOK, DrainTypeOK
<1>4. landed' = landed \/ landed' = landed \cup {s}
  BY <1>2
<1>5. CASE j # k
  <2>1. HandsKept(j)
    BY <1>3, <1>5 DEF HandsKept
  <2>2. inFlightSignature'[j] = inFlightSignature[j]
    BY <1>5 DEF TypeOK, BaselineTypeOK
  <2>3. SnapsKept(j)
    BY <1>1, <1>2, <1>4, <1>5 DEF SnapsKept, HandFacts
  <2>4. Aside(j)
    BY <2>1, <2>2, <2>3 DEF Aside
  <2> QED
    BY <2>4, AsideCustody
<1>6. CASE j = k
  <2>1. AtRest(k)'
    BY <1>3 DEF Custody, AtRest
  <2>2. \A t \in ToSet(queued[k]) : s < t /\ t \in SnapsSoFar
    BY <1>1, <1>2, LineTyped DEF HandFacts
  <2>3. ASSUME NEW t \in ToSet(queued[k])
        PROVE  t # s
    BY <2>2, LineTyped
  <2>4. InLine(k)'
    <3>1. Rising(queued[k])' /\ ToSet(queued[k])' = ToSet(queued[k])
      BY DEF Custody, InLine, Rising
    <3>2. \A t \in ToSet(queued[k]) : Untouched(t) => Untouched(t)'
      BY <1>4, <2>3 DEF Untouched
    <3> QED
      BY <3>1, <3>2 DEF Custody, InLine, Generation
  <2>5. ASSUME NEW e \in Drains, drains'[k][e].stage # "none"
        PROVE  HandFacts(k, drains[k][e])'
    <3>1. e = d
      <4>1. CASE e # d
        <5>1. drains[k][e].stage # "none"
          BY <1>3, <2>5, <4>1
        <5> QED
          BY <4>1, <5>1, SoleHand DEF Custody
      <4> QED
        BY <4>1
    <3>2. (snapshots[s].key = k /\ Generation(s) <= generations[k])'
      BY <1>1, <1>2 DEF HandFacts, Generation
    <3>3. \A t \in ToSet(queued[k])' : s < t
      BY <2>2
    <3>4. r.stage \in {"writing", "unlinking", "renaming"} => Untouched(s)'
      BY <1>1, <1>2, <1>4 DEF HandFacts, Untouched
    <3> QED
      BY <1>2, <1>3, <3>1, <3>2, <3>3, <3>4 DEF HandFacts
  <2>6. ASSUME NEW t \in waiters'[k]
        PROVE  (snapshots[t].key = k /\ snapshots[t].checked /\ ~Cancelled(k, Generation(t))
                /\ Held(k, t))'
    <3>1. /\ snapshots[t].key = k /\ snapshots[t].checked /\ ~Cancelled(k, Generation(t))
          /\ Held(k, t)
      BY <2>6 DEF Custody, Awaited
    <3>2. Held(k, t)'
      BY <1>3, <3>1 DEF Held
    <3> QED
      BY <3>1, <3>2 DEF Cancelled, Generation
  <2>7. Published(k)' /\ (writtenGeneration[k] <= generations[k])'
    BY <1>3 DEF Published, Custody
  <2> QED
    BY <1>6, <2>1, <2>4, <2>5, <2>6, <2>7 DEF Custody, InHand, Awaited
<1> QED
  BY <1>5, <1>6

\* A write ends: its snapshot is out of hand and its receipt answered.
LEMMA EndCustody ==
  ASSUME TypeOK, ChainInv, NEW k \in Keys, NEW d \in Drains, NEW j \in Keys,
         \A i \in Keys : Custody(i), drains[k][d].state = "running",
         drains[k][d].stage # "none", NEW answer, EndWrite(k, d, answer),
         UNCHANGED <<snapshots, queued, generations, cancelledThrough, landed>>,
         inFlightSignature' = [inFlightSignature EXCEPT ![k] = None]
  PROVE  Custody(j)'
<1>1. drains[k][d].snap \in SnapsSoFar /\ HandFacts(k, drains[k][d])
  BY HandTyped DEF Custody, InHand
<1>2. PICK s \in SnapsSoFar : s = drains[k][d].snap
  BY <1>1
<1>3. /\ SetDrain(k, d, BackToLoop(drains[k][d])) /\ Settle(k, {s}, answer)
      /\ writtenGeneration' = [writtenGeneration EXCEPT ![k] = Max({@, Generation(s)})]
  BY <1>2 DEF EndWrite
<1>4. /\ drains'[k][d] = BackToLoop(drains[k][d])
      /\ \A i \in Keys, e \in Drains : ~(i = k /\ e = d) => drains'[i][e] = drains[i][e]
  BY <1>3 DEF SetDrain, TypeOK, DrainTypeOK
<1>5. drains'[k][d].stage = "none" /\ drains'[k][d].snap = NoSnap
  BY <1>4 DEF BackToLoop, IdleDrain
<1>6. CASE j # k
  <2>1. HandsKept(j)
    BY <1>4, <1>6 DEF HandsKept
  <2>2. /\ inFlightSignature'[j] = inFlightSignature[j]
        /\ writtenGeneration'[j] = writtenGeneration[j]
    BY <1>3, <1>6 DEF TypeOK, BaselineTypeOK, OutcomeTypeOK
  <2>3. /\ waiters'[j] = waiters[j]
        /\ \A t \in SnapsSoFar : snapshots[t].key = j => receipts'[t] = receipts[t]
    BY <1>3, <1>6, SettledAside DEF Custody
  <2>4. Aside(j)
    BY <2>1, <2>2, <2>3 DEF Aside, SnapsKept
  <2> QED
    BY <2>4, AsideCustody
<1>7. CASE j = k
  <2>1. AtRest(k)'
    BY <1>4, <1>5 DEF Custody, AtRest
  <2>2. \A e \in Drains : drains'[k][e].stage = "none"
    <3> SUFFICES ASSUME NEW e \in Drains, e # d
                 PROVE  drains'[k][e].stage = "none"
      BY <1>5
    <3>1. drains'[k][e] = drains[k][e]
      BY <1>4
    <3>2. drains[k][e].stage = "none"
      BY SoleHand DEF Custody
    <3> QED
      BY <3>1, <3>2
  <2>3. /\ waiters'[k] = waiters[k] \ {s}
        /\ \A t \in SnapIds : t # s => receipts'[t] = receipts[t]
    BY <1>3 DEF Settle, TypeOK, OutcomeTypeOK
  <2>4. ASSUME NEW t \in ToSet(queued[k])
        PROVE  t # s /\ t \in SnapIds
    <3>1. s < t /\ t \in SnapsSoFar /\ s \in Nat
      BY <1>1, <1>2, LineTyped DEF HandFacts
    <3>2. t \in SnapIds /\ t \in Nat
      BY <3>1, SnapshotTyped, LineTyped DEF TypeOK
    <3> QED
      BY <3>1, <3>2
  <2>5. InLine(k)'
    <3>1. Rising(queued[k])' /\ ToSet(queued[k])' = ToSet(queued[k])
      BY DEF Custody, InLine, Rising
    <3>2. \A t \in ToSet(queued[k]) : Untouched(t) => Untouched(t)'
      BY <2>3, <2>4 DEF Untouched
    <3> QED
      BY <3>1, <3>2 DEF Custody, InLine, Generation
  <2>6. ASSUME NEW t \in waiters'[k]
        PROVE  (snapshots[t].key = k /\ snapshots[t].checked /\ ~Cancelled(k, Generation(t))
                /\ Held(k, t))'
    <3>1. t \in waiters[k] /\ t # s
      BY <2>3, <2>6
    <3>2. /\ snapshots[t].key = k /\ snapshots[t].checked /\ ~Cancelled(k, Generation(t))
          /\ Held(k, t)
      BY <3>1 DEF Custody, Awaited
    <3>3. t \in ToSet(queued[k])
      <4>1. ASSUME NEW e \in Drains, drains[k][e].stage # "none"
            PROVE  drains[k][e].snap = s
        BY <1>2, <4>1, SoleHand DEF Custody
      <4> QED
        BY <3>1, <3>2, <4>1 DEF Held
    <3>4. Held(k, t)'
      BY <3>3 DEF Held
    <3> QED
      BY <3>2, <3>4 DEF Cancelled, Generation
  <2>7. Published(k)'
    BY DEF Published, TypeOK, BaselineTypeOK
  <2>8. (writtenGeneration[k] <= generations[k])'
    <3>1. /\ writtenGeneration[k] \in Nat /\ Generation(s) \in Nat
          /\ writtenGeneration[k] <= generations[k] /\ Generation(s) <= generations[k]
      BY <1>1, <1>2, SnapshotTyped DEF TypeOK, OutcomeTypeOK, Custody, HandFacts
    <3>2. writtenGeneration'[k] = Max({writtenGeneration[k], Generation(s)})
      BY <1>3 DEF TypeOK, OutcomeTypeOK
    <3>3. Max({writtenGeneration[k], Generation(s)}) <= generations[k]
      BY <3>1, MaxOfTwo
    <3> QED
      BY <3>2, <3>3
  <2>9. InHand(k)'
    BY <2>2 DEF InHand
  <2> QED
    BY <1>7, <2>1, <2>5, <2>6, <2>7, <2>8, <2>9 DEF Custody, Awaited
<1> QED
  BY <1>6, <1>7


\* A step of a write that neither begins nor leaves the loop either moves the
\* write on, its snapshot still in hand, or ends it with an answer.
WriteStep(k, d) ==
  \/ TmpWritten(k, d) \/ TargetUnlinked(k, d) \/ Renamed(k, d) \/ RenameReturns(k, d)
  \/ TmpDropped(k, d) \/ FileDiscarded(k, d) \/ WriteFails(k, d) \/ FailureTidied(k, d)

AtWork(k, d) == drains[k][d].state = "running" /\ drains[k][d].stage # "none"

Moves(k, d, r) ==
  /\ AtWork(k, d) /\ SetDrain(k, d, r)
  /\ r.state = "running" /\ r.stage # "none" /\ r.snap = drains[k][d].snap
  /\ r.remaining = drains[k][d].remaining
  /\ UNCHANGED <<queueVars, cancelledThrough, receiptVars, outcomeVars, tails, closing, flush,
                 deletedAt, supersededAt>>
  /\ \/ UNCHANGED inFlightSignature
     \/ inFlightSignature' = [inFlightSignature EXCEPT ![k] = None]
  /\ \/ UNCHANGED landed
     \/ /\ landed' = landed \cup {drains[k][d].snap} /\ r.stage = "renamed"
        /\ drains[k][d].stage = "renaming"
  /\ r.stage \in {"writing", "unlinking", "renaming"} =>
       drains[k][d].stage \in {"writing", "unlinking", "renaming"}
  /\ r.stage = "renamed" => drains[k][d].snap \in landed'
  /\ r.stage \in {"abandoning", "discarding", "tidying"} => drains[k][d].snap \notin waiters[k]

Ends(k, d, answer) ==
  /\ AtWork(k, d) /\ EndWrite(k, d, answer)
  /\ UNCHANGED <<queueVars, cancelledThrough, tails, closing, flush, landed, deletedAt,
                 supersededAt>>
  /\ inFlightSignature' = [inFlightSignature EXCEPT ![k] = None]
  /\ \/ answer = "ok" /\ drains[k][d].snap \in landed
     \/ answer = "failed" /\ drains[k][d].stage \in {"writing", "renaming"}
     \/ drains[k][d].snap \notin waiters[k]

LEMMA CancelledIsAnswered ==
  ASSUME NEW k \in Keys, Custody(k), NEW s, Cancelled(k, Generation(s))
  PROVE  s \notin waiters[k]
  BY DEF Custody, Awaited

\* A stage reached with nothing else changed in the drain.
LEMMA StageMoves ==
  ASSUME TypeOK, NEW k \in Keys, NEW d \in Drains, NEW stage
  PROVE  LET r == [drains[k][d] EXCEPT !.stage = stage]
         IN  /\ r.state = drains[k][d].state /\ r.stage = stage /\ r.snap = drains[k][d].snap
             /\ r.remaining = drains[k][d].remaining
<1>1. drains[k][d] \in DrainRecord
  BY DEF TypeOK, DrainTypeOK
<1> QED
  BY <1>1 DEF DrainRecord

LEMMA AbandonMoves ==
  ASSUME TypeOK, NEW k \in Keys, NEW d \in Drains, NEW committed, AtWork(k, d),
         Abandon(k, d, committed)
  PROVE  \E r : /\ SetDrain(k, d, r)
                /\ r.state = "running" /\ r.stage = "abandoning" /\ r.snap = drains[k][d].snap
                /\ r.remaining = drains[k][d].remaining
<1> DEFINE g == Generation(drains[k][d].snap)
           away == committed /\ Discards(k, g)
           why == CancellationReason(k, g)
           r == [drains[k][d] EXCEPT !.stage = "abandoning", !.discard = away, !.reason = why]
<1>1. SetDrain(k, d, r)
  BY DEF Abandon
<1>2. /\ r.state = "running" /\ r.stage = "abandoning" /\ r.snap = drains[k][d].snap
      /\ r.remaining = drains[k][d].remaining
  <2>1. drains[k][d] \in DrainRecord
    BY DEF TypeOK, DrainTypeOK
  <2> HIDE DEF away, why
  <2> QED
    BY <2>1 DEF DrainRecord, AtWork
<1> HIDE DEF r
<1> QED
  BY <1>1, <1>2

LEMMA StepMovesOrEnds ==
  ASSUME TypeOK, NEW k \in Keys, NEW d \in Drains, Custody(k), WriteStep(k, d)
  PROVE  (\E r : Moves(k, d, r)) \/ (\E answer : Ends(k, d, answer))
<1> DEFINE w == drains[k][d]
<1>1. AtWork(k, d)
  BY DEF WriteStep, TmpWritten, TargetUnlinked, Renamed, RenameReturns, TmpDropped,
         FileDiscarded, WriteFails, FailureTidied, AtWork, AtStage
<1>2. HandFacts(k, w)
  BY <1>1 DEF AtWork, Custody, InHand
<1>3. \A stage : Cancelled(k, Generation(w.snap)) \/ ~Abandons(k, Generation(w.snap), stage)
  BY DEF Abandons
<1>4. CASE TmpWritten(k, d)
  <2>1. /\ UNCHANGED <<queueVars, receiptVars, outcomeVars, baselineVars, cancelledThrough,
                       tails, closing, flush, budget, historyVars>>
        /\ w.stage = "writing"
    BY <1>4 DEF TmpWritten, AtStage
  <2>2. CASE Cancelled(k, Generation(w.snap)) /\ Abandon(k, d, FALSE)
    <3>1. w.snap \notin waiters[k]
      BY <2>2, CancelledIsAnswered
    <3>2. PICK r : /\ SetDrain(k, d, r)
                   /\ r.state = "running" /\ r.stage = "abandoning" /\ r.snap = w.snap
                   /\ r.remaining = w.remaining
      BY <1>1, <2>2, AbandonMoves
    <3>3. Moves(k, d, r)
      BY <1>1, <2>1, <3>1, <3>2 DEF Moves, baselineVars, historyVars
    <3> QED
      BY <3>3
  <2>3. CASE SetDrain(k, d, [w EXCEPT !.stage = "unlinking"])
    <3>1. PICK r : r = [w EXCEPT !.stage = "unlinking"]
      OBVIOUS
    <3>2. r.state = w.state /\ r.stage = "unlinking" /\ r.snap = w.snap /\ r.remaining = w.remaining
      BY <3>1, StageMoves
    <3>3. Moves(k, d, r)
      BY <1>1, <2>1, <2>3, <3>1, <3>2 DEF Moves, AtWork, baselineVars, historyVars
    <3> QED
      BY <3>3
  <2> QED
    BY <1>3, <1>4, <2>2, <2>3 DEF TmpWritten
<1>5. CASE TargetUnlinked(k, d)
  <2>1. /\ UNCHANGED <<queueVars, receiptVars, outcomeVars, baselineVars, cancelledThrough,
                       tails, closing, flush, historyVars>>
        /\ w.stage = "unlinking"
    BY <1>5 DEF TargetUnlinked, AtStage
  <2>2. CASE Cancelled(k, Generation(w.snap)) /\ Abandon(k, d, FALSE)
    <3>1. w.snap \notin waiters[k]
      BY <2>2, CancelledIsAnswered
    <3>2. PICK r : /\ SetDrain(k, d, r)
                   /\ r.state = "running" /\ r.stage = "abandoning" /\ r.snap = w.snap
                   /\ r.remaining = w.remaining
      BY <1>1, <2>2, AbandonMoves
    <3>3. Moves(k, d, r)
      BY <1>1, <2>1, <3>1, <3>2 DEF Moves, baselineVars, historyVars
    <3> QED
      BY <3>3
  <2>3. CASE SetDrain(k, d, [w EXCEPT !.stage = "renaming"])
    <3>1. PICK r : r = [w EXCEPT !.stage = "renaming"]
      OBVIOUS
    <3>2. r.state = w.state /\ r.stage = "renaming" /\ r.snap = w.snap /\ r.remaining = w.remaining
      BY <3>1, StageMoves
    <3>3. Moves(k, d, r)
      BY <1>1, <2>1, <2>3, <3>1, <3>2 DEF Moves, AtWork, baselineVars, historyVars
    <3> QED
      BY <3>3
  <2> QED
    BY <1>3, <1>5, <2>2, <2>3 DEF TargetUnlinked
<1>6. CASE Renamed(k, d)
  <2>1. /\ UNCHANGED <<queueVars, receiptVars, outcomeVars, baselineVars, cancelledThrough,
                       tails, closing, flush, deletedAt, supersededAt>>
        /\ landed' = landed \cup {w.snap}
        /\ w.stage = "renaming" /\ SetDrain(k, d, [w EXCEPT !.stage = "renamed"])
    BY <1>6 DEF Renamed, AtStage
  <2>2. PICK r : r = [w EXCEPT !.stage = "renamed"]
    OBVIOUS
  <2>3. r.state = w.state /\ r.stage = "renamed" /\ r.snap = w.snap /\ r.remaining = w.remaining
    BY <2>2, StageMoves
  <2>4. Moves(k, d, r)
    BY <1>1, <2>1, <2>2, <2>3 DEF Moves, AtWork, baselineVars
  <2> QED
    BY <2>4
<1>7. CASE RenameReturns(k, d)
  <2>1. /\ UNCHANGED <<queueVars, cancelledThrough, tails, closing, flush, historyVars>>
        /\ w.stage = "renamed"
        /\ inFlightSignature' = [inFlightSignature EXCEPT ![k] = None]
    BY <1>7 DEF RenameReturns, AtStage
  <2>2. CASE Cancelled(k, Generation(w.snap)) /\ Abandon(k, d, TRUE)
             /\ UNCHANGED <<receiptVars, outcomeVars>>
    <3>1. w.snap \notin waiters[k]
      BY <2>2, CancelledIsAnswered
    <3>2. PICK r : /\ SetDrain(k, d, r)
                   /\ r.state = "running" /\ r.stage = "abandoning" /\ r.snap = w.snap
                   /\ r.remaining = w.remaining
      BY <1>1, <2>2, AbandonMoves
    <3>3. Moves(k, d, r)
      BY <1>1, <2>1, <2>2, <3>1, <3>2 DEF Moves, historyVars
    <3> QED
      BY <3>3
  <2>3. CASE Commit(k, d)
    <3>1. w.snap \in landed
      BY <1>2, <2>1 DEF HandFacts
    <3>2. Ends(k, d, "ok")
      BY <1>1, <2>1, <2>3, <3>1 DEF Ends, Commit, historyVars
    <3> QED
      BY <3>2
  <2> QED
    BY <1>3, <1>7, <2>2, <2>3 DEF RenameReturns
<1>8. CASE TmpDropped(k, d)
  <2>1. /\ UNCHANGED <<queueVars, lastWriteFailure, failedSnapshots, closingWriteFailures,
                       cancelledThrough, tails, closing, flush, historyVars>>
        /\ w.stage = "abandoning"
    BY <1>8 DEF TmpDropped, AtStage
  <2>2. w.snap \notin waiters[k]
    BY <1>2, <2>1 DEF HandFacts
  <2>3. CASE SetDrain(k, d, [w EXCEPT !.stage = "discarding"])
             /\ UNCHANGED <<receiptVars, writtenGeneration, inFlightSignature>>
    <3>1. PICK r : r = [w EXCEPT !.stage = "discarding"]
      OBVIOUS
    <3>2. r.state = w.state /\ r.stage = "discarding" /\ r.snap = w.snap /\ r.remaining = w.remaining
      BY <3>1, StageMoves
    <3>3. Moves(k, d, r)
      BY <1>1, <2>1, <2>2, <2>3, <3>1, <3>2 DEF Moves, AtWork, outcomeVars, historyVars
    <3> QED
      BY <3>3
  <2>4. CASE EndWrite(k, d, w.reason)
             /\ inFlightSignature' = [inFlightSignature EXCEPT ![k] = None]
    <3>1. Ends(k, d, w.reason)
      BY <1>1, <2>1, <2>2, <2>4 DEF Ends, historyVars
    <3> QED
      BY <3>1
  <2> QED
    BY <1>8, <2>3, <2>4 DEF TmpDropped
<1>9. CASE FileDiscarded(k, d)
  <2>1. /\ UNCHANGED <<queueVars, cancelledThrough, tails, closing, flush, historyVars>>
        /\ w.stage = "discarding" /\ EndWrite(k, d, w.reason)
        /\ inFlightSignature' = [inFlightSignature EXCEPT ![k] = None]
    BY <1>9 DEF FileDiscarded, AtStage
  <2>2. w.snap \notin waiters[k]
    BY <1>2, <2>1 DEF HandFacts
  <2>3. Ends(k, d, w.reason)
    BY <1>1, <2>1, <2>2 DEF Ends, historyVars
  <2> QED
    BY <2>3
<1>10. CASE FailureTidied(k, d)
  <2>1. /\ UNCHANGED <<queueVars, cancelledThrough, tails, closing, flush, historyVars>>
        /\ w.stage = "tidying" /\ EndWrite(k, d, w.reason)
        /\ inFlightSignature' = [inFlightSignature EXCEPT ![k] = None]
    BY <1>10 DEF FailureTidied, AtStage
  <2>2. w.snap \notin waiters[k]
    BY <1>2, <2>1 DEF HandFacts
  <2>3. Ends(k, d, w.reason)
    BY <1>1, <2>1, <2>2 DEF Ends, historyVars
  <2> QED
    BY <2>3
<1>11. CASE WriteFails(k, d)
  <2>1. /\ UNCHANGED <<queueVars, cancelledThrough, tails, closing, flush, historyVars>>
        /\ w.stage \in {"writing", "renaming"}
    BY <1>11 DEF WriteFails, AtStage
  <2>2. CASE Cancelled(k, Generation(w.snap))
    <3> DEFINE why == CancellationReason(k, Generation(w.snap))
    <3>1. /\ SetDrain(k, d, [w EXCEPT !.stage = "tidying", !.reason = why])
          /\ UNCHANGED <<receiptVars, outcomeVars, inFlightSignature>>
      BY <1>11, <2>2 DEF WriteFails
    <3>2. w.snap \notin waiters[k]
      BY <2>2, CancelledIsAnswered
    <3> HIDE DEF why
    <3>3. PICK r : r = [w EXCEPT !.stage = "tidying", !.reason = why]
      OBVIOUS
    <3>4. r.state = w.state /\ r.stage = "tidying" /\ r.snap = w.snap /\ r.remaining = w.remaining
      <4>1. w \in DrainRecord
        BY DEF TypeOK, DrainTypeOK
      <4> QED
        BY <3>3, <4>1 DEF DrainRecord
    <3>5. Moves(k, d, r)
      BY <1>1, <2>1, <3>1, <3>2, <3>3, <3>4 DEF Moves, AtWork, historyVars
    <3> QED
      BY <3>5
  <2>3. CASE RetainFailure(k, d)
    <3>1. Ends(k, d, "failed")
      BY <1>1, <2>1, <2>3 DEF Ends, RetainFailure, historyVars
    <3> QED
      BY <3>1
  <2> QED
    BY <1>11, <2>2, <2>3 DEF WriteFails
<1> QED
  BY <1>4, <1>5, <1>6, <1>7, <1>8, <1>9, <1>10, <1>11 DEF WriteStep

LEMMA WriteStepCustody ==
  ASSUME TypeOK, ChainInv, NEW k \in Keys, NEW d \in Drains, NEW j \in Keys,
         \A i \in Keys : Custody(i), WriteStep(k, d)
  PROVE  Custody(j)'
<1>1. CASE \E r : Moves(k, d, r)
  <2>1. PICK r : Moves(k, d, r)
    BY <1>1
  <2> QED
    BY <2>1, MoveCustody DEF Moves, AtWork, queueVars, receiptVars, outcomeVars
<1>2. CASE \E answer : Ends(k, d, answer)
  <2>1. PICK answer : Ends(k, d, answer)
    BY <1>2
  <2> QED
    BY <2>1, EndCustody DEF Ends, AtWork, queueVars
<1> QED
  BY <1>1, <1>2, StepMovesOrEnds


LEMMA EndsCustody ==
  ASSUME TypeOK, ChainInv, NEW k \in Keys, NEW d \in Drains, NEW j \in Keys,
         \A i \in Keys : Custody(i), DrainEnds(k, d)
  PROVE  Custody(j)'
<1>1. HandsKept(j)
  BY EndKeepsHands DEF Custody
<1>2. UNCHANGED <<snapshots, queued, waiters, receipts, inFlightSignature, landed>>
  BY DEF DrainEnds, receiptVars, baselineVars, historyVars
<1>3. CASE UNCHANGED <<generations, writtenGeneration, cancelledThrough>>
  <2>1. Aside(j)
    BY <1>1, <1>2, <1>3 DEF Aside, SnapsKept
  <2> QED
    BY <2>1, AsideCustody
<1>4. CASE tails[k] = d /\ queued[k] = <<>> /\ waiters[k] = {} /\ Retire(k)
  <2>1. CASE j # k
    <3>1. /\ generations'[j] = generations[j] /\ writtenGeneration'[j] = writtenGeneration[j]
          /\ cancelledThrough'[j] = cancelledThrough[j]
      BY <1>4, <2>1 DEF Retire, TypeOK, IntakeTypeOK, OutcomeTypeOK
    <3>2. Aside(j)
      BY <1>1, <1>2, <3>1 DEF Aside, SnapsKept
    <3> QED
      BY <3>2, AsideCustody
  <2>2. CASE j = k
    <3>1. AtRest(k) /\ AtLoop(k, d)
      BY DEF Custody, DrainEnds
    <3>2. \A e \in Drains : drains[k][e].stage = "none"
      <4>1. \A e \in Drains : e # d => drains[k][e].state = "idle"
        BY <1>4, <3>1, SoleDrain
      <4>2. drains[k][d].stage = "none"
        BY <3>1 DEF AtRest, AtLoop, AtStage
      <4> QED
        BY <3>1, <4>1, <4>2 DEF AtRest
    <3>3. \A e \in Drains : drains'[k][e].stage = "none"
      BY <1>1, <2>2, <3>2 DEF HandsKept
    <3>4. AtRest(k)'
      BY <1>1, <2>2, <3>1, AsideAtRest
    <3>5. Published(k)'
      BY <1>2, <3>2 DEF Custody, Published
    <3>6. generations'[k] = 0 /\ writtenGeneration'[k] = 0
      BY <1>4 DEF Retire, TypeOK, IntakeTypeOK, OutcomeTypeOK
    <3> QED
      BY <1>2, <1>4, <2>2, <3>3, <3>4, <3>5, <3>6, IdleCustody
  <2> QED
    BY <2>1, <2>2
<1> QED
  BY <1>3, <1>4 DEF DrainEnds

\* One more drain behind the tail of some sessions, and nothing else.
LEMMA TailCustody ==
  ASSUME TypeOK, NEW S \in SUBSET Keys, RunOnTail(S), NEW j \in Keys,
         \A i \in Keys : Custody(i),
         UNCHANGED <<snapshots, queued, generations, cancelledThrough, waiters, receipts,
                     writtenGeneration, inFlightSignature, landed>>
  PROVE  Custody(j)'
<1>1. HandsKept(j)
  BY TailKeepsHands DEF Custody
<1>2. Aside(j)
  BY <1>1 DEF Aside, SnapsKept
<1> QED
  BY <1>2, AsideCustody

LEMMA RetryCustody ==
  ASSUME TypeOK, FreshWritesNotCancelled, NEW j \in Keys, \A i \in Keys : Custody(i),
         NEW quiescent, NEW failures \in SUBSET (Keys \X SnapsSoFar),
         Retry(failures, quiescent),
         UNCHANGED <<cancelledThrough, inFlightSignature, landed, writtenGeneration>>
  PROVE  Custody(j)'
<1>1. PICK failure \in failures :
        EnqueueAndDrive(failure[1], snapshots[failure[2]].header, snapshots[failure[2]].content)
  BY DEF Retry
<1>2. failure[1] \in Keys /\ failure[2] \in SnapsSoFar
  OBVIOUS
<1>3. snapshots[failure[2]].header \in Metadata /\ snapshots[failure[2]].content \in SnapIds
  BY <1>2, SnapshotTyped DEF TypeOK
<1> QED
  BY <1>1, <1>2, <1>3, DriveCustody

LEMMA SameCustody ==
  ASSUME TypeOK, NEW j \in Keys, Custody(j),
         UNCHANGED <<snapshots, queued, generations, cancelledThrough, waiters, receipts,
                     writtenGeneration, inFlightSignature, landed, drains>>
  PROVE  Custody(j)'
<1>1. Aside(j)
  BY DEF Aside, SnapsKept, HandsKept
<1> QED
  BY <1>1, AsideCustody

\* A queue with nothing in it and nobody at work.
LEMMA CrashCustody ==
  ASSUME NEW j \in Keys, CrashAndRestart
  PROVE  Custody(j)'
<1>1. /\ queued'[j] = <<>> /\ generations'[j] = 0 /\ waiters'[j] = {}
      /\ writtenGeneration'[j] = 0 /\ inFlightSignature'[j] = None
      /\ \A d \in Drains : drains'[j][d] = IdleDrain
  BY DEF CrashAndRestart
<1>2. AtRest(j)' /\ Published(j)' /\ \A d \in Drains : drains'[j][d].stage = "none"
  BY <1>1 DEF AtRest, Published, IdleDrain
<1> QED
  BY <1>1, <1>2, IdleCustody

LEMMA CustodyInit == ASSUME Started, NEW j \in Keys PROVE Custody(j)
<1>1. /\ queued[j] = <<>> /\ generations[j] = 0 /\ waiters[j] = {}
      /\ writtenGeneration[j] = 0 /\ inFlightSignature[j] = None
      /\ \A d \in Drains : drains[j][d] = IdleDrain
  BY DEF Started, InitWith
<1>2. AtRest(j) /\ Published(j) /\ \A d \in Drains : drains[j][d].stage = "none"
  BY <1>1 DEF AtRest, Published, IdleDrain
<1>3. Rising(queued[j]) /\ ToSet(queued[j]) = {}
  BY <1>1, RisingEmpty
<1> QED
  BY <1>1, <1>2, <1>3 DEF Custody, InLine, InHand, Awaited

LEMMA CustodyStep ==
  ASSUME TypeOK, ChainInv, FreshWritesNotCancelled, Unasked, \A i \in Keys : Custody(i),
         [Next]_vars, NEW j \in Keys
  PROVE  Custody(j)'
<1>1. ASSUME NEW k \in Keys, NEW header \in Metadata, Enqueue(k, header)
      PROVE  Custody(j)'
  BY <1>1, EnqueueCustody
<1>2. ASSUME NEW k \in Keys, NEW header \in Metadata, EnqueueChecked(k, header)
      PROVE  Custody(j)'
  <2>1. NewSnap \in SnapIds
    BY <1>2, BoundsAreNat, LenProperties
    DEF TypeOK, IntakeTypeOK, EnqueueChecked, Room, NewSnap, SnapIds
  <2> QED
    BY <1>2, <2>1, DriveCustody DEF EnqueueChecked, outcomeVars, baselineVars, historyVars
<1>3. ASSUME NEW k \in Keys, Flush(k)
      PROVE  Custody(j)'
  BY <1>3, TailCustody DEF Flush, receiptVars, outcomeVars, baselineVars, historyVars
<1>4. ASSUME NEW s \in SnapIds, TimerFires(s)
      PROVE  Custody(j)'
  <2>1. snapshots[s].key \in Keys
    BY <1>4, SnapshotTyped DEF TypeOK, IntakeTypeOK, TimerFires
  <2>2. RunOnTail({snapshots[s].key}) /\ {snapshots[s].key} \in SUBSET Keys
    BY <1>4, <2>1 DEF TimerFires
  <2> QED
    BY <1>4, <2>2, TailCustody DEF TimerFires, receiptVars, outcomeVars, baselineVars, historyVars
<1>5. ASSUME NEW k \in Keys, NEW seen \in Metadata, NEW header \in Metadata,
             AbsorbExternal(k, seen, header)
      PROVE  Custody(j)'
  BY <1>5, AbsorbCustody
<1>6. ASSUME NEW k \in Keys, DeleteSession(k)
      PROVE  Custody(j)'
  BY <1>6, DeleteCustody
<1>7. ASSUME NEW k \in Keys, NEW d \in Drains, DrainStep(k, d)
      PROVE  Custody(j)'
  BY <1>7, BeginCustody, EndsCustody, WriteStepCustody DEF DrainStep, WriteStep
<1>8. CASE FlushAll
  BY <1>8, SameCustody DEF FlushAll, queueVars, receiptVars, outcomeVars, baselineVars, historyVars
<1>9. CASE FlushStep
  <2>1. CASE FlushRound
    <3>1. Busy \in SUBSET Keys
      BY DEF Busy
    <3> QED
      BY <2>1, <3>1, TailCustody DEF FlushRound, receiptVars, outcomeVars, baselineVars, historyVars
  <2>2. CASE FlushDrained
    <3>1. UNCHANGED <<cancelledThrough, inFlightSignature, landed, writtenGeneration>>
      BY <2>2 DEF FlushDrained, outcomeVars, baselineVars, historyVars
    <3>2. CASE \E quiescent \in BOOLEAN : Retry(Retained, quiescent)
      <4>1. Retained \in SUBSET (Keys \X SnapsSoFar)
        BY DEF Retained, TypeOK, OutcomeTypeOK
      <4> QED
        BY <3>1, <3>2, <4>1, RetryCustody
    <3>3. CASE UNCHANGED <<queueVars, receiptVars, tails, drains>>
      BY <3>1, <3>3, SameCustody DEF queueVars, receiptVars
    <3> QED
      BY <2>2, <3>2, <3>3 DEF FlushDrained
  <2>3. CASE FlushRetries
    BY <2>3, RetryCustody
    DEF FlushRetries, TypeOK, FlushTypeOK, outcomeVars, baselineVars, historyVars
  <2>4. CASE FlushEnds
    BY <2>4, SameCustody DEF FlushEnds, queueVars, receiptVars, baselineVars, historyVars
  <2> QED
    BY <1>9, <2>1, <2>2, <2>3, <2>4 DEF FlushStep
<1>10. CASE CrashAndRestart
  BY <1>10, CrashCustody
<1>11. CASE UNCHANGED vars
  BY <1>11, SameCustody DEF vars, queueVars, receiptVars, outcomeVars, baselineVars, historyVars
<1> QED
  BY <1>1, <1>2, <1>3, <1>4, <1>5, <1>6, <1>7, <1>8, <1>9, <1>10, <1>11 DEF Next


----------------------------------------------------------------------------
(* What a receipt says. *)

Watermarked == \A k \in Keys : deletedAt[k] <= Len(snapshots) /\ supersededAt[k] <= Len(snapshots)
Honest == ReceiptsAreHonest /\ Unasked /\ Watermarked

\* What an answer may be, after a step.
AnswerStands(s) == s <= Len(snapshots) /\ receipts'[s] = receipts[s]
AnswerGiven(s) ==
  \/ receipts'[s] \in {"none", "waiting"}
  \/ receipts'[s] = "ok" /\ s \in landed'
  \/ receipts'[s] = "failed" /\ s \notin landed'
  \/ receipts'[s] = "superseded" /\ s <= supersededAt'[snapshots'[s].key]
  \/ receipts'[s] = "deleted" /\ s <= deletedAt'[snapshots'[s].key]

Longer == /\ Len(snapshots') \in Nat /\ Len(snapshots) <= Len(snapshots')
          /\ Len(snapshots') <= MaxHeap
          /\ \A s \in SnapsSoFar : snapshots'[s] = snapshots[s]

Later(mark) == \A k \in Keys : mark'[k] = mark[k] \/ mark'[k] = Len(snapshots)

LEMMA HonestMove ==
  ASSUME TypeOK, Honest, Longer, Later(deletedAt), Later(supersededAt),
         landed \subseteq landed',
         \A s \in landed' : s \in landed \/ receipts'[s] # "failed",
         \A s \in SnapIds : s > Len(snapshots') => receipts'[s] = receipts[s],
         \A s \in 1 .. Len(snapshots') : AnswerStands(s) \/ AnswerGiven(s)
  PROVE  Honest'
<1>1. Len(snapshots) \in Nat /\ \A s \in 1 .. Len(snapshots) : snapshots[s].key \in Keys
  BY LenProperties, SnapshotTyped DEF TypeOK, IntakeTypeOK, SnapsSoFar
<1>2. /\ \A k \in Keys : deletedAt[k] \in Nat /\ supersededAt[k] \in Nat
      /\ \A k \in Keys : deletedAt[k] <= deletedAt'[k] /\ supersededAt[k] <= supersededAt'[k]
      /\ \A k \in Keys : deletedAt'[k] <= Len(snapshots') /\ supersededAt'[k] <= Len(snapshots')
      /\ \A k \in Keys : deletedAt'[k] \in Nat /\ supersededAt'[k] \in Nat
  <2>1. \A k \in Keys : /\ deletedAt[k] \in Nat /\ supersededAt[k] \in Nat
                        /\ deletedAt[k] <= Len(snapshots) /\ supersededAt[k] <= Len(snapshots)
    BY DEF Honest, Watermarked, TypeOK, HistoryTypeOK
  <2>2. /\ Len(snapshots') \in Nat /\ Len(snapshots) \in Nat
        /\ Len(snapshots) <= Len(snapshots')
    BY <1>1 DEF Longer
  <2>3. \A k \in Keys : /\ deletedAt'[k] = deletedAt[k] \/ deletedAt'[k] = Len(snapshots)
                        /\ supersededAt'[k] = supersededAt[k] \/ supersededAt'[k] = Len(snapshots)
    BY DEF Later
  <2> QED
    BY <2>1, <2>2, <2>3
<1>3. Unasked'
  <2>1. ASSUME NEW s \in SnapIds, s > Len(snapshots')
        PROVE  receipts'[s] = "none"
    <3>1. receipts'[s] = receipts[s]
      BY <2>1
    <3>2. s \in Int /\ s > Len(snapshots)
      <4>1. s \in Int
        BY DEF SnapIds
      <4> QED
        BY <1>1, <2>1, <4>1 DEF Longer
    <3> QED
      BY <3>1, <3>2 DEF Honest, Unasked
  <2> QED
    BY <2>1 DEF Unasked
<1>4. Watermarked'
  BY <1>2 DEF Watermarked
<1>5. ASSUME NEW s \in 1 .. Len(snapshots'), AnswerStands(s)
      PROVE  /\ receipts'[s] = "ok" => s \in landed'
             /\ receipts'[s] = "superseded" => s <= supersededAt'[snapshots'[s].key]
             /\ receipts'[s] = "deleted" => s <= deletedAt'[snapshots'[s].key]
             /\ receipts'[s] = "failed" => s \notin landed'
  <2>1. s \in 1 .. Len(snapshots) /\ snapshots'[s] = snapshots[s] /\ receipts'[s] = receipts[s]
    BY <1>1, <1>5 DEF AnswerStands, Longer, SnapsSoFar
  <2>2. snapshots[s].key \in Keys
    BY <1>1, <2>1
  <2>3. /\ receipts[s] = "ok" => s \in landed
        /\ receipts[s] = "superseded" => s <= supersededAt[snapshots[s].key]
        /\ receipts[s] = "deleted" => s <= deletedAt[snapshots[s].key]
        /\ receipts[s] = "failed" => s \notin landed
    BY <2>1 DEF Honest, ReceiptsAreHonest
  <2>4. receipts'[s] = "failed" => s \notin landed'
    BY <2>1, <2>3
  <2>5. s \in Nat
    BY <2>1
  <2>6. PICK k \in Keys : k = snapshots[s].key
    BY <2>2
  <2>7. /\ deletedAt[k] <= deletedAt'[k] /\ supersededAt[k] <= supersededAt'[k]
        /\ deletedAt[k] \in Nat /\ supersededAt[k] \in Nat
        /\ deletedAt'[k] \in Nat /\ supersededAt'[k] \in Nat
    BY <1>2
  <2>8. /\ receipts[s] = "superseded" => s <= supersededAt'[k]
        /\ receipts[s] = "deleted" => s <= deletedAt'[k]
    BY <2>3, <2>5, <2>6, <2>7
  <2> QED
    BY <2>1, <2>3, <2>4, <2>6, <2>8
<1>6. ReceiptsAreHonest'
  BY <1>5 DEF ReceiptsAreHonest, AnswerGiven
<1> QED
  BY <1>3, <1>4, <1>6 DEF Honest

LEMMA HeapKept == ASSUME TypeOK, UNCHANGED snapshots PROVE Longer
  BY LineTyped DEF Longer, TypeOK, IntakeTypeOK, QueueAssumption

\* Steps that answer nobody.
LEMMA HonestSame ==
  ASSUME TypeOK, Honest, Longer, UNCHANGED <<receipts, landed, deletedAt, supersededAt>>
  PROVE  Honest'
<1>1. \A s \in 1 .. Len(snapshots') : s > Len(snapshots) => receipts'[s] = "none"
  BY BoundsAreNat, LineTyped DEF Honest, Unasked, SnapIds, Longer
<1>2. \A s \in 1 .. Len(snapshots') : AnswerStands(s) \/ AnswerGiven(s)
  BY <1>1, LineTyped DEF AnswerStands, AnswerGiven, Longer
<1> QED
  BY <1>2, HonestMove DEF Later

LEMMA HeapGrows ==
  ASSUME TypeOK, NEW k \in Keys, NEW header \in Metadata,
         NEW checked \in BOOLEAN, NEW content \in SnapIds, Len(snapshots) < MaxHeap,
         snapshots' = Append(snapshots, Snapshot(k, header, checked, content))
  PROVE  Longer /\ NewSnap \in SnapIds /\ Len(snapshots') = NewSnap
<1>1. NewSnap \in SnapIds /\ Len(snapshots') = NewSnap /\ NewSnap <= MaxHeap
  BY SnapshotAppended DEF TypeOK
<1>2. \A s \in SnapsSoFar : snapshots'[s] = snapshots[s]
  BY <1>1, SnapshotsKept
<1> QED
  <2>1. Len(snapshots') = Len(snapshots) + 1 /\ Len(snapshots) \in Nat
    BY <1>1, LineTyped DEF NewSnap
  <2>2. Len(snapshots') \in Nat /\ Len(snapshots) <= Len(snapshots')
    BY <2>1
  <2> QED
    BY <1>1, <1>2, <2>2 DEF Longer

LEMMA DriveHonest ==
  ASSUME TypeOK, FreshWritesNotCancelled, Honest, NEW k \in Keys, Custody(k),
         NEW header \in Metadata, NEW content \in SnapIds, EnqueueAndDrive(k, header, content),
         UNCHANGED <<landed, deletedAt, supersededAt>>
  PROVE  Honest'
<1>1. Longer /\ NewSnap \in SnapIds /\ Len(snapshots') = NewSnap
  BY HeapGrows DEF EnqueueAndDrive, PutEntry
<1>2. receipts' = [receipts EXCEPT ![NewSnap] = "waiting"]
  BY <1>1, ReceiptWaits DEF EnqueueAndDrive, Custody
<1>3. PICK n \in SnapIds : n = NewSnap
  BY <1>1
<1>4. Len(snapshots) \in Nat /\ n = Len(snapshots) + 1 /\ Len(snapshots') = n
  BY <1>1, <1>3, LineTyped DEF NewSnap
<1>5. receipts'[n] = "waiting" /\ \A s \in SnapIds : s # n => receipts'[s] = receipts[s]
  BY <1>2, <1>3 DEF TypeOK, OutcomeTypeOK
<1>6. \A s \in 1 .. Len(snapshots') : s \in SnapIds /\ (s = n \/ s <= Len(snapshots))
  BY <1>1, <1>4, BoundsAreNat DEF Longer, SnapIds
<1>7. \A s \in 1 .. Len(snapshots') : AnswerStands(s) \/ AnswerGiven(s)
  BY <1>5, <1>6 DEF AnswerStands, AnswerGiven
<1>8. \A s \in SnapIds : s > Len(snapshots') => receipts'[s] = receipts[s]
  BY <1>4, <1>5
<1> QED
  BY <1>1, <1>7, <1>8, HonestMove DEF Later

\* An absorbed edit and a deletion answer what they cover.
LEMMA SettleHonest ==
  ASSUME TypeOK, Honest, NEW k \in Keys, Custody(k), Longer, UNCHANGED landed,
         \/ /\ Settle(k, waiters[k], "superseded")
            /\ supersededAt' = [supersededAt EXCEPT ![k] = Len(snapshots)]
            /\ UNCHANGED deletedAt
         \/ /\ Settle(k, waiters[k], "deleted")
            /\ deletedAt' = [deletedAt EXCEPT ![k] = Len(snapshots)]
            /\ UNCHANGED supersededAt
  PROVE  Honest'
<1>1. Later(deletedAt) /\ Later(supersededAt)
  BY DEF Later, TypeOK, HistoryTypeOK
<1>2. \A s \in waiters[k] : s \in SnapsSoFar /\ snapshots[s].key = k
  BY DEF Custody, Awaited, TypeOK, OutcomeTypeOK
<1>3. ASSUME NEW s \in SnapIds, s \notin waiters[k]
      PROVE  receipts'[s] = receipts[s]
  BY <1>3 DEF Settle
<1>4. ASSUME NEW s \in waiters[k]
      PROVE  AnswerGiven(s)
  <2>1. s \in SnapsSoFar /\ s \in SnapIds /\ snapshots'[s].key = k /\ s <= Len(snapshots)
    BY <1>2, SnapshotTyped DEF TypeOK, Longer, SnapsSoFar
  <2>2. \/ receipts'[s] = "superseded" /\ supersededAt'[k] = Len(snapshots)
        \/ receipts'[s] = "deleted" /\ deletedAt'[k] = Len(snapshots)
    BY <2>1 DEF Settle, TypeOK, HistoryTypeOK
  <2> QED
    BY <2>1, <2>2 DEF AnswerGiven
<1>5. \A s \in 1 .. Len(snapshots') : s \in SnapIds
  BY BoundsAreNat DEF Longer, SnapIds
<1>6. \A s \in SnapIds : s > Len(snapshots) => receipts[s] = "none" /\ s \notin waiters[k]
  <2>1. \A s \in SnapsSoFar : ~(s > Len(snapshots))
    BY LineTyped DEF SnapsSoFar
  <2> QED
    BY <1>2, <2>1 DEF Honest, Unasked
<1>7. ASSUME NEW s \in 1 .. Len(snapshots')
      PROVE  AnswerStands(s) \/ AnswerGiven(s)
  <2>1. CASE s \in waiters[k]
    BY <1>4, <2>1
  <2>2. CASE s \notin waiters[k] /\ s <= Len(snapshots)
    BY <1>3, <1>5, <2>2 DEF AnswerStands
  <2>3. CASE s > Len(snapshots)
    BY <1>3, <1>5, <1>6, <2>3 DEF AnswerGiven
  <2> QED
    BY <2>1, <2>2, <2>3, LineTyped
<1>8. \A s \in SnapIds : s > Len(snapshots') => receipts'[s] = receipts[s]
  BY <1>3, <1>6, LineTyped DEF Longer, SnapIds
<1> QED
  BY <1>1, <1>7, <1>8, HonestMove

\* A write answers for its own snapshot only.
LEMMA WriteHonest ==
  ASSUME TypeOK, Honest, NEW k \in Keys, NEW d \in Drains, Custody(k), WriteStep(k, d)
  PROVE  Honest'
<1>1. CASE \E r : Moves(k, d, r)
  <2>1. PICK r : Moves(k, d, r)
    BY <1>1
  <2>2. UNCHANGED <<snapshots, receipts, deletedAt, supersededAt>>
    BY <2>1 DEF Moves, queueVars, receiptVars
  <2>3. Longer
    BY <2>2, HeapKept
  <2>4. CASE UNCHANGED landed
    BY <2>2, <2>3, <2>4, HonestSame
  <2>5. CASE landed' = landed \cup {drains[k][d].snap} /\ drains[k][d].stage = "renaming"
    <3>1. receipts[drains[k][d].snap] # "failed"
      BY <2>5 DEF Custody, InHand, HandFacts, Untouched
    <3>2. \A s \in 1 .. Len(snapshots') : AnswerStands(s)
      BY <2>2, LineTyped DEF AnswerStands
    <3>3. landed \subseteq landed' /\ \A s \in landed' : s \in landed \/ receipts'[s] # "failed"
      BY <2>2, <2>5, <3>1
    <3>4. \A s \in SnapIds : s > Len(snapshots') => receipts'[s] = receipts[s]
      BY <2>2
    <3>5. Later(deletedAt) /\ Later(supersededAt)
      BY <2>2 DEF Later
    <3> QED
      BY <2>3, <3>2, <3>3, <3>4, <3>5, HonestMove
  <2> QED
    BY <2>1, <2>4, <2>5 DEF Moves
<1>2. CASE \E answer : Ends(k, d, answer)
  <2>1. PICK answer : Ends(k, d, answer)
    BY <1>2
  <2>2. UNCHANGED <<snapshots, landed, deletedAt, supersededAt>>
    BY <2>1 DEF Ends, queueVars
  <2>3. Longer
    BY <2>2, HeapKept
  <2>4. PICK w \in SnapIds : w = drains[k][d].snap
    BY <2>1, HandTyped DEF Ends, AtWork
  <2>5. \A s \in SnapIds : receipts'[s] = IF s \in waiters[k] \cap {w} THEN answer ELSE receipts[s]
    BY <2>1, <2>4 DEF Ends, EndWrite, Settle
  <2>6. \A s \in SnapIds : s # w => receipts'[s] = receipts[s]
    BY <2>5
  <2>7. receipts'[w] = receipts[w] \/ AnswerGiven(w)
    <3>1. CASE w \notin waiters[k]
      BY <2>5, <3>1
    <3>2. CASE answer = "ok" /\ w \in landed
      BY <2>2, <2>5, <3>2 DEF AnswerGiven
    <3>3. CASE answer = "failed" /\ drains[k][d].stage \in {"writing", "renaming"}
      <4>1. w \notin landed
        BY <2>4, <3>3 DEF Custody, InHand, HandFacts, Untouched
      <4> QED
        BY <2>2, <2>5, <3>3, <4>1 DEF AnswerGiven
    <3> QED
      BY <2>1, <2>4, <3>1, <3>2, <3>3 DEF Ends
  <2>8. w <= Len(snapshots) /\ Len(snapshots) \in Nat
    BY <2>1, <2>4, HandTyped, LineTyped DEF Ends, AtWork, SnapsSoFar
  <2>9. \A s \in 1 .. Len(snapshots') : s \in SnapIds /\ s <= Len(snapshots)
    BY <2>2, <2>3, BoundsAreNat DEF Longer, SnapIds
  <2>10. \A s \in 1 .. Len(snapshots') : AnswerStands(s) \/ AnswerGiven(s)
    BY <2>6, <2>7, <2>9 DEF AnswerStands
  <2>11. \A s \in SnapIds : s > Len(snapshots') => receipts'[s] = receipts[s]
    <3>1. Len(snapshots') = Len(snapshots)
      BY <2>2
    <3>2. \A s \in SnapIds : s > Len(snapshots') => s # w
      BY <2>8, <3>1 DEF SnapIds
    <3> QED
      BY <2>6, <3>2
  <2>12. /\ landed \subseteq landed' /\ Later(deletedAt) /\ Later(supersededAt)
         /\ \A s \in landed' : s \in landed \/ receipts'[s] # "failed"
    BY <2>2 DEF Later
  <2> QED
    BY <2>3, <2>10, <2>11, <2>12, HonestMove
<1> QED
  BY <1>1, <1>2, StepMovesOrEnds


LEMMA RetryHonest ==
  ASSUME TypeOK, FreshWritesNotCancelled, Honest, \A i \in Keys : Custody(i), NEW quiescent,
         NEW failures \in SUBSET (Keys \X SnapsSoFar), Retry(failures, quiescent),
         UNCHANGED historyVars
  PROVE  Honest'
<1>1. PICK failure \in failures :
        EnqueueAndDrive(failure[1], snapshots[failure[2]].header, snapshots[failure[2]].content)
  BY DEF Retry
<1>2. failure[1] \in Keys /\ failure[2] \in SnapsSoFar
  OBVIOUS
<1>3. snapshots[failure[2]].header \in Metadata /\ snapshots[failure[2]].content \in SnapIds
  BY <1>2, SnapshotTyped DEF TypeOK
<1>4. UNCHANGED <<landed, deletedAt, supersededAt>>
  BY DEF historyVars
<1> QED
  BY <1>1, <1>2, <1>3, <1>4, DriveHonest

LEMMA RoomForOne == ASSUME TypeOK, Room PROVE NewSnap \in SnapIds /\ Len(snapshots) < MaxHeap
<1>1. Len(snapshots) \in Nat /\ Len(snapshots) < MaxSnapshots
  BY LineTyped DEF Room
<1> QED
  BY <1>1, BoundsAreNat DEF NewSnap, SnapIds

LEMMA HonestInit == Started => Honest
<1> SUFFICES ASSUME Started
             PROVE  Honest
  OBVIOUS
<1>1. Len(snapshots) = 0
  BY EmptySeq DEF Started, InitWith
<1> QED
  BY <1>1 DEF Started, InitWith, Honest, ReceiptsAreHonest, Unasked, Watermarked

LEMMA HonestStep ==
  ASSUME TypeOK, FreshWritesNotCancelled, Honest, \A i \in Keys : Custody(i), [Next]_vars
  PROVE  Honest'
<1>1. ASSUME UNCHANGED <<snapshots, receipts, landed, deletedAt, supersededAt>>
      PROVE  Honest'
  BY <1>1, HeapKept, HonestSame
<1>2. ASSUME NEW k \in Keys, NEW header \in Metadata, Enqueue(k, header)
      PROVE  Honest'
  <2>1. Longer
    <3>1. NewSnap \in SnapIds
      BY <1>2, RoomForOne DEF Enqueue
    <3> QED
      BY <1>2, <3>1, HeapGrows DEF Enqueue, PutEntry
  <2> QED
    BY <1>2, <2>1, HonestSame DEF Enqueue, receiptVars, historyVars
<1>3. ASSUME NEW k \in Keys, NEW header \in Metadata, EnqueueChecked(k, header)
      PROVE  Honest'
  <2>1. NewSnap \in SnapIds
    BY <1>3, RoomForOne DEF EnqueueChecked
  <2> QED
    BY <1>3, <2>1, DriveHonest DEF EnqueueChecked, historyVars
<1>4. ASSUME NEW k \in Keys, Flush(k)
      PROVE  Honest'
  BY <1>1, <1>4 DEF Flush, receiptVars, historyVars
<1>5. ASSUME NEW s \in SnapIds, TimerFires(s)
      PROVE  Honest'
  BY <1>1, <1>5 DEF TimerFires, receiptVars, historyVars
<1>6. ASSUME NEW k \in Keys, NEW seen \in Metadata, NEW header \in Metadata,
             AbsorbExternal(k, seen, header)
      PROVE  Honest'
  <2>1. Longer
    <3>1. NewSnap \in SnapIds /\ Len(snapshots) < MaxHeap
      BY <1>6, RoomForOne DEF AbsorbExternal
    <3> QED
      BY <1>6, <3>1, HeapGrows DEF AbsorbExternal
  <2> QED
    BY <1>6, <2>1, SettleHonest DEF AbsorbExternal, StopPendingWrites
<1>7. ASSUME NEW k \in Keys, DeleteSession(k)
      PROVE  Honest'
  <2>1. Longer
    BY <1>7, HeapKept DEF DeleteSession
  <2> QED
    BY <1>7, <2>1, SettleHonest DEF DeleteSession, StopPendingWrites
<1>8. ASSUME NEW k \in Keys, NEW d \in Drains, DrainStep(k, d)
      PROVE  Honest'
  <2>1. CASE WriteBegins(k, d)
    <3>1. StartWrite(k, d, Head(queued[k]))
      BY <2>1, WriteStarts
    <3> QED
      BY <1>1, <2>1, <3>1 DEF WriteBegins, StartWrite, receiptVars, historyVars
  <2>2. CASE DrainEnds(k, d)
    BY <1>1, <2>2 DEF DrainEnds, receiptVars, historyVars
  <2>3. CASE WriteStep(k, d)
    BY <2>3, WriteHonest
  <2> QED
    BY <1>8, <2>1, <2>2, <2>3 DEF DrainStep, WriteStep
<1>9. CASE FlushAll
  BY <1>1, <1>9 DEF FlushAll, queueVars, receiptVars, historyVars
<1>10. CASE FlushStep
  <2>1. CASE FlushRound
    BY <1>1, <2>1 DEF FlushRound, receiptVars, historyVars
  <2>2. CASE FlushDrained
    <3>1. UNCHANGED historyVars
      BY <2>2 DEF FlushDrained
    <3>2. CASE \E quiescent \in BOOLEAN : Retry(Retained, quiescent)
      <4>1. Retained \in SUBSET (Keys \X SnapsSoFar)
        BY DEF Retained, TypeOK, OutcomeTypeOK
      <4> QED
        BY <3>1, <3>2, <4>1, RetryHonest
    <3>3. CASE UNCHANGED <<queueVars, receiptVars, tails, drains>>
      BY <1>1, <3>1, <3>3 DEF queueVars, receiptVars, historyVars
    <3> QED
      BY <2>2, <3>2, <3>3 DEF FlushDrained
  <2>3. CASE FlushRetries
    BY <2>3, RetryHonest DEF FlushRetries, TypeOK, FlushTypeOK
  <2>4. CASE FlushEnds
    BY <1>1, <2>4 DEF FlushEnds, queueVars, receiptVars, historyVars
  <2> QED
    BY <1>10, <2>1, <2>2, <2>3, <2>4 DEF FlushStep
<1>11. CASE CrashAndRestart
  <2>1. /\ UNCHANGED <<snapshots, landed, deletedAt, supersededAt>>
        /\ receipts' = [s \in SnapIds |-> IF receipts[s] = "waiting" THEN "none" ELSE receipts[s]]
    BY <1>11 DEF CrashAndRestart
  <2>2. Longer /\ Len(snapshots') = Len(snapshots)
    BY <2>1, HeapKept
  <2>3. \A s \in SnapIds : receipts'[s] = receipts[s] \/ receipts'[s] = "none"
    BY <2>1
  <2>4. \A s \in 1 .. Len(snapshots') : s \in SnapIds /\ s <= Len(snapshots)
    BY <2>2, BoundsAreNat DEF Longer, SnapIds
  <2>5. \A s \in 1 .. Len(snapshots') : AnswerStands(s) \/ AnswerGiven(s)
    BY <2>3, <2>4 DEF AnswerStands, AnswerGiven
  <2>6. \A s \in SnapIds : s > Len(snapshots') => receipts'[s] = receipts[s]
    <3>1. \A s \in SnapIds : s > Len(snapshots') => receipts[s] = "none"
      BY <2>2 DEF Honest, Unasked
    <3> QED
      BY <2>3, <3>1
  <2>7. Later(deletedAt) /\ Later(supersededAt) /\ landed \subseteq landed'
        /\ \A s \in landed' : s \in landed \/ receipts'[s] # "failed"
    BY <2>1 DEF Later
  <2> QED
    BY <2>2, <2>5, <2>6, <2>7, HonestMove
<1>12. CASE UNCHANGED vars
  BY <1>1, <1>12 DEF vars, queueVars, receiptVars, historyVars
<1> QED
  BY <1>2, <1>3, <1>4, <1>5, <1>6, <1>7, <1>8, <1>9, <1>10, <1>11, <1>12 DEF Next

----------------------------------------------------------------------------
(* The whole ledger: custody of every snapshot and the receipts for it. *)

Ledger == /\ TypeOK /\ ChainInv /\ FreshWritesNotCancelled
          /\ \A k \in Keys : Custody(k)
          /\ Honest

LEMMA LedgerInit == Started => Ledger
  BY InitType, ChainInit, FreshInit, CustodyInit, HonestInit DEF Ledger

LEMMA LedgerStep == Ledger /\ [Next]_vars => Ledger'
<1> SUFFICES ASSUME Ledger, [Next]_vars
             PROVE  Ledger'
  OBVIOUS
<1>1. TypeOK' /\ ChainInv' /\ FreshWritesNotCancelled'
  BY NextType, ChainStep, FreshStep DEF Ledger
<1>2. \A k \in Keys : Custody(k)'
  BY CustodyStep DEF Ledger, Honest
<1>3. Honest'
  BY HonestStep DEF Ledger
<1> QED
  BY <1>1, <1>2, <1>3 DEF Ledger

LEMMA LedgerHolds == Spec => []Ledger
<1>1. Init => Ledger
  BY InitIsStarted, LedgerInit
<1>2. Ledger /\ [Next]_vars => Ledger'
  BY LedgerStep
<1> QED
  BY <1>1, <1>2, PTL DEF Spec

\* A receipt speaks of its own snapshot (settleReceipts and receiptFor): whoever
\* is told "ok" has those very bytes renamed into place, whoever is told "failed"
\* has none of them there, and "superseded" and "deleted" are said only of what
\* such a cancellation covered.
THEOREM HonestReceipts == Spec => []ReceiptsAreHonest
<1>1. Ledger => ReceiptsAreHonest
  BY DEF Ledger, Honest
<1> QED
  BY <1>1, LedgerHolds, PTL

\* Nobody waits on work that nothing will finish: as long as a checked save's
\* receipt is unsettled, its snapshot is queued or a running drain has it.
THEOREM ReceiptsHaveWriters == Spec => []EveryReceiptHasAWriter
<1>1. Ledger => EveryReceiptHasAWriter
  <2> SUFFICES ASSUME Ledger, NEW k \in Keys, NEW s \in waiters[k], s \notin ToSet(queued[k])
               PROVE  \E d \in Running(k) : drains[k][d].snap = s
    BY DEF EveryReceiptHasAWriter
  <2>1. PICK d \in Drains : drains[k][d].stage # "none" /\ drains[k][d].snap = s
    BY DEF Ledger, Custody, Awaited, Held
  <2> QED
    BY <2>1 DEF Ledger, Custody, AtRest, Running
<1> QED
  BY <1>1, LedgerHolds, PTL


----------------------------------------------------------------------------
(* The bookkeeping of a quiet session. *)

Retired(k) == ~hasPendingOrTail(k) /\ failedSnapshots[k] = NoSnap =>
  /\ generations[k] = 0 /\ writtenGeneration[k] = 0
  /\ cancelledThrough[k] = [delete |-> 0, supersede |-> 0]
  /\ k \notin lastWriteFailure

Still(k) ==
  /\ queued'[k] = queued[k] /\ tails'[k] = tails[k] /\ failedSnapshots'[k] = failedSnapshots[k]
  /\ generations'[k] = generations[k] /\ writtenGeneration'[k] = writtenGeneration[k]
  /\ cancelledThrough'[k] = cancelledThrough[k]
  /\ k \in lastWriteFailure' => k \in lastWriteFailure

LEMMA RetiredStill == ASSUME NEW k \in Keys, Retired(k), Still(k) PROVE Retired(k)'
  BY DEF Retired, Still, hasPendingOrTail

LEMMA RetiredBusy ==
  ASSUME NEW k \in Keys, queued'[k] # <<>> \/ tails'[k] # NoDrain
  PROVE  Retired(k)'
  BY DEF Retired, hasPendingOrTail

LEMMA RetiredNow ==
  ASSUME TypeOK, NEW k \in Keys, Retire(k)
  PROVE  Retired(k)' /\ \A j \in Keys : j # k =>
           /\ generations'[j] = generations[j] /\ writtenGeneration'[j] = writtenGeneration[j]
           /\ cancelledThrough'[j] = cancelledThrough[j]
           /\ j \in lastWriteFailure' => j \in lastWriteFailure
  BY DEF Retire, Retired, TypeOK, IntakeTypeOK, OutcomeTypeOK

\* One more drain on some tails.
LEMMA TailRetired ==
  ASSUME TypeOK, NEW S \in SUBSET Keys, RunOnTail(S), NEW j \in Keys, Retired(j),
         UNCHANGED <<queued, generations, cancelledThrough, outcomeVars>>
  PROVE  Retired(j)'
<1>1. CASE j \in S
  <2>1. NewDrain(j) \in Drains /\ tails'[j] = NewDrain(j)
    BY <1>1, NewDrainIsFree DEF RunOnTail
  <2>2. tails'[j] # NoDrain
    BY <2>1 DEF Drains, NoDrain
  <2> QED
    BY <2>2, RetiredBusy
<1>2. CASE j \notin S
  BY <1>2, RetiredStill DEF Still, RunOnTail, outcomeVars
<1> QED
  BY <1>1, <1>2

LEMMA PutRetired ==
  ASSUME TypeOK, NEW k \in Keys, NEW header \in Metadata, NEW checked \in BOOLEAN,
         NEW content \in SnapIds, Custody(k), PutEntry(k, header, checked, content),
         NEW j \in Keys, Retired(j), tails'[j] = tails[j] \/ j = k,
         UNCHANGED <<cancelledThrough, outcomeVars>>
  PROVE  Retired(j)'
<1>1. CASE j = k
  <2>1. NewSnap \in ToSet(queued[k])'
    BY PutLine
  <2>2. queued'[k] # <<>>
    BY <2>1, RisingEmpty
  <2> QED
    BY <1>1, <2>2, RetiredBusy
<1>2. CASE j # k
  <2>1. queued'[j] = queued[j] /\ generations'[j] = generations[j]
    BY <1>2 DEF PutEntry, TypeOK, IntakeTypeOK
  <2> QED
    BY <1>2, <2>1, RetiredStill DEF Still, outcomeVars
<1> QED
  BY <1>1, <1>2

LEMMA DriveRetired ==
  ASSUME TypeOK, NEW k \in Keys, NEW header \in Metadata, NEW content \in SnapIds, Custody(k),
         EnqueueAndDrive(k, header, content), NEW j \in Keys, Retired(j),
         UNCHANGED <<cancelledThrough, outcomeVars>>
  PROVE  Retired(j)'
<1>1. tails'[j] = tails[j] \/ j = k
  BY DEF EnqueueAndDrive, RunOnTail
<1>2. PutEntry(k, header, TRUE, content)
  BY DEF EnqueueAndDrive
<1> QED
  BY <1>1, <1>2, PutRetired

LEMMA RetryRetired ==
  ASSUME TypeOK, \A i \in Keys : Custody(i), NEW quiescent,
         NEW failures \in SUBSET (Keys \X SnapsSoFar), Retry(failures, quiescent),
         UNCHANGED <<cancelledThrough, outcomeVars>>, NEW j \in Keys, Retired(j)
  PROVE  Retired(j)'
<1>1. PICK failure \in failures :
        EnqueueAndDrive(failure[1], snapshots[failure[2]].header, snapshots[failure[2]].content)
  BY DEF Retry
<1>2. failure[1] \in Keys /\ failure[2] \in SnapsSoFar
  OBVIOUS
<1>3. snapshots[failure[2]].header \in Metadata /\ snapshots[failure[2]].content \in SnapIds
  BY <1>2, SnapshotTyped DEF TypeOK
<1> QED
  BY <1>1, <1>2, <1>3, DriveRetired

LEMMA AbsorbRetired ==
  ASSUME TypeOK, NEW k \in Keys, NEW seen \in Metadata, NEW header \in Metadata,
         AbsorbExternal(k, seen, header), NEW j \in Keys, Retired(j)
  PROVE  Retired(j)'
<1>1. CASE j = k
  <2>1. queued'[k] = <<NewSnap>>
    BY DEF AbsorbExternal, TypeOK, IntakeTypeOK
  <2>2. queued'[k] # <<>>
    BY <2>1
  <2> QED
    BY <1>1, <2>2, RetiredBusy
<1>2. CASE j # k
  <2>1. /\ queued'[j] = queued[j] /\ generations'[j] = generations[j]
        /\ cancelledThrough'[j] = cancelledThrough[j]
        /\ UNCHANGED <<tails, outcomeVars>>
    BY <1>2 DEF AbsorbExternal, StopPendingWrites, TypeOK, IntakeTypeOK
  <2> QED
    BY <2>1, RetiredStill DEF Still, outcomeVars
<1> QED
  BY <1>1, <1>2

LEMMA DeleteRetired ==
  ASSUME TypeOK, NEW k \in Keys, DeleteSession(k), NEW j \in Keys, Retired(j)
  PROVE  Retired(j)'
<1>1. /\ queued' = [queued EXCEPT ![k] = <<>>] /\ UNCHANGED tails
      /\ failedSnapshots' = [failedSnapshots EXCEPT ![k] = NoSnap]
  BY DEF DeleteSession
<1>2. CASE tails[k] = NoDrain /\ Retire(k)
  <2>1. CASE j = k
    BY <1>2, <2>1, RetiredNow
  <2>2. CASE j # k
    <3>1. queued'[j] = queued[j] /\ failedSnapshots'[j] = failedSnapshots[j]
      BY <1>1, <2>2 DEF TypeOK, IntakeTypeOK, OutcomeTypeOK
    <3> QED
      BY <1>1, <1>2, <2>2, <3>1, RetiredNow, RetiredStill DEF Still
  <2> QED
    BY <2>1, <2>2
<1>3. CASE tails[k] # NoDrain
  <2>1. CASE j = k
    BY <1>1, <1>3, <2>1, RetiredBusy
  <2>2. CASE j # k
    <3>1. queued'[j] = queued[j] /\ failedSnapshots'[j] = failedSnapshots[j]
      BY <1>1, <2>2 DEF TypeOK, IntakeTypeOK, OutcomeTypeOK
    <3>2. /\ UNCHANGED <<generations, writtenGeneration>>
          /\ lastWriteFailure' = lastWriteFailure \ {k}
          /\ StopPendingWrites(k, "delete", "deleted")
      BY <1>3 DEF DeleteSession
    <3>3. cancelledThrough'[j] = cancelledThrough[j]
      BY <2>2, <3>2 DEF StopPendingWrites, TypeOK, IntakeTypeOK
    <3> QED
      BY <1>1, <3>1, <3>2, <3>3, RetiredStill DEF Still
  <2> QED
    BY <2>1, <2>2
<1> QED
  BY <1>2, <1>3 DEF DeleteSession

\* A drain at work has its session's tail taken.
LEMMA BusyDrain ==
  ASSUME ChainInv, NEW k \in Keys, NEW d \in Drains, drains[k][d].state # "idle"
  PROVE  tails[k] # NoDrain
  BY NoTailNoDrain

LEMMA WriteRetired ==
  ASSUME TypeOK, ChainInv, NEW k \in Keys, NEW d \in Drains,
         WriteBegins(k, d) \/ WriteStep(k, d), NEW j \in Keys, Retired(j)
  PROVE  Retired(j)'
<1>1. drains[k][d].state # "idle" /\ UNCHANGED tails
  BY DEF WriteStep, TmpWritten, TargetUnlinked, Renamed, RenameReturns, TmpDropped,
         FileDiscarded, WriteFails, FailureTidied, WriteBegins, AtLoop, AtStage
<1>2. CASE j = k
  BY <1>1, <1>2, BusyDrain, RetiredBusy
<1>3. CASE j # k
  <2>1. UNCHANGED <<generations, cancelledThrough>>
    BY DEF WriteStep, TmpWritten, TargetUnlinked, Renamed, RenameReturns, TmpDropped,
           FileDiscarded, WriteFails, FailureTidied, WriteBegins, queueVars
  <2>2. queued'[j] = queued[j]
    <3>1. UNCHANGED queued \/ queued' = [queued EXCEPT ![k] = Tail(@)]
      BY DEF WriteStep, TmpWritten, TargetUnlinked, Renamed, RenameReturns, TmpDropped,
             FileDiscarded, WriteFails, FailureTidied, WriteBegins, queueVars
    <3> QED
      BY <1>3, <3>1 DEF TypeOK, IntakeTypeOK
  <2>3. writtenGeneration'[j] = writtenGeneration[j]
    <3>1. UNCHANGED writtenGeneration \/ \E g : writtenGeneration' = [writtenGeneration EXCEPT ![k] = g]
      BY DEF WriteStep, TmpWritten, TargetUnlinked, Renamed, RenameReturns, TmpDropped,
             FileDiscarded, WriteFails, FailureTidied, WriteBegins, StartWrite, SkipWrite,
             EndWrite, Commit, RetainFailure, outcomeVars
    <3> QED
      BY <1>3, <3>1 DEF TypeOK, OutcomeTypeOK
  <2>4. failedSnapshots'[j] = failedSnapshots[j]
    <3>1. UNCHANGED failedSnapshots \/ \E s : failedSnapshots' = [failedSnapshots EXCEPT ![k] = s]
      BY DEF WriteStep, TmpWritten, TargetUnlinked, Renamed, RenameReturns, TmpDropped,
             FileDiscarded, WriteFails, FailureTidied, WriteBegins, Commit, RetainFailure,
             outcomeVars
    <3> QED
      BY <1>3, <3>1 DEF TypeOK, OutcomeTypeOK
  <2>5. j \in lastWriteFailure' => j \in lastWriteFailure
    BY <1>3 DEF WriteStep, TmpWritten, TargetUnlinked, Renamed, RenameReturns, TmpDropped,
           FileDiscarded, WriteFails, FailureTidied, WriteBegins, Commit, RetainFailure,
           outcomeVars
  <2> QED
    BY <1>1, <2>1, <2>2, <2>3, <2>4, <2>5, RetiredStill DEF Still
<1> QED
  BY <1>2, <1>3

\* Whoever ends the chain over an empty queue leaves no receipt unsettled, so it
\* is the failed snapshot alone that keeps the bookkeeping.
LEMMA NobodyWaits ==
  ASSUME NEW k \in Keys, Custody(k), queued[k] = <<>>,
         \A d \in Drains : drains[k][d].stage = "none"
  PROVE  waiters[k] = {} /\ inFlightSignature[k] = None
<1>1. ToSet(queued[k]) = {}
  BY RisingEmpty
<1> QED
  BY <1>1 DEF Custody, Awaited, Held, Published

LEMMA EndsRetired ==
  ASSUME TypeOK, ChainInv, NEW k \in Keys, NEW d \in Drains, Custody(k), DrainEnds(k, d),
         NEW j \in Keys, Retired(j)
  PROVE  Retired(j)'
<1>1. AtLoop(k, d) /\ tails[k] # NoDrain /\ drains[k][d].state # "idle"
  <2>1. AtLoop(k, d) /\ drains[k][d].state # "idle"
    BY DEF DrainEnds, AtLoop, AtStage
  <2> QED
    BY <2>1, BusyDrain
<1>2. CASE j # k
  <2>1. /\ queued'[j] = queued[j] /\ tails'[j] = tails[j]
        /\ failedSnapshots'[j] = failedSnapshots[j]
    BY <1>2 DEF DrainEnds, TypeOK, DrainTypeOK
  <2>2. \/ UNCHANGED <<generations, writtenGeneration, cancelledThrough, lastWriteFailure>>
        \/ Retire(k)
    BY DEF DrainEnds
  <2>3. /\ generations'[j] = generations[j] /\ writtenGeneration'[j] = writtenGeneration[j]
        /\ cancelledThrough'[j] = cancelledThrough[j]
        /\ j \in lastWriteFailure' => j \in lastWriteFailure
    BY <1>2, <2>2, RetiredNow
  <2> QED
    BY <2>1, <2>3, RetiredStill DEF Still
<1>3. CASE j = k /\ (tails[k] # d \/ queued[k] # <<>>)
  <2>1. tails'[k] = (IF tails[k] = d THEN NoDrain ELSE tails[k]) /\ queued' = queued
    BY DEF DrainEnds, TypeOK, DrainTypeOK
  <2> QED
    BY <1>1, <1>3, <2>1, RetiredBusy
<1>4. CASE j = k /\ tails[k] = d /\ queued[k] = <<>>
  <2>1. \A e \in Drains : drains[k][e].stage = "none"
    <3>1. \A e \in Drains : e # d => drains[k][e].state = "idle"
      BY <1>1, <1>4, SoleDrain
    <3>2. drains[k][d].stage = "none"
      BY <1>1 DEF Custody, AtRest, AtLoop, AtStage
    <3> QED
      BY <3>1, <3>2 DEF Custody, AtRest
  <2>2. waiters[k] = {}
    BY <1>4, <2>1, NobodyWaits
  <2>3. CASE failedSnapshots[k] = NoSnap
    <3>1. Retire(k)
      BY <1>4, <2>2, <2>3 DEF DrainEnds
    <3> QED
      BY <1>4, <3>1, RetiredNow
  <2>4. CASE failedSnapshots[k] # NoSnap
    BY <1>4, <2>4 DEF DrainEnds, Retired
  <2> QED
    BY <2>3, <2>4
<1> QED
  BY <1>2, <1>3, <1>4

LEMMA RetiredStep ==
  ASSUME Ledger, \A i \in Keys : Retired(i), [Next]_vars, NEW j \in Keys
  PROVE  Retired(j)'
<1> USE DEF Ledger
<1>1. ASSUME UNCHANGED <<queued, tails, failedSnapshots, generations, writtenGeneration,
                         cancelledThrough, lastWriteFailure>>
      PROVE  Retired(j)'
  BY <1>1, RetiredStill DEF Still
<1>2. ASSUME NEW k \in Keys, NEW header \in Metadata, Enqueue(k, header)
      PROVE  Retired(j)'
  <2>1. NewSnap \in SnapIds
    BY <1>2, RoomForOne DEF Enqueue
  <2> QED
    BY <1>2, <2>1, PutRetired DEF Enqueue
<1>3. ASSUME NEW k \in Keys, NEW header \in Metadata, EnqueueChecked(k, header)
      PROVE  Retired(j)'
  <2>1. NewSnap \in SnapIds
    BY <1>3, RoomForOne DEF EnqueueChecked
  <2> QED
    BY <1>3, <2>1, DriveRetired DEF EnqueueChecked
<1>4. ASSUME NEW k \in Keys, Flush(k)
      PROVE  Retired(j)'
  BY <1>4, TailRetired DEF Flush
<1>5. ASSUME NEW s \in SnapIds, TimerFires(s)
      PROVE  Retired(j)'
  <2>1. snapshots[s].key \in Keys
    BY <1>5, SnapshotTyped DEF TypeOK, IntakeTypeOK, TimerFires
  <2>2. RunOnTail({snapshots[s].key}) /\ {snapshots[s].key} \in SUBSET Keys
    BY <1>5, <2>1 DEF TimerFires
  <2> QED
    BY <1>5, <2>2, TailRetired DEF TimerFires
<1>6. ASSUME NEW k \in Keys, NEW seen \in Metadata, NEW header \in Metadata,
             AbsorbExternal(k, seen, header)
      PROVE  Retired(j)'
  BY <1>6, AbsorbRetired
<1>7. ASSUME NEW k \in Keys, DeleteSession(k)
      PROVE  Retired(j)'
  BY <1>7, DeleteRetired
<1>8. ASSUME NEW k \in Keys, NEW d \in Drains, DrainStep(k, d)
      PROVE  Retired(j)'
  BY <1>8, WriteRetired, EndsRetired DEF DrainStep, WriteStep
<1>9. CASE FlushAll
  BY <1>1, <1>9 DEF FlushAll, queueVars, outcomeVars
<1>10. CASE FlushStep
  <2>1. CASE FlushRound
    <3>1. Busy \in SUBSET Keys
      BY DEF Busy
    <3> QED
      BY <2>1, <3>1, TailRetired DEF FlushRound
  <2>2. CASE FlushDrained
    <3>1. UNCHANGED <<outcomeVars, cancelledThrough>>
      BY <2>2 DEF FlushDrained
    <3>2. CASE \E quiescent \in BOOLEAN : Retry(Retained, quiescent)
      <4>1. Retained \in SUBSET (Keys \X SnapsSoFar)
        BY DEF Retained, TypeOK, OutcomeTypeOK
      <4> QED
        BY <3>1, <3>2, <4>1, RetryRetired
    <3>3. CASE UNCHANGED <<queueVars, receiptVars, tails, drains>>
      BY <1>1, <3>1, <3>3 DEF queueVars, outcomeVars
    <3> QED
      BY <2>2, <3>2, <3>3 DEF FlushDrained
  <2>3. CASE FlushRetries
    BY <2>3, RetryRetired DEF FlushRetries, TypeOK, FlushTypeOK
  <2>4. CASE FlushEnds
    BY <1>1, <2>4 DEF FlushEnds, queueVars
  <2> QED
    BY <1>10, <2>1, <2>2, <2>3, <2>4 DEF FlushStep
<1>11. CASE CrashAndRestart
  BY <1>11 DEF CrashAndRestart, Retired
<1>12. CASE UNCHANGED vars
  BY <1>1, <1>12 DEF vars, queueVars, outcomeVars
<1> QED
  BY <1>2, <1>3, <1>4, <1>5, <1>6, <1>7, <1>8, <1>9, <1>10, <1>11, <1>12 DEF Next

\* Nothing grows with the sessions ever written (retireIfQuiescent): once a
\* session's queue is empty, its chain has ended and no failed snapshot is kept,
\* every generation, watermark, receipt and signature of it is gone.
THEOREM BookkeepingIsRetired == Spec => []BookkeepingRetires
<1>1. Init => \A k \in Keys : Retired(k)
  BY DEF Init, InitWith, Retired
<1>2. Ledger /\ (\A k \in Keys : Retired(k)) /\ [Next]_vars => (\A k \in Keys : Retired(k))'
  BY RetiredStep
<1>3. Ledger /\ (\A k \in Keys : Retired(k)) => BookkeepingRetires
  <2> SUFFICES ASSUME Ledger, NEW k \in Keys, Retired(k), ~hasPendingOrTail(k),
                      failedSnapshots[k] = NoSnap
               PROVE  /\ generations[k] = 0 /\ writtenGeneration[k] = 0
                      /\ cancelledThrough[k] = [delete |-> 0, supersede |-> 0]
                      /\ waiters[k] = {} /\ inFlightSignature[k] = None
                      /\ k \notin lastWriteFailure
    BY DEF BookkeepingRetires
  <2>1. tails[k] = NoDrain /\ queued[k] = <<>> /\ Custody(k) /\ ChainInv
    BY DEF hasPendingOrTail, Ledger
  <2>2. \A d \in Drains : drains[k][d].stage = "none"
    BY <2>1, NoTailNoDrain DEF Custody, AtRest
  <2>3. waiters[k] = {} /\ inFlightSignature[k] = None
    BY <2>1, <2>2, NobodyWaits
  <2> QED
    BY <2>3 DEF Retired
<1> QED
  BY <1>1, <1>2, <1>3, LedgerHolds, PTL DEF Spec


----------------------------------------------------------------------------
(* Every entry in line has its timer or a drain to come. *)

Driven(k, i) == \E d \in Active(k) : \/ drains[k][d].state = "waiting"
                                     \/ drains[k][d].remaining >= i
Driving(k) == \A i \in 1 .. Len(queued[k]) : queued[k][i] \in armed \/ Driven(k, i)

DrivesKept(k) == \A d \in Drains : drains[k][d].state # "idle" =>
  /\ drains'[k][d].state # "idle" /\ drains'[k][d].remaining = drains[k][d].remaining
  /\ drains[k][d].state = "waiting" => drains'[k][d].state = "waiting"

TimersKept(k) == \A s \in ToSet(queued[k]) : s \in armed => s \in armed'

LEMMA DrivenKept ==
  ASSUME NEW k \in Keys, DrivesKept(k), NEW i, Driven(k, i)
  PROVE  Driven(k, i)'
  BY DEF Driven, DrivesKept, Active

LEMMA DrivingKept ==
  ASSUME TypeOK, NEW k \in Keys, Driving(k), DrivesKept(k), TimersKept(k), queued'[k] = queued[k]
  PROVE  Driving(k)'
<1>1. \A i \in 1 .. Len(queued[k]) : queued[k][i] \in ToSet(queued[k])
  BY LineTyped, EntriesOf
<1>2. ASSUME NEW i \in 1 .. Len(queued[k])
      PROVE  queued'[k][i] \in armed' \/ Driven(k, i)'
  BY <1>1, <1>2, DrivenKept DEF Driving, TimersKept
<1> QED
  BY <1>2 DEF Driving

LEMMA WaitingDrives ==
  ASSUME NEW k \in Keys, NEW d \in Drains, drains'[k][d].state = "waiting"
  PROVE  Driving(k)'
  BY DEF Driving, Driven, Active

LEMMA EmptyDrives ==
  ASSUME NEW k \in Keys, queued'[k] = <<>>
  PROVE  Driving(k)'
  BY DEF Driving

\* An entry stands in the queue of its own session only.
LEMMA OthersTimers ==
  ASSUME NEW k \in Keys, NEW j \in Keys, j # k, Custody(k), Custody(j), NEW s \in ToSet(queued[j])
  PROVE  s \notin ToSet(queued[k])
  BY DEF Custody, InLine

LEMMA TailDrives ==
  ASSUME TypeOK, NEW S \in SUBSET Keys, RunOnTail(S), NEW j \in Keys
  PROVE  IF j \in S THEN Driving(j)' ELSE DrivesKept(j)
<1>1. CASE j \in S
  <2> DEFINE n == NewDrain(j)
  <2>1. n \in Drains
    BY <1>1, NewDrainIsFree DEF RunOnTail
  <2>2. drains'[j][n] = ChainedDrain(j)
    BY <1>1, <2>1 DEF RunOnTail, TypeOK, DrainTypeOK
  <2>3. drains'[j][n].state = "waiting"
    BY <2>2 DEF ChainedDrain, IdleDrain
  <2> QED
    BY <1>1, <2>1, <2>3, WaitingDrives
<1>2. CASE j \notin S
  BY <1>2 DEF RunOnTail, DrivesKept
<1> QED
  BY <1>1, <1>2

\* runOnTail for some sessions, whose timers alone may be cleared.
LEMMA TailDriving ==
  ASSUME TypeOK, NEW S \in SUBSET Keys, RunOnTail(S), NEW j \in Keys, Driving(j),
         j \notin S => queued'[j] = queued[j] /\ TimersKept(j)
  PROVE  Driving(j)'
  BY TailDrives, DrivingKept

LEMMA ClearedTimers ==
  ASSUME NEW S \in SUBSET Keys, ClearTimers(S), \A i \in Keys : Custody(i), NEW j \in Keys, j \notin S
  PROVE  TimersKept(j)
<1> SUFFICES ASSUME NEW s \in ToSet(queued[j]), s \in armed
             PROVE  s \in armed'
  BY DEF TimersKept
<1>1. ASSUME NEW k \in S
      PROVE  s \notin ToSet(queued[k])
  <2>1. k \in Keys /\ k # j
    OBVIOUS
  <2> QED
    BY <2>1, OthersTimers
<1> QED
  BY <1>1 DEF ClearTimers

LEMMA DriveDriving ==
  ASSUME TypeOK, \A i \in Keys : Custody(i), NEW k \in Keys, NEW header, NEW content,
         EnqueueAndDrive(k, header, content), NEW j \in Keys, Driving(j)
  PROVE  Driving(j)'
<1>1. RunOnTail({k}) /\ ClearTimers({k}) /\ {k} \in SUBSET Keys
  BY DEF EnqueueAndDrive
<1>2. ASSUME j \notin {k}
      PROVE  queued'[j] = queued[j] /\ TimersKept(j)
  BY <1>1, <1>2, ClearedTimers DEF EnqueueAndDrive, PutEntry, TypeOK, IntakeTypeOK
<1> QED
  BY <1>1, <1>2, TailDriving

LEMMA RetryDriving ==
  ASSUME TypeOK, \A i \in Keys : Custody(i), NEW quiescent,
         NEW failures \in SUBSET (Keys \X SnapsSoFar), Retry(failures, quiescent),
         NEW j \in Keys, Driving(j)
  PROVE  Driving(j)'
<1>1. PICK failure \in failures :
        EnqueueAndDrive(failure[1], snapshots[failure[2]].header, snapshots[failure[2]].content)
  BY DEF Retry
<1>2. failure[1] \in Keys
  OBVIOUS
<1> QED
  BY <1>1, <1>2, DriveDriving

\* A debounced write sets a timer of its own; the one it may take away is that of
\* the entry it replaces.
LEMMA EnqueueDriving ==
  ASSUME TypeOK, \A i \in Keys : Custody(i), NEW k \in Keys, NEW header \in Metadata,
         Enqueue(k, header), NEW j \in Keys, Driving(j)
  PROVE  Driving(j)'
<1>1. /\ UNCHANGED drains
      /\ armed' = (IF Replaces(k, FALSE) THEN armed \ {Last(queued[k])} ELSE armed) \cup {NewSnap}
      /\ queued' = [queued EXCEPT ![k] =
                      Append(IF Replaces(k, FALSE) THEN Front(@) ELSE @, NewSnap)]
  BY DEF Enqueue, PutEntry
<1>2. DrivesKept(j)
  BY <1>1 DEF DrivesKept
<1>3. /\ queued[k] \in Seq(SnapsSoFar) /\ SnapsSoFar \in SUBSET Nat /\ Rising(queued[k])
      /\ NewSnap \in Nat
  BY LineTyped DEF Custody, InLine
<1>4. CASE j # k
  <2>1. queued'[j] = queued[j]
    BY <1>1, <1>4 DEF TypeOK, IntakeTypeOK
  <2>2. ASSUME NEW s \in ToSet(queued[j]), s \in armed
        PROVE  s \in armed'
    <3>1. s \notin ToSet(queued[k])
      BY <1>4, OthersTimers
    <3>2. Replaces(k, FALSE) => Last(queued[k]) \in ToSet(queued[k])
      BY <1>3, FrontOf DEF Replaces
    <3> QED
      BY <1>1, <2>2, <3>1, <3>2
  <2> QED
    BY <1>2, <2>1, <2>2, DrivingKept DEF TimersKept
<1>5. CASE j = k
  <2> DEFINE kept == IF Replaces(k, FALSE) THEN Front(queued[k]) ELSE queued[k]
  <2>1. queued'[k] = Append(kept, NewSnap)
    BY <1>1 DEF TypeOK, IntakeTypeOK
  <2>2. /\ kept \in Seq(SnapsSoFar)
        /\ \A i \in 1 .. Len(kept) : /\ i \in 1 .. Len(queued[k]) /\ kept[i] = queued[k][i]
                                     /\ kept[i] \in armed => kept[i] \in armed'
    <3>1. CASE Replaces(k, FALSE)
      <4> DEFINE q == queued[k]
      <4>1. q # <<>> /\ kept = Front(q)
        BY <3>1 DEF Replaces
      <4> HIDE DEF kept, q
      <4>2. q \in Seq(SnapsSoFar) /\ SnapsSoFar \in SUBSET Nat /\ Rising(q)
        BY <1>3 DEF q
      <4>3. /\ Front(q) \in Seq(SnapsSoFar)
            /\ \A i \in 1 .. Len(Front(q)) : i \in 1 .. Len(q) /\ Front(q)[i] = q[i]
            /\ \A s \in ToSet(Front(q)) : s < Last(q)
        BY <4>1, <4>2, FrontOf
      <4>4. ASSUME NEW i \in 1 .. Len(Front(q))
            PROVE  Front(q)[i] # Last(q)
        <5>1. Front(q)[i] \in ToSet(Front(q))
          BY <4>3, EntriesOf
        <5>2. Front(q)[i] < Last(q) /\ Front(q)[i] \in Nat
          BY <4>2, <4>3, <5>1, EntriesOf
        <5> QED
          BY <5>2
      <4>5. armed' = (armed \ {Last(q)}) \cup {NewSnap}
        BY <1>1, <3>1 DEF q
      <4>6. \A i \in 1 .. Len(kept) : kept[i] \in armed => kept[i] \in armed'
        BY <4>1, <4>4, <4>5
      <4>7. \A i \in 1 .. Len(kept) : i \in 1 .. Len(q) /\ kept[i] = q[i]
        BY <4>1, <4>3
      <4> QED
        BY <4>1, <4>3, <4>6, <4>7 DEF q
    <3>2. CASE ~Replaces(k, FALSE)
      BY <1>1, <1>3, <3>2
    <3> QED
      BY <3>1, <3>2
  <2> HIDE DEF kept
  <2>3. /\ Len(kept) \in Nat /\ Len(Append(kept, NewSnap)) = Len(kept) + 1
        /\ Append(kept, NewSnap)[Len(kept) + 1] = NewSnap
        /\ \A i \in 1 .. Len(kept) : Append(kept, NewSnap)[i] = kept[i]
    BY <1>3, <2>2, AppendOf
  <2>4. NewSnap \in armed'
    BY <1>1
  <2>5. ASSUME NEW i \in 1 .. Len(queued'[k])
        PROVE  queued'[k][i] \in armed' \/ Driven(k, i)'
    <3>1. CASE i = Len(kept) + 1
      BY <2>1, <2>3, <2>4, <3>1
    <3>2. CASE i \in 1 .. Len(kept)
      <4>1. i \in 1 .. Len(queued[k]) /\ queued'[k][i] = queued[k][i]
            /\ (queued[k][i] \in armed => queued[k][i] \in armed')
        BY <2>1, <2>2, <2>3, <3>2
      <4>2. queued[k][i] \in armed \/ Driven(k, i)
        BY <1>5, <4>1 DEF Driving
      <4> QED
        BY <1>2, <1>5, <4>1, <4>2, DrivenKept
    <3>3. i \in 1 .. Len(kept) + 1
      BY <2>1, <2>3
    <3>4. i \in 1 .. Len(kept) \/ i = Len(kept) + 1
      BY <2>3, <3>3
    <3> QED
      BY <3>1, <3>2, <3>4
  <2> QED
    BY <1>5, <2>5 DEF Driving
<1> QED
  BY <1>4, <1>5


LEMMA AbsorbDriving ==
  ASSUME TypeOK, \A i \in Keys : Custody(i), NEW k \in Keys, NEW seen, NEW header,
         AbsorbExternal(k, seen, header), NEW j \in Keys, Driving(j)
  PROVE  Driving(j)'
<1>1. /\ UNCHANGED drains /\ armed' = (armed \ ToSet(queued[k])) \cup {NewSnap}
      /\ queued' = [queued EXCEPT ![k] = <<NewSnap>>]
  BY DEF AbsorbExternal
<1>2. CASE j = k
  <2>1. queued'[k] = <<NewSnap>> /\ NewSnap \in armed'
    BY <1>1 DEF TypeOK, IntakeTypeOK
  <2>2. \A i \in 1 .. Len(queued'[k]) : queued'[k][i] \in armed'
    BY <2>1
  <2> QED
    BY <1>2, <2>2 DEF Driving
<1>3. CASE j # k
  <2>1. queued'[j] = queued[j] /\ DrivesKept(j)
    BY <1>1, <1>3 DEF TypeOK, IntakeTypeOK, DrivesKept
  <2>2. TimersKept(j)
    BY <1>1, <1>3, OthersTimers DEF TimersKept
  <2> QED
    BY <2>1, <2>2, DrivingKept
<1> QED
  BY <1>2, <1>3

LEMMA DeleteDriving ==
  ASSUME TypeOK, \A i \in Keys : Custody(i), NEW k \in Keys, DeleteSession(k),
         NEW j \in Keys, Driving(j)
  PROVE  Driving(j)'
<1>1. UNCHANGED drains /\ ClearTimers({k}) /\ queued' = [queued EXCEPT ![k] = <<>>]
  BY DEF DeleteSession
<1>2. CASE j = k
  BY <1>1, <1>2, EmptyDrives DEF TypeOK, IntakeTypeOK
<1>3. CASE j # k
  <2>1. queued'[j] = queued[j] /\ DrivesKept(j)
    BY <1>1, <1>3 DEF TypeOK, IntakeTypeOK, DrivesKept
  <2>2. TimersKept(j)
    BY <1>1, <1>3, ClearedTimers
  <2> QED
    BY <2>1, <2>2, DrivingKept
<1> QED
  BY <1>2, <1>3

\* A timer fires: its entry is its session's, behind whose tail a drain is put.
LEMMA TimerDriving ==
  ASSUME TypeOK, \A i \in Keys : Custody(i), NEW s \in SnapIds, TimerFires(s),
         NEW j \in Keys, Driving(j)
  PROVE  Driving(j)'
<1>1. snapshots[s].key \in Keys
  BY SnapshotTyped DEF TypeOK, IntakeTypeOK, TimerFires
<1>2. /\ RunOnTail({snapshots[s].key}) /\ {snapshots[s].key} \in SUBSET Keys
      /\ armed' = armed \ {s} /\ queued' = queued
  BY <1>1 DEF TimerFires
<1>3. ASSUME j \notin {snapshots[s].key}
      PROVE  TimersKept(j)
  BY <1>2, <1>3 DEF TimersKept, Custody, InLine
<1> QED
  BY <1>2, <1>3, TailDriving

\* A write begins: who was to write the entry that becomes the i-th still is.
LEMMA BeginKeepsDrivers ==
  ASSUME TypeOK, ChainInv, FreshWritesNotCancelled, NEW k \in Keys, NEW d \in Drains,
         WriteBegins(k, d), NEW i \in Nat, i + 1 \in 1 .. Len(queued[k]),
         NEW e \in Drains, drains[k][e].state # "idle",
         drains[k][e].state = "waiting" \/ drains[k][e].remaining >= i + 1
  PROVE  /\ drains'[k][e].state # "idle"
         /\ drains'[k][e].state = "waiting" \/ drains'[k][e].remaining >= i
         /\ e # d => drains'[k][e].state = "waiting"
<1>1. /\ drains'[k][d].state = "running"
      /\ drains'[k][d].remaining = WritesLeft(k, d) - 1
      /\ \A j \in Keys, c \in Drains : ~(j = k /\ c = d) => drains'[j][c] = drains[j][c]
  BY WriteStarts
<1>2. AtLoop(k, d) /\ Len(queued[k]) \in Nat
  BY LineTyped, EntriesOf DEF WriteBegins
<1>3. drains[k][e].state \in {"waiting", "running"} /\ drains[k][d].state \in {"waiting", "running"}
  BY <1>2 DEF TypeOK, DrainTypeOK, DrainRecord, AtLoop, AtStage
<1>4. CASE e = d /\ drains[k][d].state = "waiting"
  <2>1. WritesLeft(k, d) = Len(queued[k])
    BY <1>4 DEF WritesLeft
  <2>2. drains'[k][d].remaining >= i
    BY <1>1, <1>2, <2>1
  <2> QED
    BY <1>1, <1>4, <2>2
<1>5. CASE e = d /\ drains[k][d].state = "running"
  <2>1. WritesLeft(k, d) = drains[k][d].remaining /\ drains[k][d].remaining >= i + 1
    BY <1>5 DEF WritesLeft
  <2>2. drains[k][d].remaining \in Nat
    BY DEF TypeOK, DrainTypeOK, DrainRecord
  <2>3. drains'[k][d].remaining >= i
    BY <1>1, <2>1, <2>2
  <2> QED
    BY <1>1, <1>5, <2>3
<1>6. CASE e # d
  <2>1. PICK c \in Seq(Drains) : IsChain(k, c)
    BY DEF ChainInv
  <2>2. c[1] = d
    BY <1>2, <1>3, <2>1, WorkingIsFirst DEF AtLoop, AtStage
  <2>3. drains[k][e].state # "running"
    BY <1>6, <2>1, <2>2, WorkingIsFirst
  <2> QED
    BY <1>1, <1>3, <1>6, <2>3
<1> QED
  BY <1>3, <1>4, <1>5, <1>6

LEMMA BeginDriving ==
  ASSUME TypeOK, ChainInv, FreshWritesNotCancelled, NEW k \in Keys, NEW d \in Drains,
         WriteBegins(k, d), NEW j \in Keys, Driving(j)
  PROVE  Driving(j)'
<1>1. \A i \in Keys, e \in Drains : ~(i = k /\ e = d) => drains'[i][e] = drains[i][e]
  BY WriteStarts
<1>2. /\ queued' = [queued EXCEPT ![k] = Tail(@)] /\ UNCHANGED armed /\ queued[k] # <<>>
  BY DEF WriteBegins
<1>3. CASE j # k
  <2>1. queued'[j] = queued[j] /\ TimersKept(j)
    BY <1>2, <1>3 DEF TypeOK, IntakeTypeOK, TimersKept
  <2>2. DrivesKept(j)
    BY <1>1, <1>3 DEF DrivesKept
  <2> QED
    BY <2>1, <2>2, DrivingKept
<1>4. CASE j = k
  <2> DEFINE q == queued[k]
  <2>1. queued'[k] = Tail(q)
    BY <1>2 DEF TypeOK, IntakeTypeOK
  <2>2. q \in Seq(SnapsSoFar) /\ SnapsSoFar \in SUBSET Nat /\ q # <<>>
    BY <1>2, LineTyped
  <2> HIDE DEF q
  <2>3. /\ Len(Tail(q)) = Len(q) - 1 /\ Len(q) \in Nat
        /\ \A i \in 1 .. Len(Tail(q)) : i + 1 \in 1 .. Len(q) /\ Tail(q)[i] = q[i + 1]
    BY <2>2, TailOf, EntriesOf
  <2>4. ASSUME NEW i \in 1 .. Len(Tail(q))
        PROVE  Tail(q)[i] \in armed' \/ Driven(k, i)'
    <3>1. i + 1 \in 1 .. Len(q) /\ Tail(q)[i] = q[i + 1] /\ i \in Nat
      BY <2>3
    <3>2. q[i + 1] \in armed \/ Driven(k, i + 1)
      BY <1>4, <3>1 DEF Driving, q
    <3>3. CASE q[i + 1] \in armed
      BY <1>2, <3>1, <3>3
    <3>4. CASE Driven(k, i + 1)
      <4>1. PICK e \in Active(k) : \/ drains[k][e].state = "waiting"
                                   \/ drains[k][e].remaining >= i + 1
        BY <3>4 DEF Driven
      <4>2. e \in Drains /\ drains[k][e].state # "idle" /\ i + 1 \in 1 .. Len(queued[k])
        BY <3>1, <4>1 DEF Active, q
      <4>3. /\ drains'[k][e].state # "idle"
            /\ drains'[k][e].state = "waiting" \/ drains'[k][e].remaining >= i
        BY <3>1, <4>1, <4>2, BeginKeepsDrivers
      <4> QED
        BY <4>2, <4>3 DEF Driven, Active
    <3> QED
      BY <3>2, <3>3, <3>4
  <2> QED
    BY <1>4, <2>1, <2>4 DEF Driving
<1> QED
  BY <1>3, <1>4

LEMMA WriteKeepsDrivers ==
  ASSUME TypeOK, NEW k \in Keys, NEW d \in Drains, Custody(k), WriteStep(k, d), NEW j \in Keys
  PROVE  DrivesKept(j) /\ UNCHANGED <<queued, armed>>
<1>1. /\ UNCHANGED <<queued, armed>> /\ drains[k][d].state = "running"
      /\ \E r : SetDrain(k, d, r) /\ r.state = "running" /\ r.remaining = drains[k][d].remaining
  <2>1. CASE \E r : Moves(k, d, r)
    BY <2>1 DEF Moves, AtWork, queueVars
  <2>2. CASE \E answer : Ends(k, d, answer)
    <3>1. /\ UNCHANGED <<queued, armed>> /\ drains[k][d].state = "running"
          /\ SetDrain(k, d, BackToLoop(drains[k][d]))
      BY <2>2 DEF Ends, AtWork, EndWrite, queueVars
    <3>2. PICK r : r = BackToLoop(drains[k][d])
      OBVIOUS
    <3>3. r.state = "running" /\ r.remaining = drains[k][d].remaining
      BY <3>2 DEF BackToLoop, IdleDrain
    <3> QED
      BY <3>1, <3>2, <3>3
  <2> QED
    BY <2>1, <2>2, StepMovesOrEnds
<1>2. PICK r : SetDrain(k, d, r) /\ r.state = "running" /\ r.remaining = drains[k][d].remaining
  BY <1>1
<1>3. \A i \in Keys, e \in Drains :
        drains'[i][e] = IF i = k /\ e = d THEN r ELSE drains[i][e]
  BY <1>2 DEF SetDrain, TypeOK, DrainTypeOK
<1>4. DrivesKept(j)
  BY <1>1, <1>2, <1>3 DEF DrivesKept
<1> QED
  BY <1>1, <1>4

LEMMA WriteDriving ==
  ASSUME TypeOK, NEW k \in Keys, NEW d \in Drains, Custody(k), WriteStep(k, d),
         NEW j \in Keys, Driving(j)
  PROVE  Driving(j)'
  BY WriteKeepsDrivers, DrivingKept DEF TimersKept

\* A drain leaves its loop with nothing left to write, or nothing in line.
LEMMA EndsKeepsDrivers ==
  ASSUME TypeOK, NEW k \in Keys, NEW d \in Drains, DrainEnds(k, d), queued[k] # <<>>
  PROVE  /\ drains[k][d].state # "waiting" /\ drains[k][d].remaining = 0
         /\ \A e \in Drains : e # d => /\ drains'[k][e].state = drains[k][e].state
                                       /\ drains'[k][e].remaining = drains[k][e].remaining
<1>1. /\ drains' = [drains EXCEPT ![k] =
           [e \in Drains |-> IF e = d THEN IdleDrain
                             ELSE IF @[e].after = d THEN [@[e] EXCEPT !.after = NoDrain]
                             ELSE @[e]]]
      /\ WritesLeft(k, d) = 0
  BY DEF DrainEnds, ReleaseSuccessor
<1>2. \A e \in Drains : drains'[k][e] = IF e = d THEN IdleDrain
                           ELSE IF drains[k][e].after = d
                                THEN [drains[k][e] EXCEPT !.after = NoDrain]
                                ELSE drains[k][e]
  BY <1>1 DEF TypeOK, DrainTypeOK
<1>3. \A r \in DrainRecord : LET s == [r EXCEPT !.after = NoDrain]
                             IN  s.state = r.state /\ s.remaining = r.remaining
  BY DEF DrainRecord
<1>4. \A e \in Drains : drains[k][e] \in DrainRecord
  BY DEF TypeOK, DrainTypeOK
<1>5. ASSUME NEW e \in Drains, e # d
      PROVE  /\ drains'[k][e].state = drains[k][e].state
             /\ drains'[k][e].remaining = drains[k][e].remaining
  <2>1. CASE drains[k][e].after = d
    <3>1. drains'[k][e] = [drains[k][e] EXCEPT !.after = NoDrain]
      BY <1>2, <1>5, <2>1
    <3> QED
      BY <1>3, <1>4, <3>1
  <2>2. CASE drains[k][e].after # d
    <3>1. drains'[k][e] = drains[k][e]
      BY <1>2, <1>5, <2>2
    <3> QED
      BY <3>1
  <2> QED
    BY <2>1, <2>2
<1>6. Len(queued[k]) \in Nat /\ Len(queued[k]) > 0
  BY LineTyped, TailOf, EntriesOf
<1>7. drains[k][d].state # "waiting" /\ drains[k][d].remaining = 0
  BY <1>1, <1>6 DEF WritesLeft
<1> QED
  BY <1>5, <1>7

LEMMA EndsDriving ==
  ASSUME TypeOK, NEW k \in Keys, NEW d \in Drains, DrainEnds(k, d), NEW j \in Keys, Driving(j)
  PROVE  Driving(j)'
<1>1. /\ UNCHANGED <<queued, armed>>
      /\ drains' = [drains EXCEPT ![k] =
           [e \in Drains |-> IF e = d THEN IdleDrain
                             ELSE IF @[e].after = d THEN [@[e] EXCEPT !.after = NoDrain]
                             ELSE @[e]]]
  BY DEF DrainEnds, ReleaseSuccessor
<1>2. CASE j # k
  <2>1. DrivesKept(j)
    BY <1>1, <1>2 DEF TypeOK, DrainTypeOK, DrivesKept
  <2> QED
    BY <1>1, <2>1, DrivingKept DEF TimersKept
<1>3. CASE j = k /\ queued[k] = <<>>
  BY <1>1, <1>3, EmptyDrives
<1>4. CASE j = k /\ queued[k] # <<>>
  <2>1. ASSUME NEW i \in 1 .. Len(queued[k]), Driven(k, i)
        PROVE  Driven(k, i)'
    <3>1. PICK e \in Active(k) : drains[k][e].state = "waiting" \/ drains[k][e].remaining >= i
      BY <2>1 DEF Driven
    <3>2. e \in Drains /\ drains[k][e].state # "idle" /\ e # d
      BY <1>4, <3>1, EndsKeepsDrivers DEF Active
    <3>3. /\ drains'[k][e].state = drains[k][e].state
          /\ drains'[k][e].remaining = drains[k][e].remaining
      BY <1>4, <3>2, EndsKeepsDrivers
    <3> QED
      BY <3>1, <3>2, <3>3 DEF Driven, Active
  <2> QED
    BY <1>1, <1>4, <2>1 DEF Driving
<1> QED
  BY <1>2, <1>3, <1>4

LEMMA DrivingStep ==
  ASSUME Ledger, \A i \in Keys : Driving(i), [Next]_vars, NEW j \in Keys
  PROVE  Driving(j)'
<1> USE DEF Ledger
<1>1. ASSUME UNCHANGED <<queued, armed, drains>>
      PROVE  Driving(j)'
  BY <1>1, DrivingKept DEF DrivesKept, TimersKept
<1>2. ASSUME NEW k \in Keys, NEW header \in Metadata, Enqueue(k, header)
      PROVE  Driving(j)'
  BY <1>2, EnqueueDriving
<1>3. ASSUME NEW k \in Keys, NEW header \in Metadata, EnqueueChecked(k, header)
      PROVE  Driving(j)'
  BY <1>3, DriveDriving DEF EnqueueChecked
<1>4. ASSUME NEW k \in Keys, Flush(k)
      PROVE  Driving(j)'
  <2>1. RunOnTail({k}) /\ ClearTimers({k}) /\ {k} \in SUBSET Keys /\ queued' = queued
    BY <1>4 DEF Flush
  <2> QED
    BY <2>1, ClearedTimers, TailDriving
<1>5. ASSUME NEW s \in SnapIds, TimerFires(s)
      PROVE  Driving(j)'
  BY <1>5, TimerDriving
<1>6. ASSUME NEW k \in Keys, NEW seen \in Metadata, NEW header \in Metadata,
             AbsorbExternal(k, seen, header)
      PROVE  Driving(j)'
  BY <1>6, AbsorbDriving
<1>7. ASSUME NEW k \in Keys, DeleteSession(k)
      PROVE  Driving(j)'
  BY <1>7, DeleteDriving
<1>8. ASSUME NEW k \in Keys, NEW d \in Drains, DrainStep(k, d)
      PROVE  Driving(j)'
  BY <1>8, BeginDriving, WriteDriving, EndsDriving DEF DrainStep, WriteStep
<1>9. CASE FlushAll
  BY <1>1, <1>9 DEF FlushAll, queueVars
<1>10. CASE FlushStep
  <2>1. CASE FlushRound
    <3>1. RunOnTail(Busy) /\ ClearTimers(Busy) /\ Busy \in SUBSET Keys /\ queued' = queued
      BY <2>1 DEF FlushRound, Busy
    <3> QED
      BY <3>1, ClearedTimers, TailDriving
  <2>2. CASE FlushDrained
    <3>1. CASE \E quiescent \in BOOLEAN : Retry(Retained, quiescent)
      <4>1. Retained \in SUBSET (Keys \X SnapsSoFar)
        BY DEF Retained, TypeOK, OutcomeTypeOK
      <4> QED
        BY <3>1, <4>1, RetryDriving
    <3>2. CASE UNCHANGED <<queueVars, receiptVars, tails, drains>>
      BY <1>1, <3>2 DEF queueVars
    <3> QED
      BY <2>2, <3>1, <3>2 DEF FlushDrained
  <2>3. CASE FlushRetries
    BY <2>3, RetryDriving DEF FlushRetries, TypeOK, FlushTypeOK
  <2>4. CASE FlushEnds
    BY <1>1, <2>4 DEF FlushEnds, queueVars
  <2> QED
    BY <1>10, <2>1, <2>2, <2>3, <2>4 DEF FlushStep
<1>11. CASE CrashAndRestart
  BY <1>11, EmptyDrives DEF CrashAndRestart
<1>12. CASE UNCHANGED vars
  BY <1>1, <1>12 DEF vars, queueVars
<1> QED
  BY <1>2, <1>3, <1>4, <1>5, <1>6, <1>7, <1>8, <1>9, <1>10, <1>11, <1>12 DEF Next

\* No entry is stranded: a timer is cleared only where runOnTail puts a drain
\* behind the tail, and drainQueued leaves its loop only after it has tried as
\* many entries as were queued when it began.
THEOREM NothingStranded == Spec => []NoStrandedEntry
<1>1. Init => \A k \in Keys : Driving(k)
  BY DEF Init, InitWith, Driving
<1>2. Ledger /\ (\A k \in Keys : Driving(k)) /\ [Next]_vars => (\A k \in Keys : Driving(k))'
  BY DrivingStep
<1>3. (\A k \in Keys : Driving(k)) => NoStrandedEntry
  BY DEF Driving, Driven, NoStrandedEntry
<1> QED
  BY <1>1, <1>2, <1>3, LedgerHolds, PTL DEF Spec
=============================================================================
