------------------ MODULE SessionPersistenceQueueFileProofs ------------------
(***************************************************************************)
(* What the queue promises of a session's file, for every number of        *)
(* sessions, drains, snapshots and faults: a saved file is not lost, a     *)
(* deleted one stays gone, and data older than what the file held never    *)
(* comes back, each but for the cases its theorem names.                   *)
(***************************************************************************)
EXTENDS SessionPersistenceQueueProofs

----------------------------------------------------------------------------
(* The file of a session.  Which of the snapshots that landed it holds, and  *)
(* what may become of a write that a deletion or an external edit overtook.  *)

Landed(k) == landed \cap SnapsOf(k)

\* What landed is older than what is in hand, and that than what is in line.
Behind(k) == \A s \in Landed(k) :
  /\ \A t \in ToSet(queued[k]) : s < t
  /\ \A d \in Drains : drains[k][d].stage # "none" => s <= drains[k][d].snap

\* The file holds the data of the last snapshot that landed.
LastOnDisk(k) == disk[k] # None =>
  \A s \in Landed(k) : (\A t \in Landed(k) : t <= s) => disk[k].content = snapshots[s].content

FreshInLine(k) == \A s \in ToSet(queued[k]) : s > deletedAt[k] /\ s > supersededAt[k]

\* A write whose session was deleted knows it by its watermark and leaves nothing
\* behind; one that was superseded has its reconciliation in line.
Obsolete(k, s) == s <= deletedAt[k]
HandMarks(k, w) ==
  /\ Obsolete(k, w.snap) <=> Discards(k, Generation(w.snap))
  /\ Generation(w.snap) <= cancelledThrough[k].supersede => w.snap <= supersededAt[k]
  /\ w.snap <= supersededAt[k] => queued[k] # <<>> \/ Obsolete(k, w.snap)
  /\ w.stage \in {"abandoning", "tidying"} =>
       w.snap <= supersededAt[k] \/ Obsolete(k, w.snap)
  /\ w.stage = "discarding" \/ (w.stage = "abandoning" /\ w.discard) => Obsolete(k, w.snap)
  /\ ~dir[k] => Obsolete(k, w.snap)
  /\ w.stage \in {"unlinking", "renaming"} =>
       IF tmp[k] = None THEN Obsolete(k, w.snap)
                        ELSE tmp[k].content = snapshots[w.snap].content
  /\ w.stage = "renamed" /\ disk[k] = None => Obsolete(k, w.snap)
Marked(k) == \A d \in Drains : drains[k][d].stage # "none" => HandMarks(k, drains[k][d])

FailedLive(k) == failedSnapshots[k] # NoSnap => failedSnapshots[k] > deletedAt[k]

Filed(k) == Behind(k) /\ LastOnDisk(k) /\ FreshInLine(k) /\ Marked(k) /\ FailedLive(k)

\* What the steps that do not touch a session's files or marks do to it: they may
\* put an entry in line, start and end drains between writes, or retire it.
HandsSame(k) == \A d \in Drains :
  \/ /\ drains'[k][d].stage = drains[k][d].stage /\ drains'[k][d].snap = drains[k][d].snap
     /\ drains'[k][d].discard = drains[k][d].discard
  \/ drains[k][d].stage = "none" /\ drains'[k][d].stage = "none"

LineGrows(k) ==
  /\ \A t \in ToSet(queued'[k]) : t \in ToSet(queued[k]) \/ t = NewSnap
  /\ queued'[k] = queued[k] \/ (queued'[k] # <<>> /\ NewSnap \in ToSet(queued'[k]))
  /\ \A s \in SnapsOf(k)' : s \in SnapsOf(k) \/ (s = NewSnap /\ NewSnap \in ToSet(queued'[k]))

FilesSame(k) ==
  /\ disk'[k] = disk[k] /\ tmp'[k] = tmp[k] /\ dir'[k] = dir[k]
  /\ leftover'[k] = leftover[k] /\ failedSnapshots'[k] = failedSnapshots[k]
  /\ deletedAt'[k] = deletedAt[k] /\ supersededAt'[k] = supersededAt[k]

Mild(k) ==
  /\ Longer /\ Landed(k)' = Landed(k) /\ LineGrows(k) /\ HandsSame(k) /\ FilesSame(k)
  /\ \/ cancelledThrough'[k] = cancelledThrough[k]
     \/ \A d \in Drains : drains'[k][d].stage = "none"
  /\ crashedAt' = crashedAt

LEMMA LandedTyped ==
  ASSUME TypeOK, Honest, NEW k \in Keys
  PROVE  /\ Landed(k) \subseteq SnapsSoFar /\ SnapsSoFar \subseteq Nat
         /\ \A s \in SnapsSoFar : s <= Len(snapshots) /\ s < NewSnap /\ s # NoSnap
         /\ deletedAt[k] \in Nat /\ supersededAt[k] \in Nat /\ Len(snapshots) \in Nat
         /\ deletedAt[k] <= Len(snapshots) /\ supersededAt[k] <= Len(snapshots)
         /\ NewSnap = Len(snapshots) + 1
<1>1. Len(snapshots) \in Nat
  BY LineTyped
<1>2. /\ SnapsSoFar \subseteq Nat /\ NewSnap = Len(snapshots) + 1
      /\ \A s \in SnapsSoFar : s <= Len(snapshots) /\ s < NewSnap /\ s # NoSnap
  BY <1>1 DEF SnapsSoFar, NewSnap, NoSnap
<1>3. Landed(k) \subseteq SnapsSoFar /\ deletedAt[k] \in Nat /\ supersededAt[k] \in Nat
  BY DEF Landed, TypeOK, HistoryTypeOK
<1>4. deletedAt[k] <= Len(snapshots) /\ supersededAt[k] <= Len(snapshots)
  BY DEF Honest, Watermarked
<1> QED
  BY <1>1, <1>2, <1>3, <1>4

LEMMA MildFiled ==
  ASSUME TypeOK, Honest, NEW k \in Keys, Filed(k), Mild(k)
  PROVE  Filed(k)'
<1>1. /\ Landed(k) \subseteq SnapsSoFar /\ SnapsSoFar \subseteq Nat
      /\ \A s \in SnapsSoFar : s <= Len(snapshots) /\ s < NewSnap
      /\ deletedAt[k] \in Nat /\ supersededAt[k] \in Nat /\ NewSnap \in Nat
      /\ deletedAt[k] < NewSnap /\ supersededAt[k] < NewSnap
  BY LandedTyped
<1>2. \A s \in SnapsSoFar : snapshots'[s] = snapshots[s]
  BY DEF Mild, Longer
<1>3. ASSUME NEW d \in Drains, drains'[k][d].stage # "none"
      PROVE  /\ drains[k][d].stage # "none" /\ drains'[k][d].stage = drains[k][d].stage
             /\ drains'[k][d].snap = drains[k][d].snap /\ drains[k][d].snap \in SnapsSoFar
             /\ drains'[k][d].discard = drains[k][d].discard
  BY <1>3, HandTyped DEF Mild, HandsSame
<1>4. Behind(k)'
  <2>1. ASSUME NEW s \in Landed(k), NEW t \in ToSet(queued'[k])
        PROVE  s < t
    BY <1>1, <2>1 DEF Mild, LineGrows, Filed, Behind
  <2> QED
    BY <1>3, <2>1 DEF Mild, Filed, Behind
<1>5. LastOnDisk(k)'
  BY <1>1, <1>2 DEF Mild, FilesSame, Filed, LastOnDisk
<1>6. FreshInLine(k)'
  BY <1>1 DEF Mild, LineGrows, FilesSame, Filed, FreshInLine
<1>7. Marked(k)'
  <2>1. ASSUME NEW d \in Drains, drains'[k][d].stage # "none"
        PROVE  HandMarks(k, drains[k][d])'
    <3>1. HandMarks(k, drains[k][d])
      BY <1>3, <2>1 DEF Filed, Marked
    <3>2. cancelledThrough'[k] = cancelledThrough[k]
      BY <2>1 DEF Mild
    <3>3. queued[k] # <<>> => queued'[k] # <<>>
      BY DEF Mild, LineGrows
    <3>4. PICK s \in SnapsSoFar : s = drains[k][d].snap /\ s = drains'[k][d].snap
      BY <1>3, <2>1
    <3>5. snapshots'[s] = snapshots[s]
      BY <1>2
    <3> QED
      BY <1>3, <2>1, <3>1, <3>2, <3>3, <3>4, <3>5
      DEF HandMarks, Mild, FilesSame, Obsolete, Discards, Generation
  <2> QED
    BY <2>1 DEF Marked
<1>8. FailedLive(k)'
  BY DEF Mild, FilesSame, Filed, FailedLive
<1> QED
  BY <1>4, <1>5, <1>6, <1>7, <1>8 DEF Filed

filed == <<disk, tmp, dir, leftover, failedSnapshots, landed, deletedAt, supersededAt, crashedAt>>

\* Nothing put in line: the hands are as they were.
LEMMA KeptMild ==
  ASSUME TypeOK, NEW k \in Keys, HandsSame(k), UNCHANGED <<snapshots, queued, filed>>,
         \/ cancelledThrough'[k] = cancelledThrough[k]
         \/ \A d \in Drains : drains'[k][d].stage = "none"
  PROVE  Mild(k)
<1>1. Longer
  BY HeapKept
<1>2. SnapsOf(k)' = SnapsOf(k) /\ Landed(k)' = Landed(k)
  BY DEF SnapsOf, Landed, filed
<1>3. LineGrows(k)
  BY <1>2 DEF LineGrows
<1> QED
  BY <1>1, <1>2, <1>3 DEF Mild, FilesSame, filed

\* One entry more in line, of this session or of another.
LEMMA HeapOf ==
  ASSUME TypeOK, NEW i \in Keys, NEW header \in Metadata, NEW checked \in BOOLEAN,
         NEW content \in SnapIds, Len(snapshots) < MaxHeap,
         snapshots' = Append(snapshots, Snapshot(i, header, checked, content)), NEW k \in Keys
  PROVE  \A s \in SnapsOf(k)' : s \in SnapsOf(k) \/ (s = NewSnap /\ i = k)
<1>1. /\ Len(snapshots') = Len(snapshots) + 1 /\ Len(snapshots) \in Nat
      /\ snapshots'[NewSnap] = Snapshot(i, header, checked, content)
      /\ \A s \in 1 .. Len(snapshots) : snapshots'[s] = snapshots[s]
  <2>1. Len(snapshots') = Len(snapshots) + 1
    BY HeapGrows DEF NewSnap
  <2>2. /\ snapshots'[NewSnap] = Snapshot(i, header, checked, content)
        /\ \A s \in SnapsSoFar : snapshots'[s] = snapshots[s]
    BY SnapshotsKept
  <2> QED
    BY <2>1, <2>2, LineTyped DEF SnapsSoFar
<1>2. snapshots'[NewSnap].key = i
  <2>1. Snapshot(i, header, checked, content).key = i
    BY DEF Snapshot
  <2> QED
    BY <1>1, <2>1
<1>3. ASSUME NEW s \in SnapsOf(k)'
      PROVE  s \in SnapsOf(k) \/ (s = NewSnap /\ i = k)
  <2>1. s \in 1 .. Len(snapshots') /\ snapshots'[s].key = k
    BY <1>3 DEF SnapsOf
  <2>2. s \in 1 .. Len(snapshots) \/ s = NewSnap
    BY <1>1, <2>1 DEF NewSnap
  <2> QED
    BY <1>1, <1>2, <2>1, <2>2 DEF SnapsOf
<1> QED
  BY <1>3

LEMMA LandedStays ==
  ASSUME TypeOK, Longer, UNCHANGED landed, NEW k \in Keys
  PROVE  Landed(k)' = Landed(k)
<1>1. Len(snapshots) \in Nat /\ Len(snapshots') \in Nat /\ Len(snapshots) <= Len(snapshots')
  BY LineTyped DEF Longer
<1>2. \A s \in landed : s \in 1 .. Len(snapshots) /\ s \in 1 .. Len(snapshots') /\ snapshots'[s] = snapshots[s]
  BY <1>1 DEF Longer, TypeOK, HistoryTypeOK, SnapsSoFar
<1> QED
  BY <1>2 DEF Landed, SnapsOf

LEMMA PutMild ==
  ASSUME TypeOK, NEW i \in Keys, Custody(i), NEW header \in Metadata, NEW checked \in BOOLEAN,
         NEW content \in SnapIds, PutEntry(i, header, checked, content),
         NEW k \in Keys, HandsSame(k), UNCHANGED <<cancelledThrough, filed>>
  PROVE  Mild(k)
<1>1. Longer /\ snapshots' = Append(snapshots, Snapshot(i, header, checked, content))
  BY HeapGrows DEF PutEntry
<1>2. Landed(k)' = Landed(k)
  BY <1>1, LandedStays DEF filed
<1>3. \A s \in SnapsOf(k)' : s \in SnapsOf(k) \/ (s = NewSnap /\ i = k)
  BY <1>1, HeapOf DEF PutEntry
<1>4. CASE i = k
  <2>1. /\ NewSnap \in ToSet(queued[k])'
        /\ \A s \in ToSet(queued[k])' : s = NewSnap \/ s \in ToSet(queued[k])
    BY <1>4, PutLine
  <2>2. queued'[k] # <<>>
    BY <2>1, RisingEmpty
  <2>3. LineGrows(k)
    BY <1>3, <2>1, <2>2 DEF LineGrows
  <2> QED
    BY <1>1, <1>2, <2>3 DEF Mild, FilesSame, filed
<1>5. CASE i # k
  <2>1. queued'[k] = queued[k]
    BY <1>5 DEF PutEntry, TypeOK, IntakeTypeOK
  <2>2. LineGrows(k)
    BY <1>3, <1>5, <2>1 DEF LineGrows
  <2> QED
    BY <1>1, <1>2, <2>2 DEF Mild, FilesSame, filed
<1> QED
  BY <1>4, <1>5

LEMMA TailSameHands ==
  ASSUME TypeOK, NEW S \in SUBSET Keys, RunOnTail(S), NEW k \in Keys, AtRest(k)
  PROVE  HandsSame(k)
<1>1. CASE k \notin S
  BY <1>1 DEF RunOnTail, HandsSame
<1>2. CASE k \in S
  <2> DEFINE n == NewDrain(k)
  <2>1. n \in Drains /\ drains[k][n].state = "idle"
    BY <1>2, NewDrainIsFree DEF RunOnTail, Active
  <2>2. \A d \in Drains : drains'[k][d] = IF d = n THEN ChainedDrain(k) ELSE drains[k][d]
    BY <1>2, <2>1 DEF RunOnTail, TypeOK, DrainTypeOK
  <2>3. ChainedDrain(k).stage = "none"
    BY DEF ChainedDrain, IdleDrain
  <2>4. drains[k][n].stage = "none"
    BY <2>1 DEF AtRest
  <2> HIDE DEF n
  <2> QED
    BY <2>2, <2>3, <2>4 DEF HandsSame
<1> QED
  BY <1>1, <1>2

LEMMA EndSameHands ==
  ASSUME TypeOK, NEW i \in Keys, NEW d \in Drains, DrainEnds(i, d), NEW k \in Keys, AtRest(i)
  PROVE  HandsSame(k)
<1>1. drains' = [drains EXCEPT ![i] =
        [e \in Drains |-> IF e = d THEN IdleDrain
                          ELSE IF @[e].after = d THEN [@[e] EXCEPT !.after = NoDrain]
                          ELSE @[e]]]
  BY DEF DrainEnds, ReleaseSuccessor
<1>2. CASE i # k
  BY <1>1, <1>2 DEF TypeOK, DrainTypeOK, HandsSame
<1>3. CASE i = k
  <2>1. \A e \in Drains : drains'[k][e] = IF e = d THEN IdleDrain
                             ELSE IF drains[k][e].after = d
                                  THEN [drains[k][e] EXCEPT !.after = NoDrain]
                                  ELSE drains[k][e]
    BY <1>1, <1>3 DEF TypeOK, DrainTypeOK
  <2>2. \A r \in DrainRecord : LET s == [r EXCEPT !.after = NoDrain]
                               IN  s.stage = r.stage /\ s.snap = r.snap /\ s.discard = r.discard
    BY DEF DrainRecord
  <2>3. \A e \in Drains : drains[k][e] \in DrainRecord
    BY DEF TypeOK, DrainTypeOK
  <2>4. drains[k][d].stage = "none" /\ drains'[k][d].stage = "none"
    <3>1. drains[k][d].state = "waiting" \/ drains[k][d].stage = "none"
      BY <1>3 DEF DrainEnds, AtLoop, AtStage
    <3>2. drains[k][d].state = "waiting" => drains[k][d].stage = "none"
      BY <1>3 DEF AtRest
    <3>3. drains'[k][d] = IdleDrain /\ IdleDrain.stage = "none"
      BY <2>1 DEF IdleDrain
    <3> QED
      BY <3>1, <3>2, <3>3
  <2>5. ASSUME NEW e \in Drains, e # d
        PROVE  /\ drains'[k][e].stage = drains[k][e].stage
               /\ drains'[k][e].snap = drains[k][e].snap
               /\ drains'[k][e].discard = drains[k][e].discard
    <3>1. CASE drains[k][e].after = d
      <4>1. drains'[k][e] = [drains[k][e] EXCEPT !.after = NoDrain]
        BY <2>1, <2>5, <3>1
      <4> QED
        BY <2>2, <2>3, <4>1
    <3>2. CASE drains[k][e].after # d
      <4>1. drains'[k][e] = drains[k][e]
        BY <2>1, <2>5, <3>2
      <4> QED
        BY <4>1
    <3> QED
      BY <3>1, <3>2
  <2> QED
    BY <2>4, <2>5 DEF HandsSame
<1> QED
  BY <1>2, <1>3

LEMMA EndsMild ==
  ASSUME Ledger, NEW i \in Keys, NEW d \in Drains, DrainEnds(i, d), NEW k \in Keys
  PROVE  Mild(k)
<1> USE DEF Ledger
<1>1. HandsSame(k)
  BY EndSameHands DEF Custody
<1>2. UNCHANGED <<snapshots, queued, filed>>
  BY DEF DrainEnds, historyVars, fileVars, filed
<1>3. \/ cancelledThrough'[k] = cancelledThrough[k]
      \/ \A e \in Drains : drains'[k][e].stage = "none"
  <2>1. CASE UNCHANGED cancelledThrough
    BY <2>1
  <2>2. CASE tails[i] = d /\ Retire(i) /\ i # k
    BY <2>2 DEF Retire, TypeOK, IntakeTypeOK
  <2>3. CASE tails[i] = d /\ Retire(i) /\ i = k
    <3>1. AtRest(k) /\ AtLoop(k, d) /\ tails[k] = d
      BY <2>3 DEF Custody, DrainEnds
    <3>2. \A e \in Drains : e # d => drains[k][e].state = "idle"
      BY <3>1, SoleDrain
    <3>3. drains[k][d].stage = "none"
      BY <3>1 DEF AtRest, AtLoop, AtStage
    <3>4. \A e \in Drains : drains[k][e].stage = "none"
      BY <3>1, <3>2, <3>3 DEF AtRest
    <3> QED
      BY <1>1, <3>4 DEF HandsSame
  <2> QED
    BY <2>1, <2>2, <2>3 DEF DrainEnds
<1> QED
  BY <1>1, <1>2, <1>3, KeptMild

LEMMA DriveMild ==
  ASSUME Ledger, NEW i \in Keys, NEW header \in Metadata, NEW content \in SnapIds,
         EnqueueAndDrive(i, header, content), UNCHANGED <<cancelledThrough, filed>>,
         NEW k \in Keys
  PROVE  Mild(k)
<1> USE DEF Ledger
<1>1. HandsSame(k)
  BY TailSameHands DEF EnqueueAndDrive, Custody
<1> QED
  BY <1>1, PutMild DEF EnqueueAndDrive

LEMMA RetryMild ==
  ASSUME Ledger, NEW quiescent, NEW failures \in SUBSET (Keys \X SnapsSoFar),
         Retry(failures, quiescent), UNCHANGED <<cancelledThrough, filed>>, NEW k \in Keys
  PROVE  Mild(k)
<1>1. PICK failure \in failures :
        EnqueueAndDrive(failure[1], snapshots[failure[2]].header, snapshots[failure[2]].content)
  BY DEF Retry
<1>2. failure[1] \in Keys /\ failure[2] \in SnapsSoFar
  OBVIOUS
<1>3. snapshots[failure[2]].header \in Metadata /\ snapshots[failure[2]].content \in SnapIds
  BY <1>2, SnapshotTyped DEF Ledger, TypeOK
<1> QED
  BY <1>1, <1>2, <1>3, DriveMild

LEMMA TailMild ==
  ASSUME Ledger, NEW S \in SUBSET Keys, RunOnTail(S), NEW k \in Keys,
         UNCHANGED <<snapshots, queued, cancelledThrough, filed>>
  PROVE  Mild(k)
<1>1. HandsSame(k)
  BY TailSameHands DEF Ledger, Custody
<1> QED
  BY <1>1, KeptMild DEF Ledger

LEMMA SameMild ==
  ASSUME Ledger, UNCHANGED <<snapshots, queued, cancelledThrough, drains, filed>>, NEW k \in Keys
  PROVE  Mild(k)
<1>1. HandsSame(k)
  BY DEF HandsSame
<1> QED
  BY <1>1, KeptMild DEF Ledger

LEMMA FlushIsMild ==
  ASSUME Ledger, FlushAll \/ FlushStep, NEW k \in Keys
  PROVE  Mild(k)
<1>1. UNCHANGED <<cancelledThrough, filed>>
  BY DEF FlushAll, FlushStep, FlushRound, FlushDrained, FlushRetries, FlushEnds, filed,
         outcomeVars, fileVars, historyVars
<1>2. CASE FlushAll
  BY <1>1, <1>2, SameMild DEF FlushAll, queueVars
<1>3. CASE FlushRound
  <2>1. Busy \in SUBSET Keys
    BY DEF Busy
  <2> QED
    BY <1>1, <1>3, <2>1, TailMild DEF FlushRound
<1>4. CASE FlushDrained
  <2>1. CASE \E quiescent \in BOOLEAN : Retry(Retained, quiescent)
    <3>1. Retained \in SUBSET (Keys \X SnapsSoFar)
      BY DEF Retained, Ledger, TypeOK, OutcomeTypeOK
    <3> QED
      BY <1>1, <2>1, <3>1, RetryMild
  <2>2. CASE UNCHANGED <<queueVars, receiptVars, tails, drains>>
    BY <1>1, <2>2, SameMild DEF queueVars
  <2> QED
    BY <1>4, <2>1, <2>2 DEF FlushDrained
<1>5. CASE FlushRetries
  BY <1>1, <1>5, RetryMild DEF FlushRetries, Ledger, TypeOK, FlushTypeOK
<1>6. CASE FlushEnds
  BY <1>1, <1>6, SameMild DEF FlushEnds, queueVars
<1> QED
  BY <1>2, <1>3, <1>4, <1>5, <1>6 DEF FlushStep

\* What happens to one session is mild for the others.
LEMMA OtherFiles ==
  ASSUME TypeOK, NEW i \in Keys, NEW d \in Drains, WriteStep(i, d), NEW k \in Keys, i # k
  PROVE  /\ disk'[k] = disk[k] /\ tmp'[k] = tmp[k] /\ failedSnapshots'[k] = failedSnapshots[k]
         /\ UNCHANGED <<dir, leftover, deletedAt, supersededAt, crashedAt>>
<1> USE DEF TypeOK, FileTypeOK, OutcomeTypeOK, fileVars, outcomeVars, historyVars
<1>1. CASE TmpWritten(i, d)
  BY <1>1 DEF TmpWritten
<1>2. CASE TargetUnlinked(i, d)
  BY <1>2 DEF TargetUnlinked
<1>3. CASE Renamed(i, d)
  BY <1>3 DEF Renamed
<1>4. CASE RenameReturns(i, d)
  BY <1>4 DEF RenameReturns, Commit
<1>5. CASE TmpDropped(i, d)
  BY <1>5 DEF TmpDropped
<1>6. CASE FileDiscarded(i, d)
  BY <1>6 DEF FileDiscarded
<1>7. CASE WriteFails(i, d)
  BY <1>7 DEF WriteFails, RetainFailure
<1>8. CASE FailureTidied(i, d)
  BY <1>8 DEF FailureTidied
<1> QED
  BY <1>1, <1>2, <1>3, <1>4, <1>5, <1>6, <1>7, <1>8 DEF WriteStep

LEMMA SetSameHands ==
  ASSUME TypeOK, NEW i \in Keys, NEW d \in Drains, NEW r, SetDrain(i, d, r), NEW k \in Keys, i # k
  PROVE  HandsSame(k)
  BY DEF SetDrain, TypeOK, DrainTypeOK, HandsSame

LEMMA StepSetsDrain ==
  ASSUME TypeOK, ChainInv, NEW i \in Keys, Custody(i), NEW d \in Drains, WriteStep(i, d)
  PROVE  /\ AtWork(i, d) /\ (\E r : SetDrain(i, d, r))
         /\ UNCHANGED <<snapshots, queued, armed, generations, cancelledThrough, deletedAt,
                        supersededAt>>
         /\ UNCHANGED landed \/ landed' = landed \cup {drains[i][d].snap}
  BY StepMovesOrEnds DEF Moves, Ends, EndWrite, queueVars

LEMMA OtherWriteMild ==
  ASSUME Ledger, NEW i \in Keys, NEW d \in Drains, WriteStep(i, d), NEW k \in Keys, i # k
  PROVE  Mild(k)
<1> USE DEF Ledger
<1>1. /\ AtWork(i, d) /\ (\E r : SetDrain(i, d, r))
      /\ UNCHANGED <<snapshots, queued, cancelledThrough>>
      /\ UNCHANGED landed \/ landed' = landed \cup {drains[i][d].snap}
  BY StepSetsDrain
<1>2. HandsSame(k)
  BY <1>1, SetSameHands
<1>3. snapshots[drains[i][d].snap].key = i
  BY <1>1 DEF AtWork, Custody, InHand, HandFacts
<1>4. Landed(k)' = Landed(k) /\ SnapsOf(k)' = SnapsOf(k)
  BY <1>1, <1>3 DEF Landed, SnapsOf
<1>5. Longer
  BY <1>1, HeapKept
<1>6. LineGrows(k)
  BY <1>1, <1>4 DEF LineGrows
<1> QED
  BY <1>1, <1>2, <1>4, <1>5, <1>6, OtherFiles DEF Mild, FilesSame

LEMMA OtherBeginMild ==
  ASSUME Ledger, NEW i \in Keys, NEW d \in Drains, WriteBegins(i, d), NEW k \in Keys, i # k
  PROVE  Mild(k)
<1> USE DEF Ledger
<1>1. StartWrite(i, d, Head(queued[i]))
  BY WriteStarts
<1>2. HandsSame(k)
  BY <1>1, SetSameHands DEF StartWrite
<1>3. /\ UNCHANGED <<snapshots, disk, tmp, leftover, failedSnapshots, landed, deletedAt,
                     supersededAt, crashedAt, cancelledThrough>>
      /\ queued'[k] = queued[k]
  BY DEF WriteBegins, historyVars, TypeOK, IntakeTypeOK
<1>4. dir'[k] = dir[k]
  BY <1>1 DEF StartWrite, TypeOK, FileTypeOK
<1>5. Longer
  BY <1>3, HeapKept
<1>6. SnapsOf(k)' = SnapsOf(k) /\ Landed(k)' = Landed(k)
  BY <1>3 DEF SnapsOf, Landed
<1>7. LineGrows(k)
  BY <1>3, <1>6 DEF LineGrows
<1> QED
  BY <1>2, <1>3, <1>4, <1>5, <1>6, <1>7 DEF Mild, FilesSame

LEMMA OtherDeleteMild ==
  ASSUME Ledger, NEW i \in Keys, DeleteSession(i), NEW k \in Keys, i # k
  PROVE  Mild(k)
<1> USE DEF Ledger
<1>1. /\ UNCHANGED <<snapshots, drains, landed, supersededAt, crashedAt>>
      /\ queued'[k] = queued[k] /\ failedSnapshots'[k] = failedSnapshots[k]
      /\ deletedAt'[k] = deletedAt[k]
  BY DEF DeleteSession, TypeOK, IntakeTypeOK, OutcomeTypeOK, HistoryTypeOK
<1>2. /\ disk'[k] = disk[k] /\ tmp'[k] = tmp[k] /\ dir'[k] = dir[k] /\ leftover'[k] = leftover[k]
  BY DEF DeleteSession, RemoveDirectory, fileVars, TypeOK, FileTypeOK
<1>3. cancelledThrough'[k] = cancelledThrough[k]
  BY DEF DeleteSession, Retire, StopPendingWrites, TypeOK, IntakeTypeOK
<1>4. Longer
  BY <1>1, HeapKept
<1>5. SnapsOf(k)' = SnapsOf(k) /\ Landed(k)' = Landed(k)
  BY <1>1 DEF SnapsOf, Landed
<1>6. HandsSame(k) /\ LineGrows(k)
  BY <1>1, <1>5 DEF HandsSame, LineGrows
<1> QED
  BY <1>1, <1>2, <1>3, <1>4, <1>5, <1>6 DEF Mild, FilesSame

LEMMA AbsorbHeap ==
  ASSUME TypeOK, NEW i \in Keys, NEW seen \in Metadata, NEW header \in Metadata,
         AbsorbExternal(i, seen, header)
  PROVE  /\ Longer /\ NewSnap \in SnapIds
         /\ \A k \in Keys : Landed(k)' = Landed(k)
         /\ \A k \in Keys : \A s \in SnapsOf(k)' : s \in SnapsOf(k) \/ (s = NewSnap /\ i = k)
<1>1. /\ snapshots' = Append(snapshots, Snapshot(i, header, FALSE, NewSnap))
      /\ Len(snapshots) < MaxHeap /\ UNCHANGED landed /\ NewSnap \in SnapIds
  BY RoomForOne DEF AbsorbExternal
<1>2. Longer
  BY <1>1, HeapGrows
<1> QED
  BY <1>1, <1>2, HeapOf, LandedStays

LEMMA OtherAbsorbMild ==
  ASSUME Ledger, NEW i \in Keys, NEW seen \in Metadata, NEW header \in Metadata,
         AbsorbExternal(i, seen, header), NEW k \in Keys, i # k
  PROVE  Mild(k)
<1> USE DEF Ledger
<1>1. /\ UNCHANGED <<drains, failedSnapshots, disk, tmp, dir, leftover, deletedAt, crashedAt>>
      /\ queued'[k] = queued[k] /\ supersededAt'[k] = supersededAt[k]
  BY DEF AbsorbExternal, TypeOK, IntakeTypeOK, HistoryTypeOK, outcomeVars, fileVars
<1>2. cancelledThrough'[k] = cancelledThrough[k]
  BY DEF AbsorbExternal, StopPendingWrites, TypeOK, IntakeTypeOK
<1>3. /\ Longer /\ Landed(k)' = Landed(k)
      /\ \A s \in SnapsOf(k)' : s \in SnapsOf(k)
  BY AbsorbHeap
<1>4. HandsSame(k) /\ LineGrows(k)
  BY <1>1, <1>3 DEF HandsSame, LineGrows
<1> QED
  BY <1>1, <1>2, <1>3, <1>4 DEF Mild, FilesSame

\* So a step is mild for a session unless it is an external edit, a deletion or a
\* write of it, or a crash.
LEMMA StepIsMild ==
  ASSUME Ledger, [Next]_vars, NEW k \in Keys
  PROVE  \/ Mild(k)
         \/ \E seen \in Metadata, header \in Metadata : AbsorbExternal(k, seen, header)
         \/ DeleteSession(k)
         \/ \E d \in Drains : WriteBegins(k, d) \/ WriteStep(k, d)
         \/ CrashAndRestart
<1> USE DEF Ledger
<1>1. ASSUME NEW i \in Keys, NEW header \in Metadata, Enqueue(i, header)
      PROVE  Mild(k)
  <2>1. NewSnap \in SnapIds /\ PutEntry(i, header, FALSE, NewSnap)
    BY <1>1, RoomForOne DEF Enqueue
  <2>2. UNCHANGED <<cancelledThrough, filed, drains>>
    BY <1>1 DEF Enqueue, filed, outcomeVars, fileVars, historyVars
  <2>3. HandsSame(k)
    BY <2>2 DEF HandsSame
  <2> QED
    BY <2>1, <2>2, <2>3, PutMild
<1>2. ASSUME NEW i \in Keys, NEW header \in Metadata, EnqueueChecked(i, header)
      PROVE  Mild(k)
  <2>1. NewSnap \in SnapIds /\ EnqueueAndDrive(i, header, NewSnap)
    BY <1>2, RoomForOne DEF EnqueueChecked
  <2>2. UNCHANGED <<cancelledThrough, filed>>
    BY <1>2 DEF EnqueueChecked, filed, outcomeVars, fileVars, historyVars
  <2> QED
    BY <2>1, <2>2, DriveMild
<1>3. ASSUME NEW i \in Keys, Flush(i)
      PROVE  Mild(k)
  BY <1>3, TailMild DEF Flush, filed, outcomeVars, fileVars, historyVars
<1>4. ASSUME NEW s \in SnapIds, TimerFires(s)
      PROVE  Mild(k)
  <2>1. snapshots[s].key \in Keys
    BY <1>4, SnapshotTyped DEF TypeOK, IntakeTypeOK, TimerFires
  <2> QED
    BY <1>4, <2>1, TailMild DEF TimerFires, filed, outcomeVars, fileVars, historyVars
<1>5. ASSUME NEW i \in Keys, NEW seen \in Metadata, NEW header \in Metadata,
             AbsorbExternal(i, seen, header), i # k
      PROVE  Mild(k)
  BY <1>5, OtherAbsorbMild
<1>6. ASSUME NEW i \in Keys, DeleteSession(i), i # k
      PROVE  Mild(k)
  BY <1>6, OtherDeleteMild
<1>7. ASSUME NEW i \in Keys, NEW d \in Drains, DrainStep(i, d),
             DrainEnds(i, d) \/ i # k
      PROVE  Mild(k)
  BY <1>7, EndsMild, OtherBeginMild, OtherWriteMild DEF DrainStep, WriteStep
<1>8. ASSUME NEW d \in Drains, DrainStep(k, d), ~DrainEnds(k, d)
      PROVE  WriteBegins(k, d) \/ WriteStep(k, d)
  BY <1>8 DEF DrainStep, WriteStep
<1>9. CASE FlushAll \/ FlushStep
  BY <1>9, FlushIsMild
<1>10. CASE UNCHANGED vars
  BY <1>10, SameMild DEF vars, queueVars, outcomeVars, fileVars, historyVars, filed
<1> QED
  BY <1>1, <1>2, <1>3, <1>4, <1>5, <1>6, <1>7, <1>8, <1>9, <1>10 DEF Next

\* At its loop a drain is the first of its chain: no other has a write in hand.
LEMMA LoopAlone ==
  ASSUME ChainInv, NEW k \in Keys, AtRest(k), NEW d \in Drains, AtLoop(k, d)
  PROVE  \A e \in Drains : drains[k][e].stage = "none"
<1>1. PICK q \in Seq(Drains) : IsChain(k, q)
  BY DEF ChainInv
<1>2. q[1] = d
  BY <1>1, WorkingIsFirst DEF AtLoop, AtStage
<1>3. ASSUME NEW e \in Drains, drains[k][e].stage # "none"
      PROVE  FALSE
  <2>1. drains[k][e].state = "running"
    BY <1>3 DEF AtRest
  <2>2. q[1] = e
    BY <1>1, <2>1, WorkingIsFirst
  <2> QED
    BY <1>2, <1>3, <2>1, <2>2 DEF AtLoop, AtStage
<1> QED
  BY <1>3

LEMMA AbsorbFiled ==
  ASSUME Ledger, NEW k \in Keys, NEW seen \in Metadata, NEW header \in Metadata,
         AbsorbExternal(k, seen, header), Filed(k)
  PROVE  Filed(k)'
<1> USE DEF Ledger
<1>1. /\ Longer /\ Landed(k)' = Landed(k)
  BY AbsorbHeap
<1>2. /\ UNCHANGED <<drains, failedSnapshots, disk, tmp, dir, deletedAt>>
      /\ queued'[k] = <<NewSnap>> /\ supersededAt'[k] = Len(snapshots)
      /\ cancelledThrough'[k].delete = cancelledThrough[k].delete
  BY DEF AbsorbExternal, StopPendingWrites, TypeOK, IntakeTypeOK, HistoryTypeOK, outcomeVars,
         fileVars
<1>3. ToSet(queued'[k]) = {NewSnap} /\ queued'[k] # <<>>
  BY <1>2, OneEntry, RisingEmpty
<1>4. /\ Landed(k) \subseteq SnapsSoFar /\ SnapsSoFar \subseteq Nat
      /\ \A s \in SnapsSoFar : s <= Len(snapshots) /\ s < NewSnap
      /\ deletedAt[k] \in Nat /\ deletedAt[k] < NewSnap /\ Len(snapshots) < NewSnap
  BY LandedTyped
<1>5. \A s \in SnapsSoFar : snapshots'[s] = snapshots[s]
  BY <1>1 DEF Longer
<1>6. Behind(k)'
  BY <1>1, <1>2, <1>3, <1>4 DEF Filed, Behind
<1>7. LastOnDisk(k)'
  BY <1>1, <1>2, <1>4, <1>5 DEF Filed, LastOnDisk
<1>8. FreshInLine(k)'
  BY <1>2, <1>3, <1>4 DEF FreshInLine
<1>9. ASSUME NEW d \in Drains, drains'[k][d].stage # "none"
      PROVE  HandMarks(k, drains[k][d])'
  <2>1. drains[k][d].snap \in SnapsSoFar /\ HandMarks(k, drains[k][d])
    BY <1>2, <1>9, HandTyped DEF Filed, Marked
  <2>2. PICK s \in SnapsSoFar : s = drains[k][d].snap
    BY <2>1
  <2>3. s <= supersededAt'[k] /\ snapshots'[s] = snapshots[s]
    BY <1>2, <1>4, <1>5
  <2> QED
    BY <1>2, <1>3, <2>1, <2>2, <2>3 DEF HandMarks, Obsolete, Discards, Generation
<1>10. FailedLive(k)'
  BY <1>2 DEF Filed, FailedLive
<1> QED
  BY <1>6, <1>7, <1>8, <1>9, <1>10 DEF Filed, Marked

LEMMA DeleteFiled ==
  ASSUME Ledger, NEW k \in Keys, DeleteSession(k), Filed(k)
  PROVE  Filed(k)'
<1> USE DEF Ledger
<1>1. /\ UNCHANGED <<snapshots, drains, landed, supersededAt>>
      /\ queued'[k] = <<>> /\ failedSnapshots'[k] = NoSnap /\ deletedAt'[k] = Len(snapshots)
  BY DEF DeleteSession, TypeOK, IntakeTypeOK, OutcomeTypeOK, HistoryTypeOK
<1>2. /\ disk'[k] = None \/ disk'[k] = disk[k]
      /\ tmp'[k] = None \/ tmp'[k] = tmp[k]
  BY DEF DeleteSession, RemoveDirectory, fileVars, TypeOK, FileTypeOK
<1>3. ToSet(queued'[k]) = {}
  BY <1>1, RisingEmpty
<1>4. Landed(k)' = Landed(k)
  BY <1>1 DEF Landed, SnapsOf
<1>5. Behind(k)'
  BY <1>1, <1>3, <1>4 DEF Filed, Behind
<1>6. LastOnDisk(k)'
  BY <1>1, <1>2, <1>4 DEF Filed, LastOnDisk
<1>7. ASSUME NEW d \in Drains, drains'[k][d].stage # "none"
      PROVE  HandMarks(k, drains[k][d])'
  <2>1. drains[k][d].stage # "none" /\ drains' = drains
    BY <1>1, <1>7
  <2>2. drains[k][d].snap \in SnapsSoFar /\ HandMarks(k, drains[k][d])
    BY <2>1, HandTyped DEF Filed, Marked
  <2>3. tails[k] # NoDrain
    BY <2>1, NoTailNoDrain DEF Custody, AtRest
  <2>4. /\ cancelledThrough'[k].supersede = cancelledThrough[k].supersede
        /\ cancelledThrough'[k].delete = Max({cancelledThrough[k].delete, generations[k]})
    <3>1. cancelledThrough' = [cancelledThrough EXCEPT ![k]["delete"] = Max({@, generations[k]})]
      BY <2>3 DEF DeleteSession, StopPendingWrites
    <3>2. cancelledThrough[k] \in [delete : Nat, supersede : Nat]
      BY DEF TypeOK, IntakeTypeOK
    <3> QED
      BY <3>1, <3>2 DEF TypeOK, IntakeTypeOK
  <2>5. PICK s \in SnapsSoFar : s = drains[k][d].snap
    BY <2>2
  <2>6. s <= Len(snapshots)
    BY LandedTyped
  <2>7. Generation(s) <= generations[k] /\ Generation(s) \in Nat /\ generations[k] \in Nat
        /\ cancelledThrough[k].delete \in Nat
    BY <2>1, <2>5, SnapshotTyped DEF Custody, InHand, HandFacts, TypeOK, IntakeTypeOK, Generation
  <2>8. Generation(s) <= cancelledThrough'[k].delete
    <3>1. PICK a \in Nat, b \in Nat : a = cancelledThrough[k].delete /\ b = generations[k]
      BY <2>7
    <3>2. Max({a, b}) >= b /\ Max({a, b}) \in Nat
      BY MaxOfTwo
    <3>3. cancelledThrough'[k].delete = Max({a, b})
      BY <2>4, <3>1
    <3> QED
      BY <2>7, <3>1, <3>2, <3>3
  <2>9. s <= deletedAt'[k]
    BY <1>1, <2>6
  <2>10. (Obsolete(k, s) /\ Discards(k, Generation(s)))'
    BY <1>1, <2>8, <2>9 DEF Obsolete, Discards, Generation
  <2> QED
    BY <1>1, <1>2, <2>1, <2>2, <2>4, <2>5, <2>10 DEF HandMarks, Generation
<1> QED
  BY <1>1, <1>3, <1>5, <1>6, <1>7 DEF Filed, Marked, FreshInLine, FailedLive

LEMMA BeginFiled ==
  ASSUME Ledger, NEW k \in Keys, NEW d \in Drains, WriteBegins(k, d), Filed(k)
  PROVE  Filed(k)'
<1> USE DEF Ledger
<1>1. PICK s : s = Head(queued[k])
  OBVIOUS
<1>2. /\ StartWrite(k, d, s) /\ drains'[k][d].stage = "writing" /\ drains'[k][d].snap = s
      /\ \A e \in Drains : e # d => drains'[k][e] = drains[k][e]
  BY <1>1, WriteStarts
<1>3. \A e \in Drains : e # d => drains'[k][e].stage = "none"
  BY <1>2, LoopAlone DEF WriteBegins, Custody
<1>4. /\ UNCHANGED <<snapshots, failedSnapshots, cancelledThrough, disk, tmp, landed, deletedAt,
                     supersededAt>>
      /\ queued'[k] = Tail(queued[k]) /\ queued[k] # <<>>
  BY DEF WriteBegins, historyVars, TypeOK, IntakeTypeOK
<1>5. dir'[k] = TRUE
  BY <1>2 DEF StartWrite, TypeOK, FileTypeOK
<1>6. s \in ToSet(queued[k]) /\ \A t \in ToSet(queued'[k]) : t \in ToSet(queued[k])
  BY <1>1, <1>4, LineTyped, TailOf
<1>7. /\ ~Cancelled(k, Generation(s)) /\ s > deletedAt[k] /\ s > supersededAt[k]
      /\ \A t \in Landed(k) : t < s
      /\ s \in SnapsSoFar /\ SnapsSoFar \subseteq Nat /\ Landed(k) \subseteq SnapsSoFar
      /\ deletedAt[k] \in Nat /\ supersededAt[k] \in Nat
  BY <1>6, LineTyped, LandedTyped DEF FreshWritesNotCancelled, Filed, FreshInLine, Behind
<1>8. Landed(k)' = Landed(k)
  BY <1>4 DEF Landed, SnapsOf
<1>9. Behind(k)'
  <2>1. \A t \in Landed(k) : t <= s
    BY <1>7
  <2> QED
    BY <1>2, <1>3, <1>6, <1>8, <2>1 DEF Filed, Behind
<1>10. LastOnDisk(k)' /\ FailedLive(k)'
  BY <1>4, <1>8 DEF Filed, LastOnDisk, FailedLive
<1>11. FreshInLine(k)'
  BY <1>4, <1>6 DEF Filed, FreshInLine
<1>12. HandMarks(k, drains[k][d])'
  <2>1. /\ ~Obsolete(k, s) /\ ~Discards(k, Generation(s)) /\ ~(s <= supersededAt[k])
        /\ ~(Generation(s) <= cancelledThrough[k].supersede)
    BY <1>7 DEF Obsolete, Cancelled, Discards
  <2> QED
    BY <1>2, <1>4, <1>5, <2>1 DEF HandMarks, Obsolete, Discards, Generation
<1> QED
  BY <1>3, <1>9, <1>10, <1>11, <1>12 DEF Filed, Marked

\* What a step of a write leaves alone.
LEMMA WriteFrame ==
  ASSUME Ledger, NEW k \in Keys, NEW d \in Drains, WriteStep(k, d)
  PROVE  /\ AtWork(k, d)
         /\ \A e \in Drains : e # d => drains'[k][e].stage = "none"
         /\ UNCHANGED <<snapshots, queued, cancelledThrough, deletedAt, supersededAt>>
         /\ SnapsOf(k)' = SnapsOf(k)
<1> USE DEF Ledger
<1>1. /\ AtWork(k, d) /\ \E r : SetDrain(k, d, r)
      /\ UNCHANGED <<snapshots, queued, cancelledThrough, deletedAt, supersededAt>>
  BY StepSetsDrain
<1>2. ASSUME NEW e \in Drains, e # d
      PROVE  drains'[k][e].stage = "none"
  <2>1. drains[k][e].stage = "none"
    BY <1>1, <1>2, SoleHand DEF AtWork, Custody
  <2> QED
    BY <1>1, <1>2, <2>1 DEF SetDrain, TypeOK, DrainTypeOK
<1> QED
  BY <1>1, <1>2 DEF SnapsOf

\* A write that ends without landing anything, and one that goes on.
LEMMA EndFiled ==
  ASSUME Ledger, NEW k \in Keys, NEW d \in Drains, WriteStep(k, d), Filed(k),
         drains'[k][d].stage = "none", UNCHANGED landed, disk'[k] = None \/ disk'[k] = disk[k],
         failedSnapshots'[k] # NoSnap => failedSnapshots'[k] > deletedAt[k]
  PROVE  Filed(k)'
<1>1. /\ \A e \in Drains : drains'[k][e].stage = "none"
      /\ UNCHANGED <<snapshots, queued, cancelledThrough, deletedAt, supersededAt>>
      /\ Landed(k)' = Landed(k)
  BY WriteFrame DEF Landed
<1>2. Behind(k)' /\ LastOnDisk(k)'
  BY <1>1 DEF Filed, Behind, LastOnDisk
<1> QED
  BY <1>1, <1>2 DEF Filed, FreshInLine, Marked, FailedLive

LEMMA MoveFiled ==
  ASSUME Ledger, NEW k \in Keys, NEW d \in Drains, WriteStep(k, d), Filed(k),
         drains'[k][d].snap = drains[k][d].snap, UNCHANGED landed,
         disk'[k] = None \/ disk'[k] = disk[k], failedSnapshots'[k] = failedSnapshots[k],
         HandMarks(k, drains[k][d])'
  PROVE  Filed(k)'
<1>1. /\ \A e \in Drains : e # d => drains'[k][e].stage = "none"
      /\ UNCHANGED <<snapshots, queued, cancelledThrough, deletedAt, supersededAt>>
      /\ Landed(k)' = Landed(k) /\ drains[k][d].stage # "none"
  BY WriteFrame DEF Landed, AtWork
<1>2. Behind(k)' /\ LastOnDisk(k)'
  BY <1>1 DEF Filed, Behind, LastOnDisk
<1> QED
  BY <1>1, <1>2 DEF Filed, FreshInLine, Marked, FailedLive

\* What the two ways of setting the stage of a write leave of its record.
LEMMA StageSet ==
  ASSUME TypeOK, NEW k \in Keys, NEW d \in Drains, NEW stage,
         SetDrain(k, d, [drains[k][d] EXCEPT !.stage = stage])
  PROVE  /\ drains'[k][d].stage = stage /\ drains'[k][d].snap = drains[k][d].snap
         /\ drains'[k][d].discard = drains[k][d].discard
<1>1. drains[k][d] \in DrainRecord
  BY DEF TypeOK, DrainTypeOK
<1>2. drains'[k][d] = [drains[k][d] EXCEPT !.stage = stage]
  BY DEF SetDrain, TypeOK, DrainTypeOK
<1> QED
  BY <1>1, <1>2 DEF DrainRecord

LEMMA AbandonSet ==
  ASSUME TypeOK, NEW k \in Keys, NEW d \in Drains, NEW committed, Abandon(k, d, committed)
  PROVE  /\ drains'[k][d].stage = "abandoning" /\ drains'[k][d].snap = drains[k][d].snap
         /\ (drains'[k][d].discard <=> committed /\ Discards(k, Generation(drains[k][d].snap)))
<1> DEFINE away == committed /\ Discards(k, Generation(drains[k][d].snap))
           why == CancellationReason(k, Generation(drains[k][d].snap))
<1>1. drains[k][d] \in DrainRecord
  BY DEF TypeOK, DrainTypeOK
<1>2. drains'[k][d] = [drains[k][d] EXCEPT !.stage = "abandoning", !.discard = away, !.reason = why]
  BY DEF Abandon, SetDrain, TypeOK, DrainTypeOK
<1> HIDE DEF away, why
<1>3. /\ drains'[k][d].stage = "abandoning" /\ drains'[k][d].snap = drains[k][d].snap
      /\ drains'[k][d].discard = away
  BY <1>1, <1>2 DEF DrainRecord
<1> QED
  BY <1>3 DEF away

LEMMA EndSet ==
  ASSUME TypeOK, NEW k \in Keys, NEW d \in Drains, NEW answer, EndWrite(k, d, answer)
  PROVE  drains'[k][d].stage = "none"
<1>1. drains'[k][d] = BackToLoop(drains[k][d])
  BY DEF EndWrite, SetDrain, TypeOK, DrainTypeOK
<1> QED
  BY <1>1 DEF BackToLoop, IdleDrain

\* A write that is cancelled was overtaken by an edit or by a deletion.
LEMMA CancelledIsOvertaken ==
  ASSUME NEW k \in Keys, NEW w, HandMarks(k, w), Cancelled(k, Generation(w.snap))
  PROVE  w.snap <= supersededAt[k] \/ Obsolete(k, w.snap)
  BY DEF HandMarks, Cancelled, Discards

LEMMA TmpWrittenFiled ==
  ASSUME Ledger, NEW k \in Keys, NEW d \in Drains, TmpWritten(k, d), Filed(k)
  PROVE  Filed(k)'
<1> USE DEF Ledger
<1>1. /\ UNCHANGED <<snapshots, queued, disk, dir, failedSnapshots, landed, deletedAt,
                     supersededAt, cancelledThrough>>
      /\ dir[k] /\ drains[k][d].stage # "none"
      /\ tmp' = [tmp EXCEPT ![k] = [content |-> snapshots[drains[k][d].snap].content,
                                    header |-> drains[k][d].header]]
  BY DEF TmpWritten, AtStage, queueVars, outcomeVars, historyVars
<1>2. HandMarks(k, drains[k][d])
  BY <1>1 DEF Filed, Marked
<1>3. tmp'[k] # None /\ tmp'[k].content = snapshots[drains[k][d].snap].content
  <2>1. tmp'[k] \in File
    <3>1. PICK s \in SnapsSoFar : s = drains[k][d].snap
      BY <1>1, HandTyped
    <3>2. snapshots[s].content \in 0 .. MaxHeap
      <4>1. snapshots[s].content \in SnapIds
        BY SnapshotTyped DEF TypeOK
      <4> QED
        BY <4>1, BoundsAreNat DEF SnapIds
    <3>3. drains[k][d].header \in Metadata
      BY <1>1, WriteTyped DEF TypeOK
    <3>4. tmp'[k] = [content |-> snapshots[s].content, header |-> drains[k][d].header]
      BY <1>1, <3>1 DEF TypeOK, FileTypeOK
    <3> QED
      BY <3>2, <3>3, <3>4 DEF File
  <2> QED
    BY <1>1, <2>1, QueueAssumption DEF TypeOK, FileTypeOK
<1>4. CASE Cancelled(k, Generation(drains[k][d].snap))
  <2>1. Abandon(k, d, FALSE)
    BY <1>4 DEF TmpWritten, Abandons
  <2>2. /\ drains'[k][d].stage = "abandoning" /\ drains'[k][d].snap = drains[k][d].snap
        /\ ~drains'[k][d].discard
    BY <2>1, AbandonSet
  <2>3. HandMarks(k, drains[k][d])'
    BY <1>1, <1>2, <1>4, <2>2, CancelledIsOvertaken
    DEF HandMarks, Obsolete, Discards, Generation
  <2> QED
    BY <1>1, <2>2, <2>3, MoveFiled DEF WriteStep
<1>5. CASE ~Cancelled(k, Generation(drains[k][d].snap))
  <2>1. /\ drains'[k][d].stage = "unlinking" /\ drains'[k][d].snap = drains[k][d].snap
    BY <1>5, StageSet DEF TmpWritten, Abandons
  <2>2. HandMarks(k, drains[k][d])'
    BY <1>1, <1>2, <1>3, <2>1 DEF HandMarks, Obsolete, Discards, Generation
  <2> QED
    BY <1>1, <2>1, <2>2, MoveFiled DEF WriteStep
<1> QED
  BY <1>4, <1>5

LEMMA TargetUnlinkedFiled ==
  ASSUME Ledger, NEW k \in Keys, NEW d \in Drains, TargetUnlinked(k, d), Filed(k)
  PROVE  Filed(k)'
<1> USE DEF Ledger
<1>1. /\ UNCHANGED <<snapshots, queued, tmp, dir, failedSnapshots, landed, deletedAt,
                     supersededAt, cancelledThrough>>
      /\ drains[k][d].stage = "unlinking"
      /\ disk'[k] = None \/ disk'[k] = disk[k]
  BY DEF TargetUnlinked, AtStage, queueVars, outcomeVars, historyVars, TypeOK, FileTypeOK
<1>2. HandMarks(k, drains[k][d])
  BY <1>1 DEF Filed, Marked
<1>3. CASE Abandons(k, Generation(drains[k][d].snap), "target-removed")
  <2>1. Abandon(k, d, FALSE)
    BY <1>3 DEF TargetUnlinked
  <2>2. /\ drains'[k][d].stage = "abandoning" /\ drains'[k][d].snap = drains[k][d].snap
        /\ ~drains'[k][d].discard
    BY <2>1, AbandonSet
  <2>3. Obsolete(k, drains[k][d].snap)
    BY <1>2, <1>3 DEF Abandons, HandMarks
  <2>4. HandMarks(k, drains[k][d])'
    BY <1>1, <1>2, <2>2, <2>3 DEF HandMarks, Obsolete, Discards, Generation
  <2> QED
    BY <1>1, <2>2, <2>4, MoveFiled DEF WriteStep
<1>4. CASE ~Abandons(k, Generation(drains[k][d].snap), "target-removed")
  <2>1. /\ drains'[k][d].stage = "renaming" /\ drains'[k][d].snap = drains[k][d].snap
    BY <1>4, StageSet DEF TargetUnlinked
  <2>2. HandMarks(k, drains[k][d])'
    BY <1>1, <1>2, <2>1 DEF HandMarks, Obsolete, Discards, Generation
  <2> QED
    BY <1>1, <2>1, <2>2, MoveFiled DEF WriteStep
<1> QED
  BY <1>3, <1>4

\* The data in hand becomes the file's, and nothing that landed is newer.
LEMMA RenamedFiled ==
  ASSUME Ledger, NEW k \in Keys, NEW d \in Drains, Renamed(k, d), Filed(k)
  PROVE  Filed(k)'
<1> USE DEF Ledger
<1>1. /\ UNCHANGED <<snapshots, queued, dir, failedSnapshots, deletedAt, supersededAt,
                     cancelledThrough>>
      /\ drains[k][d].stage = "renaming" /\ tmp[k] # None /\ disk'[k] = tmp[k]
      /\ landed' = landed \cup {drains[k][d].snap}
      /\ \A e \in Drains : e # d => drains'[k][e].stage = "none"
  BY WriteFrame DEF Renamed, AtStage, queueVars, outcomeVars, TypeOK, FileTypeOK, WriteStep
<1>2. PICK s \in SnapsSoFar : s = drains[k][d].snap
  BY <1>1, HandTyped
<1>3. /\ HandMarks(k, drains[k][d]) /\ HandFacts(k, drains[k][d])
      /\ drains'[k][d].stage = "renamed" /\ drains'[k][d].snap = s
  <2>1. HandMarks(k, drains[k][d]) /\ HandFacts(k, drains[k][d])
    BY <1>1 DEF Filed, Marked, Custody, InHand
  <2>2. SetDrain(k, d, [drains[k][d] EXCEPT !.stage = "renamed"])
    BY DEF Renamed
  <2> QED
    BY <1>2, <2>1, <2>2, StageSet
<1>4. /\ snapshots[s].key = k /\ (\A t \in ToSet(queued[k]) : s < t)
      /\ disk'[k].content = snapshots[s].content
  BY <1>1, <1>2, <1>3 DEF HandFacts, HandMarks
<1>5. Landed(k)' = Landed(k) \cup {s}
  BY <1>1, <1>2, <1>4 DEF Landed, SnapsOf, SnapsSoFar
<1>6. /\ \A t \in Landed(k) : t <= s
      /\ s \in Nat /\ Landed(k) \subseteq SnapsSoFar /\ SnapsSoFar \subseteq Nat
  BY <1>1, <1>2, LandedTyped DEF Filed, Behind
<1>7. Behind(k)'
  BY <1>1, <1>2, <1>3, <1>4, <1>5, <1>6 DEF Filed, Behind
<1>8. LastOnDisk(k)'
  <2>1. ASSUME NEW t \in Landed(k)', \A u \in Landed(k)' : u <= t
        PROVE  t = s
    <3>1. s <= t /\ (t = s \/ t \in Landed(k))
      BY <1>5, <2>1
    <3>2. t \in Nat /\ t <= s
      BY <1>6, <3>1
    <3> QED
      BY <1>6, <3>1, <3>2
  <2> QED
    BY <1>1, <1>4, <2>1 DEF LastOnDisk
<1>9. HandMarks(k, drains[k][d])'
  BY <1>1, <1>2, <1>3 DEF HandMarks, Obsolete, Discards, Generation
<1> QED
  BY <1>1, <1>7, <1>8, <1>9 DEF Filed, FreshInLine, FailedLive, Marked

LEMMA RenameReturnsFiled ==
  ASSUME Ledger, NEW k \in Keys, NEW d \in Drains, RenameReturns(k, d), Filed(k)
  PROVE  Filed(k)'
<1> USE DEF Ledger
<1>1. /\ UNCHANGED <<snapshots, queued, tmp, disk, dir, landed, deletedAt, supersededAt,
                     cancelledThrough>>
      /\ drains[k][d].stage = "renamed"
  BY DEF RenameReturns, AtStage, queueVars, fileVars, historyVars
<1>2. HandMarks(k, drains[k][d])
  BY <1>1 DEF Filed, Marked
<1>3. CASE Cancelled(k, Generation(drains[k][d].snap))
  <2>1. Abandon(k, d, TRUE) /\ UNCHANGED failedSnapshots
    BY <1>3 DEF RenameReturns, Abandons, outcomeVars
  <2>2. /\ drains'[k][d].stage = "abandoning" /\ drains'[k][d].snap = drains[k][d].snap
        /\ (drains'[k][d].discard <=> Discards(k, Generation(drains[k][d].snap)))
    BY <2>1, AbandonSet
  <2>3. HandMarks(k, drains[k][d])'
    BY <1>1, <1>2, <1>3, <2>2, CancelledIsOvertaken
    DEF HandMarks, Obsolete, Discards, Generation
  <2> QED
    BY <1>1, <2>1, <2>2, <2>3, MoveFiled DEF WriteStep
<1>4. CASE ~Cancelled(k, Generation(drains[k][d].snap))
  <2>1. Commit(k, d)
    BY <1>4 DEF RenameReturns, Abandons
  <2>2. drains'[k][d].stage = "none" /\ failedSnapshots'[k] = NoSnap
    BY <2>1, EndSet DEF Commit, TypeOK, OutcomeTypeOK
  <2> QED
    BY <1>1, <2>2, EndFiled DEF WriteStep
<1> QED
  BY <1>3, <1>4

LEMMA TmpDroppedFiled ==
  ASSUME Ledger, NEW k \in Keys, NEW d \in Drains, TmpDropped(k, d), Filed(k)
  PROVE  Filed(k)'
<1> USE DEF Ledger
<1>1. /\ UNCHANGED <<snapshots, queued, disk, dir, landed, deletedAt, supersededAt,
                     cancelledThrough, failedSnapshots>>
      /\ drains[k][d].stage = "abandoning" /\ tmp'[k] = None
  BY DEF TmpDropped, AtStage, queueVars, historyVars, TypeOK, FileTypeOK
<1>2. HandMarks(k, drains[k][d])
  BY <1>1 DEF Filed, Marked
<1>3. CASE drains[k][d].discard
  <2>1. drains'[k][d].stage = "discarding" /\ drains'[k][d].snap = drains[k][d].snap
    BY <1>3, StageSet DEF TmpDropped
  <2>2. HandMarks(k, drains[k][d])'
    BY <1>1, <1>2, <1>3, <2>1 DEF HandMarks, Obsolete, Discards, Generation
  <2> QED
    BY <1>1, <2>1, <2>2, MoveFiled DEF WriteStep
<1>4. CASE ~drains[k][d].discard
  <2>1. drains'[k][d].stage = "none"
    BY <1>4, EndSet DEF TmpDropped
  <2> QED
    BY <1>1, <2>1, EndFiled DEF WriteStep, Filed, FailedLive
<1> QED
  BY <1>3, <1>4

LEMMA FileDiscardedFiled ==
  ASSUME Ledger, NEW k \in Keys, NEW d \in Drains, FileDiscarded(k, d), Filed(k)
  PROVE  Filed(k)'
<1> USE DEF Ledger
<1>1. UNCHANGED <<landed, failedSnapshots>> /\ disk'[k] = None
  BY DEF FileDiscarded, historyVars, TypeOK, FileTypeOK
<1>2. drains'[k][d].stage = "none"
  BY EndSet DEF FileDiscarded
<1> QED
  BY <1>1, <1>2, EndFiled DEF WriteStep, Filed, FailedLive

\* What is retained as a failure was not deleted.
LEMMA WriteFailsFiled ==
  ASSUME Ledger, NEW k \in Keys, NEW d \in Drains, WriteFails(k, d), Filed(k)
  PROVE  Filed(k)'
<1> USE DEF Ledger
<1>1. /\ UNCHANGED <<snapshots, queued, disk, tmp, dir, landed, deletedAt, supersededAt,
                     cancelledThrough>>
      /\ drains[k][d].stage # "none"
  BY DEF WriteFails, AtStage, queueVars, fileVars, historyVars
<1>2. HandMarks(k, drains[k][d])
  BY <1>1 DEF Filed, Marked
<1>3. CASE Cancelled(k, Generation(drains[k][d].snap))
  <2>1. /\ UNCHANGED failedSnapshots
        /\ SetDrain(k, d, [drains[k][d] EXCEPT !.stage = "tidying",
                      !.reason = CancellationReason(k, Generation(drains[k][d].snap))])
    BY <1>3 DEF WriteFails, outcomeVars
  <2>2. drains'[k][d].stage = "tidying" /\ drains'[k][d].snap = drains[k][d].snap
    <3> DEFINE why == CancellationReason(k, Generation(drains[k][d].snap))
    <3>1. drains'[k][d] = [drains[k][d] EXCEPT !.stage = "tidying", !.reason = why]
      BY <2>1 DEF SetDrain, TypeOK, DrainTypeOK
    <3>2. drains[k][d] \in DrainRecord
      BY DEF TypeOK, DrainTypeOK
    <3> HIDE DEF why
    <3> QED
      BY <3>1, <3>2 DEF DrainRecord
  <2>3. HandMarks(k, drains[k][d])'
    BY <1>1, <1>2, <1>3, <2>2, CancelledIsOvertaken
    DEF HandMarks, Obsolete, Discards, Generation
  <2> QED
    BY <1>1, <2>1, <2>2, <2>3, MoveFiled DEF WriteStep
<1>4. CASE ~Cancelled(k, Generation(drains[k][d].snap))
  <2>1. RetainFailure(k, d)
    BY <1>4 DEF WriteFails
  <2>2. drains'[k][d].stage = "none" /\ failedSnapshots'[k] = drains[k][d].snap
    BY <2>1, EndSet DEF RetainFailure, TypeOK, OutcomeTypeOK
  <2>3. drains[k][d].snap > deletedAt[k]
    <3>1. ~Obsolete(k, drains[k][d].snap)
      BY <1>2, <1>4 DEF HandMarks, Cancelled, Discards
    <3>2. drains[k][d].snap \in Nat /\ deletedAt[k] \in Nat
      BY <1>1, HandTyped, LandedTyped
    <3> QED
      BY <3>1, <3>2 DEF Obsolete
  <2> QED
    BY <1>1, <2>2, <2>3, EndFiled DEF WriteStep
<1> QED
  BY <1>3, <1>4

LEMMA FailureTidiedFiled ==
  ASSUME Ledger, NEW k \in Keys, NEW d \in Drains, FailureTidied(k, d), Filed(k)
  PROVE  Filed(k)'
<1> USE DEF Ledger
<1>1. UNCHANGED <<landed, disk>> /\ failedSnapshots'[k] = NoSnap
  BY DEF FailureTidied, historyVars, TypeOK, OutcomeTypeOK
<1>2. drains'[k][d].stage = "none"
  BY EndSet DEF FailureTidied
<1> QED
  BY <1>1, <1>2, EndFiled DEF WriteStep

LEMMA CrashFiled ==
  ASSUME TypeOK, NEW k \in Keys, CrashAndRestart, Filed(k)
  PROVE  Filed(k)'
<1>1. /\ UNCHANGED <<snapshots, disk, landed>>
      /\ queued'[k] = <<>> /\ failedSnapshots'[k] = NoSnap
      /\ \A d \in Drains : drains'[k][d] = IdleDrain
  BY DEF CrashAndRestart
<1>2. ToSet(queued'[k]) = {} /\ Landed(k)' = Landed(k)
  BY <1>1, RisingEmpty DEF Landed, SnapsOf
<1>3. \A d \in Drains : drains'[k][d].stage = "none"
  BY <1>1 DEF IdleDrain
<1>4. Behind(k)' /\ LastOnDisk(k)'
  BY <1>1, <1>2, <1>3 DEF Filed, Behind, LastOnDisk
<1> QED
  BY <1>1, <1>2, <1>3, <1>4 DEF Filed, FreshInLine, Marked, FailedLive

LEMMA FiledInit == ASSUME Started, NEW k \in Keys PROVE Filed(k)
<1>1. /\ queued[k] = <<>> /\ failedSnapshots[k] = NoSnap /\ landed = {}
      /\ \A d \in Drains : drains[k][d] = IdleDrain
  BY DEF Started, InitWith
<1>2. ToSet(queued[k]) = {} /\ Landed(k) = {} /\ \A d \in Drains : drains[k][d].stage = "none"
  BY <1>1, RisingEmpty DEF Landed, IdleDrain
<1> QED
  BY <1>1, <1>2 DEF Filed, Behind, LastOnDisk, FreshInLine, Marked, FailedLive

LEMMA FiledStep ==
  ASSUME Ledger, [Next]_vars, NEW k \in Keys, Filed(k)
  PROVE  Filed(k)'
<1>1. CASE Mild(k)
  BY <1>1, MildFiled DEF Ledger
<1>2. ASSUME NEW seen \in Metadata, NEW header \in Metadata, AbsorbExternal(k, seen, header)
      PROVE  Filed(k)'
  BY <1>2, AbsorbFiled
<1>3. CASE DeleteSession(k)
  BY <1>3, DeleteFiled
<1>4. ASSUME NEW d \in Drains, WriteBegins(k, d)
      PROVE  Filed(k)'
  BY <1>4, BeginFiled
<1>5. ASSUME NEW d \in Drains, WriteStep(k, d)
      PROVE  Filed(k)'
  BY <1>5, TmpWrittenFiled, TargetUnlinkedFiled, RenamedFiled, RenameReturnsFiled,
     TmpDroppedFiled, FileDiscardedFiled, WriteFailsFiled, FailureTidiedFiled DEF WriteStep
<1>6. CASE CrashAndRestart
  BY <1>6, CrashFiled DEF Ledger
<1> QED
  BY <1>1, <1>2, <1>3, <1>4, <1>5, <1>6, StepIsMild

LEMMA FailuresSpent == ASSUME TypeOK, [Next]_vars, NoFailure' PROVE NoFailure
<1> USE DEF TypeOK, BudgetTypeOK, NoFailure, Spend
<1>1. CASE UNCHANGED budget
  BY <1>1
<1>2. CASE \E what \in {"flushes", "supersedes", "crashes"} : Spend(what)
  BY <1>2
<1>3. ASSUME NEW k \in Keys, DeleteSession(k)
      PROVE  NoFailure
  <2>1. budget.failures \in 0 .. MaxFailures /\ MaxFailures \in Nat
    BY QueueAssumption
  <2>2. CASE Spend("deletes")
    BY <2>2
  <2>3. CASE /\ budget.failures > 0
             /\ budget' = [budget EXCEPT !.failures = @ - 1, !.deletes = @ - 1]
    <3>1. budget'.failures = budget.failures - 1
      BY <2>3
    <3> QED
      BY <2>1, <3>1
  <2> QED
    BY <1>3, <2>2, <2>3 DEF DeleteSession, RemoveDirectory
<1>4. ASSUME NEW k \in Keys, NEW d \in Drains, DrainStep(k, d)
      PROVE  NoFailure
  <2>1. UNCHANGED budget \/ Spend("failures")
    BY <1>4 DEF DrainStep, WriteBegins, DrainEnds, TmpWritten, TargetUnlinked, Renamed,
       RenameReturns, TmpDropped, FileDiscarded, WriteFails, FailureTidied
  <2>2. budget.failures \in 0 .. MaxFailures /\ MaxFailures \in Nat
    BY QueueAssumption
  <2>3. Spend("failures") => budget'.failures = budget.failures - 1
    OBVIOUS
  <2> QED
    BY <1>1, <2>1, <2>2, <2>3
<1>5. ASSUME NEW k \in Keys, NEW header \in Metadata, Enqueue(k, header) \/ EnqueueChecked(k, header)
      PROVE  NoFailure
  BY <1>1, <1>5 DEF Enqueue, EnqueueChecked
<1>6. ASSUME NEW k \in Keys, Flush(k)
      PROVE  NoFailure
  BY <1>2, <1>6 DEF Flush
<1>7. ASSUME NEW k \in Keys, NEW seen \in Metadata, NEW header \in Metadata,
             AbsorbExternal(k, seen, header)
      PROVE  NoFailure
  BY <1>2, <1>7 DEF AbsorbExternal
<1>8. ASSUME NEW s \in SnapIds, TimerFires(s)
      PROVE  NoFailure
  BY <1>1, <1>8 DEF TimerFires
<1>9. CASE FlushAll \/ FlushStep
  BY <1>1, <1>9 DEF FlushAll, FlushStep, FlushRound, FlushDrained, FlushRetries, FlushEnds
<1>10. CASE CrashAndRestart
  BY <1>2, <1>10 DEF CrashAndRestart
<1>11. CASE UNCHANGED vars
  BY <1>1, <1>11 DEF vars
<1> QED
  BY <1>3, <1>4, <1>5, <1>6, <1>7, <1>8, <1>9, <1>10, <1>11 DEF Next

\* FileIsNeverLost for one session, as long as the process has not crashed.
Unlinked(k) == crashedAt = 0 /\ Saved(k) /\ disk[k] = None
Renaming(k) == \E d \in Running(k) : drains[k][d].stage = "renaming"
NotLost(k) == Unlinked(k) => Carried(k) /\ (NoFailure => Renaming(k))

LEMMA ObsoleteUnsaved ==
  ASSUME Ledger, NEW k \in Keys, Filed(k), NEW d \in Drains, drains[k][d].stage # "none",
         Obsolete(k, drains[k][d].snap)
  PROVE  ~Saved(k)
<1>1. ASSUME NEW s \in Landed(k), s > deletedAt[k]
      PROVE  FALSE
  <2>1. PICK t \in SnapsSoFar : t = drains[k][d].snap
    BY HandTyped DEF Ledger
  <2>2. s <= t /\ t <= deletedAt[k]
    BY <2>1 DEF Filed, Behind, Obsolete
  <2>3. s \in Nat /\ t \in Nat /\ deletedAt[k] \in Nat
    BY LandedTyped DEF Ledger
  <2> QED
    BY <1>1, <2>2, <2>3
<1> QED
  BY <1>1 DEF Saved, Landed

LEMMA MildNotLost ==
  ASSUME Ledger, Ledger', NEW k \in Keys, Mild(k), NotLost(k), NoFailure' => NoFailure
  PROVE  NotLost(k)'
<1>1. Saved(k)' = Saved(k)
  BY DEF Mild, FilesSame, Saved, Landed
<1>2. ASSUME NEW d \in Drains, drains[k][d].stage # "none"
      PROVE  /\ d \in Running(k)' /\ drains'[k][d].stage = drains[k][d].stage
             /\ drains'[k][d].snap = drains[k][d].snap
  <2>1. /\ drains'[k][d].stage = drains[k][d].stage
        /\ drains'[k][d].snap = drains[k][d].snap
    BY <1>2 DEF Mild, HandsSame
  <2>2. drains'[k][d].state = "running"
    BY <1>2, <2>1 DEF Ledger, Custody, AtRest
  <2> QED
    BY <2>1, <2>2 DEF Running
<1>3. Carried(k) => Carried(k)'
  <2>1. CASE queued[k] # <<>>
    BY <2>1 DEF Mild, LineGrows, Carried
  <2>2. CASE failedSnapshots[k] # NoSnap
    BY <2>2 DEF Mild, FilesSame, Carried
  <2>3. ASSUME NEW d \in Running(k),
               \/ drains[k][d].stage = "renaming"
               \/ /\ drains[k][d].stage \in {"writing", "unlinking"}
                  /\ drains[k][d].snap > supersededAt[k]
        PROVE  Carried(k)'
    BY <1>2, <2>3 DEF Carried, Running, Mild, FilesSame
  <2> QED
    BY <2>1, <2>2, <2>3 DEF Carried
<1>4. Renaming(k) => Renaming(k)'
  BY <1>2 DEF Renaming, Running
<1> QED
  BY <1>1, <1>3, <1>4 DEF NotLost, Unlinked, Mild, FilesSame

\* Where a write is in the middle of anything but a rename, nothing renames.
LEMMA NoOtherRenames ==
  ASSUME Ledger, NEW k \in Keys, NEW d \in Drains, AtWork(k, d), drains[k][d].stage # "renaming"
  PROVE  ~Renaming(k)
  BY SoleHand DEF Ledger, AtWork, Custody, Renaming, Running

\* The steps of a write, by what they do to a session whose file is missing.
LEMMA WriteNotLost ==
  ASSUME Ledger, Ledger', NEW k \in Keys, Filed(k), NEW d \in Drains, WriteStep(k, d), NotLost(k),
         Unlinked(k)'
  PROVE  Carried(k)' /\ (NoFailure' => Renaming(k)')
<1> USE DEF Ledger
<1>1. /\ AtWork(k, d) /\ UNCHANGED <<snapshots, queued, cancelledThrough, deletedAt, supersededAt>>
      /\ UNCHANGED landed \/ landed' = landed \cup {drains[k][d].snap}
      /\ crashedAt' = crashedAt
  <2>1. crashedAt' = crashedAt
    BY DEF WriteStep, TmpWritten, TargetUnlinked, Renamed, RenameReturns, TmpDropped,
       FileDiscarded, WriteFails, FailureTidied, historyVars
  <2> QED
    BY <2>1, StepSetsDrain
<1>2. HandMarks(k, drains[k][d]) /\ drains[k][d].stage # "none"
  BY <1>1 DEF Filed, Marked, AtWork
<1>3. PICK s \in SnapsSoFar : s = drains[k][d].snap
  BY <1>2, HandTyped
<1>4. s \in Nat /\ deletedAt[k] \in Nat /\ supersededAt[k] \in Nat
  BY LandedTyped
<1>5. CASE Renamed(k, d)
  BY <1>5 DEF Renamed, Unlinked, TypeOK, FileTypeOK
<1>6. CASE ~Renamed(k, d)
  <2>1. UNCHANGED landed
    BY <1>6 DEF WriteStep, TmpWritten, TargetUnlinked, RenameReturns, TmpDropped,
       FileDiscarded, WriteFails, FailureTidied, historyVars
  <2>2. Saved(k) /\ crashedAt = 0
    BY <1>1, <2>1 DEF Unlinked, Saved, SnapsOf
  <2>3. ~Obsolete(k, s)
    BY <1>2, <1>3, <2>2, ObsoleteUnsaved
  <2>4. CASE TmpWritten(k, d)
    <3>1. /\ drains[k][d].stage = "writing" /\ UNCHANGED <<disk, failedSnapshots>>
      BY <2>4 DEF TmpWritten, AtStage, outcomeVars
    <3>2. Carried(k) /\ ~NoFailure
      BY <1>1, <2>2, <3>1, NoOtherRenames DEF NotLost, Unlinked
    <3>3. ~NoFailure'
      BY <2>4, <3>2 DEF TmpWritten, NoFailure
    <3>4. CASE queued[k] # <<>> \/ failedSnapshots[k] # NoSnap
      BY <1>1, <3>1, <3>3, <3>4 DEF Carried
    <3>5. CASE s > supersededAt[k]
      <4>1. ~Cancelled(k, Generation(drains[k][d].snap))
        BY <1>2, <1>3, <1>4, <2>3, <3>5, CancelledIsOvertaken
      <4>2. drains'[k][d].stage = "unlinking" /\ drains'[k][d].snap = s
        BY <1>3, <2>4, <4>1, StageSet DEF TmpWritten, Abandons
      <4>3. d \in Running(k)'
        BY <4>2 DEF Custody, AtRest, Running
      <4> QED
        BY <1>1, <3>3, <3>5, <4>2, <4>3 DEF Carried
    <3>6. CASE queued[k] = <<>> /\ failedSnapshots[k] = NoSnap /\ ~(s > supersededAt[k])
      <4>1. PICK e \in Running(k) :
              \/ drains[k][e].stage = "renaming"
              \/ /\ drains[k][e].stage \in {"writing", "unlinking"}
                 /\ drains[k][e].snap > supersededAt[k]
        BY <3>2, <3>6 DEF Carried
      <4>2. e = d
        BY <1>1, <4>1, SoleHand DEF AtWork, Custody, Running
      <4> QED
        BY <1>3, <3>1, <3>6, <4>1, <4>2
    <3> QED
      BY <3>4, <3>5, <3>6
  <2>5. CASE TargetUnlinked(k, d)
    <3>1. ~Discards(k, Generation(drains[k][d].snap))
      BY <1>2, <1>3, <2>3 DEF HandMarks
    <3>2. drains'[k][d].stage = "renaming"
      BY <2>5, <3>1, StageSet DEF TargetUnlinked, Abandons
    <3>3. d \in Running(k)'
      BY <3>2 DEF Custody, AtRest, Running
    <3> QED
      BY <3>2, <3>3 DEF Carried, Renaming
  <2>6. CASE RenameReturns(k, d)
    <3>1. drains[k][d].stage = "renamed" /\ UNCHANGED disk
      BY <2>6 DEF RenameReturns, AtStage, fileVars
    <3> QED
      BY <1>2, <1>3, <2>3, <3>1 DEF HandMarks, Unlinked
  <2>7. CASE FileDiscarded(k, d)
    BY <1>2, <1>3, <2>3, <2>7 DEF FileDiscarded, AtStage, HandMarks
  <2>8. CASE TmpDropped(k, d) \/ FailureTidied(k, d)
    <3>1. drains[k][d].stage \in {"abandoning", "tidying"} /\ UNCHANGED <<disk, budget>>
      BY <2>8 DEF TmpDropped, FailureTidied, AtStage
    <3>2. queued[k] # <<>>
      BY <1>2, <1>3, <2>3, <3>1 DEF HandMarks
    <3>3. ~NoFailure
      BY <1>1, <2>2, <3>1, NoOtherRenames DEF NotLost, Unlinked
    <3> QED
      BY <1>1, <3>1, <3>2, <3>3 DEF Carried, NoFailure
  <2>9. CASE WriteFails(k, d)
    <3>1. ~NoFailure'
      <4>1. Spend("failures")
        <5>1. dir[k] /\ ~(AtStage(k, d, "renaming") /\ tmp[k] = None)
          BY <1>2, <1>3, <2>3 DEF HandMarks, AtStage
        <5> QED
          BY <2>9, <5>1 DEF WriteFails
      <4>2. budget.failures \in 0 .. MaxFailures /\ MaxFailures \in Nat
        BY QueueAssumption DEF TypeOK, BudgetTypeOK
      <4>3. budget'.failures = budget.failures - 1
        BY <4>1 DEF Spend, TypeOK, BudgetTypeOK
      <4> QED
        BY <4>2, <4>3 DEF NoFailure
    <3>2. CASE Cancelled(k, Generation(drains[k][d].snap))
      <4>1. queued[k] # <<>>
        BY <1>2, <1>3, <2>3, <3>2, CancelledIsOvertaken DEF HandMarks
      <4> QED
        BY <1>1, <3>1, <4>1 DEF Carried
    <3>3. CASE ~Cancelled(k, Generation(drains[k][d].snap))
      <4>1. failedSnapshots'[k] = s
        BY <1>3, <2>9, <3>3 DEF WriteFails, RetainFailure, TypeOK, OutcomeTypeOK
      <4>2. s # NoSnap
        BY <1>2, <1>3, HandTyped
      <4> QED
        BY <3>1, <4>1, <4>2 DEF Carried
    <3> QED
      BY <3>2, <3>3
  <2> QED
    BY <1>6, <2>4, <2>5, <2>6, <2>7, <2>8, <2>9 DEF WriteStep
<1> QED
  BY <1>5, <1>6

LEMMA NotLostStep ==
  ASSUME Ledger, Ledger', [Next]_vars, NEW k \in Keys, Filed(k), NotLost(k)
  PROVE  NotLost(k)'
<1> USE DEF Ledger
<1>0. NoFailure' => NoFailure
  BY FailuresSpent
<1>1. CASE Mild(k)
  BY <1>0, <1>1, MildNotLost
<1>2. ASSUME NEW seen \in Metadata, NEW header \in Metadata, AbsorbExternal(k, seen, header)
      PROVE  NotLost(k)'
  <2>1. /\ UNCHANGED <<drains, disk, deletedAt, crashedAt>> /\ queued'[k] = <<NewSnap>>
    BY <1>2 DEF AbsorbExternal, TypeOK, IntakeTypeOK, fileVars
  <2>2. Saved(k)' = Saved(k)
    BY <1>2, <2>1, AbsorbHeap DEF Saved, Landed
  <2>3. Renaming(k)' = Renaming(k)
    BY <2>1 DEF Renaming, Running
  <2> QED
    BY <1>0, <2>1, <2>2, <2>3, OneEntry, RisingEmpty DEF NotLost, Unlinked, Carried
<1>3. CASE DeleteSession(k)
  <2>1. deletedAt'[k] = Len(snapshots) /\ UNCHANGED <<snapshots, landed>>
    BY <1>3 DEF DeleteSession, TypeOK, HistoryTypeOK
  <2>2. ~Saved(k)'
    <3>1. \A s \in Landed(k) : s <= Len(snapshots) /\ s \in Nat /\ Len(snapshots) \in Nat
      BY LandedTyped
    <3> QED
      BY <2>1, <3>1 DEF Saved, Landed, SnapsOf
  <2> QED
    BY <2>2 DEF NotLost, Unlinked
<1>4. ASSUME NEW d \in Drains, WriteBegins(k, d)
      PROVE  NotLost(k)'
  <2>1. PICK s : s = Head(queued[k])
    OBVIOUS
  <2>2. drains'[k][d].stage = "writing" /\ drains'[k][d].snap = s /\ d \in Running(k)'
    BY <1>4, <2>1, WriteStarts DEF Running
  <2>3. s > supersededAt[k]
    <3>1. s \in ToSet(queued[k])
      BY <1>4, <2>1, LineTyped, TailOf DEF WriteBegins
    <3> QED
      BY <3>1 DEF Filed, FreshInLine
  <2>4. /\ UNCHANGED <<disk, landed, deletedAt, supersededAt, snapshots, crashedAt, budget>>
    BY <1>4 DEF WriteBegins, historyVars
  <2>5. Carried(k)'
    BY <2>2, <2>3, <2>4 DEF Carried
  <2>6. ~Renaming(k)
    BY <1>4, LoopAlone DEF WriteBegins, Custody, Renaming, Running
  <2>7. Unlinked(k)' = Unlinked(k)
    BY <2>4 DEF Unlinked, Saved, SnapsOf
  <2> QED
    BY <1>0, <2>5, <2>6, <2>7 DEF NotLost
<1>5. ASSUME NEW d \in Drains, WriteStep(k, d)
      PROVE  NotLost(k)'
  BY <1>5, WriteNotLost DEF NotLost
<1>6. CASE CrashAndRestart
  <2>1. crashedAt' = Len(snapshots) /\ UNCHANGED <<snapshots, landed, deletedAt>>
    BY <1>6 DEF CrashAndRestart
  <2>2. crashedAt' # 0 \/ ~Saved(k)'
    BY <2>1 DEF Saved, SnapsOf
  <2> QED
    BY <2>2 DEF NotLost, Unlinked
<1> QED
  BY <1>1, <1>2, <1>3, <1>4, <1>5, <1>6, StepIsMild

\* The whole of it.
Files == Ledger /\ \A k \in Keys : Filed(k)

LEMMA FilesHold == Spec => []Files
<1>1. Init => \A k \in Keys : Filed(k)
  BY InitIsStarted, FiledInit
<1>2. Files /\ Ledger' /\ [Next]_vars => Files'
  <2> SUFFICES ASSUME Files, Ledger', [Next]_vars
               PROVE  \A k \in Keys : Filed(k)'
    BY DEF Files
  <2> QED
    BY FiledStep DEF Files
<1> QED
  BY <1>1, <1>2, LedgerHolds, PTL DEF Spec, Files

\* I2 of the queue: a live session that was saved is never left without a file
\* while the process lives.  Between unlink(target) and rename only a deletion
\* stops a write (abandonIfCancelled); a write that fails there is retained; a
\* superseded one has the reconciliation of the external edit behind it.
THEOREM SavedFilesAreKept == Spec => [](crashedAt = 0 => FileIsNeverLost)
<1>1. Init => \A k \in Keys : NotLost(k)
  BY DEF Init, InitWith, NotLost, Unlinked, Saved
<1>2. Files /\ Files' /\ (\A k \in Keys : NotLost(k)) /\ [Next]_vars => (\A k \in Keys : NotLost(k))'
  BY NotLostStep DEF Files
<1>3. (\A k \in Keys : NotLost(k)) => (crashedAt = 0 => FileIsNeverLost)
  BY DEF NotLost, Unlinked, Renaming, FileIsNeverLost
<1> QED
  BY <1>1, <1>2, <1>3, FilesHold, PTL DEF Spec

\* Until flushAll retries its failures, every snapshot carries data of its own.
Calm == flush.pc \in {"open", "draining"}
Own(s) == snapshots[s].content = s
AllOwn == crashedAt = 0 /\ Calm => \A s \in 1 .. Len(snapshots) : Own(s)

\* A step accepts at most one snapshot more, with data of its own unless it is the
\* retry of a failure.
OneMore == \A s \in 1 .. Len(snapshots') : s \in 1 .. Len(snapshots) \/ (s = NewSnap /\ Own(s)')
RetryOf(failures) ==
  /\ \E quiescent \in BOOLEAN : Retry(failures, quiescent)
  /\ \/ FlushDrained /\ failures = Retained
     \/ FlushRetries /\ failures = flush.retries

LEMMA OwnAppended ==
  ASSUME TypeOK, Room, NEW k \in Keys, NEW header \in Metadata, NEW checked \in BOOLEAN,
         snapshots' = Append(snapshots, Snapshot(k, header, checked, NewSnap))
  PROVE  Longer /\ OneMore
<1>1. NewSnap \in SnapIds /\ Len(snapshots) < MaxHeap
  BY RoomForOne
<1>2. Longer /\ Len(snapshots') = NewSnap /\ NewSnap = Len(snapshots) + 1 /\ Len(snapshots) \in Nat
  <2>1. Longer /\ Len(snapshots') = NewSnap
    BY <1>1, HeapGrows
  <2>2. Len(snapshots) \in Nat
    BY LineTyped
  <2> QED
    BY <2>1, <2>2 DEF NewSnap
<1>3. snapshots'[NewSnap] = Snapshot(k, header, checked, NewSnap)
  BY <1>1, SnapshotsKept
<1>4. snapshots'[NewSnap].content = NewSnap
  <2>1. Snapshot(k, header, checked, NewSnap).content = NewSnap
    BY DEF Snapshot
  <2> QED
    BY <1>3, <2>1
<1>5. \A s \in 1 .. Len(snapshots') : s \in 1 .. Len(snapshots) \/ s = NewSnap
  BY <1>2
<1> QED
  BY <1>2, <1>4, <1>5 DEF Own, OneMore

LEMMA HeapStep ==
  ASSUME Ledger, [Next]_vars
  PROVE  Longer /\ (OneMore \/ \E failures \in SUBSET (Keys \X SnapsSoFar) : RetryOf(failures))
<1> USE DEF Ledger
<1>1. ASSUME UNCHANGED snapshots
      PROVE  Longer /\ OneMore
  BY <1>1, HeapKept DEF OneMore
<1>2. ASSUME NEW k \in Keys, NEW header \in Metadata, Enqueue(k, header)
      PROVE  Longer /\ OneMore
  BY <1>2, OwnAppended DEF Enqueue, PutEntry
<1>3. ASSUME NEW k \in Keys, NEW header \in Metadata, EnqueueChecked(k, header)
      PROVE  Longer /\ OneMore
  BY <1>3, OwnAppended DEF EnqueueChecked, EnqueueAndDrive, PutEntry
<1>4. ASSUME NEW k \in Keys, NEW seen \in Metadata, NEW header \in Metadata,
             AbsorbExternal(k, seen, header)
      PROVE  Longer /\ OneMore
  BY <1>4, OwnAppended DEF AbsorbExternal
<1>5. ASSUME NEW k \in Keys, NEW d \in Drains, DrainStep(k, d)
      PROVE  UNCHANGED snapshots
  BY <1>5 DEF DrainStep, WriteBegins, DrainEnds, TmpWritten, TargetUnlinked, Renamed,
     RenameReturns, TmpDropped, FileDiscarded, WriteFails, FailureTidied, queueVars
<1>6. ASSUME \/ \E k \in Keys : Flush(k) \/ DeleteSession(k)
             \/ \E s \in SnapIds : TimerFires(s)
             \/ FlushAll \/ FlushRound \/ FlushEnds \/ CrashAndRestart \/ UNCHANGED vars
      PROVE  UNCHANGED snapshots
  BY <1>6 DEF Flush, DeleteSession, TimerFires, FlushAll, FlushRound, FlushEnds,
     CrashAndRestart, vars, queueVars
<1>7. ASSUME NEW failures \in SUBSET (Keys \X SnapsSoFar), RetryOf(failures)
      PROVE  Longer
  <2>1. PICK failure \in failures :
          EnqueueAndDrive(failure[1], snapshots[failure[2]].header, snapshots[failure[2]].content)
    BY <1>7 DEF RetryOf, Retry
  <2>2. failure[1] \in Keys /\ failure[2] \in SnapsSoFar
    OBVIOUS
  <2>3. snapshots[failure[2]].header \in Metadata /\ snapshots[failure[2]].content \in SnapIds
    BY <2>2, SnapshotTyped DEF TypeOK
  <2> QED
    BY <2>1, <2>2, <2>3, HeapGrows DEF EnqueueAndDrive, PutEntry
<1>8. CASE FlushDrained
  <2>1. Retained \in SUBSET (Keys \X SnapsSoFar)
    BY DEF Retained, TypeOK, OutcomeTypeOK
  <2>2. RetryOf(Retained) \/ UNCHANGED snapshots
    BY <1>8 DEF FlushDrained, RetryOf, queueVars
  <2> QED
    BY <1>1, <1>7, <2>1, <2>2
<1>9. CASE FlushRetries
  <2>1. flush.retries \in SUBSET (Keys \X SnapsSoFar) /\ flush.quiescent \in BOOLEAN
    BY DEF TypeOK, FlushTypeOK
  <2>2. RetryOf(flush.retries)
    BY <1>9, <2>1 DEF FlushRetries, RetryOf
  <2> QED
    BY <1>7, <2>1, <2>2
<1> QED
  BY <1>1, <1>2, <1>3, <1>4, <1>5, <1>6, <1>8, <1>9 DEF Next, FlushStep

LEMMA StaysCalm ==
  ASSUME Ledger, [Next]_vars, Calm', ~CrashAndRestart
  PROVE  Calm /\ crashedAt' = crashedAt /\ Longer /\ OneMore
<1> USE DEF Ledger
<1>1. \A failures : ~RetryOf(failures)
  BY DEF RetryOf, Retry, Calm, TypeOK, FlushTypeOK
<1>2. ASSUME NEW k \in Keys, NEW d \in Drains, DrainStep(k, d)
      PROVE  UNCHANGED crashedAt /\ Calm
  <2>1. flush'.pc = flush.pc
    BY <1>2 DEF DrainStep, WriteBegins, DrainEnds, TmpWritten, TargetUnlinked, Renamed,
       RenameReturns, TmpDropped, FileDiscarded, WriteFails, FailureTidied, TypeOK, FlushTypeOK
  <2>2. UNCHANGED crashedAt
    BY <1>2 DEF DrainStep, WriteBegins, DrainEnds, TmpWritten, TargetUnlinked, Renamed,
       RenameReturns, TmpDropped, FileDiscarded, WriteFails, FailureTidied, historyVars
  <2> QED
    BY <2>1, <2>2 DEF Calm
<1>3. ASSUME \/ \E k \in Keys, header \in Metadata : Enqueue(k, header) \/ EnqueueChecked(k, header)
             \/ \E k \in Keys, seen \in Metadata, header \in Metadata : AbsorbExternal(k, seen, header)
             \/ \E k \in Keys : Flush(k) \/ DeleteSession(k)
             \/ (\E s \in SnapIds : TimerFires(s)) \/ FlushAll \/ FlushRound \/ UNCHANGED vars
      PROVE  UNCHANGED crashedAt /\ Calm
  BY <1>3 DEF Enqueue, EnqueueChecked, AbsorbExternal, Flush, DeleteSession, TimerFires,
     FlushAll, FlushRound, vars, historyVars, Calm
<1>4. ASSUME FlushDrained \/ FlushRetries \/ FlushEnds
      PROVE  FALSE
  BY <1>4 DEF FlushDrained, FlushRetries, FlushEnds, Retry, Calm, TypeOK, FlushTypeOK
<1>5. UNCHANGED crashedAt /\ Calm
  BY <1>2, <1>3, <1>4 DEF Next, FlushStep
<1> QED
  BY <1>1, <1>5, HeapStep

LEMMA AllOwnStep == ASSUME Ledger, AllOwn, [Next]_vars PROVE AllOwn'
<1>1. CASE CrashAndRestart
  BY <1>1 DEF CrashAndRestart, AllOwn
<1>2. CASE ~CrashAndRestart
  <2> SUFFICES ASSUME crashedAt' = 0, Calm', NEW s \in 1 .. Len(snapshots')
               PROVE  Own(s)'
    BY DEF AllOwn
  <2> QED
    BY <1>2, StaysCalm DEF AllOwn, Own, OneMore, Longer, SnapsSoFar
<1> QED
  BY <1>1, <1>2

\* A deleted session's file is gone, or is what a failed removal left, or is in
\* the hands of a write that is about to unlink it.
Doomed(w) == w.stage \in {"renamed", "discarding"} \/ (w.stage = "abandoning" /\ w.discard)
Gone(k) == crashedAt = 0 /\ Calm /\ Deleted(k) =>
  \/ disk[k] = None
  \/ leftover[k] # None /\ disk[k].content = leftover[k].content
  \/ \E d \in Drains : Doomed(drains[k][d])

\* Nothing of a deleted session is queued or failed, and what is in hand is known
\* to be cancelled.
LEMMA DeletedIsIdle ==
  ASSUME Files, AllOwn, NEW k \in Keys, crashedAt = 0, Calm, Deleted(k)
  PROVE  /\ queued[k] = <<>>
         /\ \A d \in Drains : drains[k][d].stage # "none" => Discards(k, Generation(drains[k][d].snap))
<1> USE DEF Files, Ledger
<1>1. ASSUME NEW s \in SnapsOf(k)
      PROVE  s <= deletedAt[k] /\ s \in Nat /\ deletedAt[k] \in Nat
  <2>1. snapshots[s].content = s
    BY <1>1 DEF AllOwn, Own, SnapsOf
  <2>2. snapshots[s].content <= deletedAt[k]
    BY <1>1 DEF Deleted
  <2>3. s \in Nat /\ deletedAt[k] \in Nat
    BY <1>1 DEF SnapsOf, TypeOK, HistoryTypeOK
  <2> QED
    BY <2>1, <2>2, <2>3
<1>2. queued[k] = <<>>
  <2> SUFFICES ASSUME queued[k] # <<>> PROVE FALSE
    OBVIOUS
  <2>1. PICK s : s \in ToSet(queued[k])
    BY LineTyped, TailOf
  <2>2. s \in SnapsOf(k) /\ s > deletedAt[k]
    BY <2>1, LineTyped DEF Filed, FreshInLine, Custody, InLine, SnapsOf, SnapsSoFar
  <2> QED
    BY <1>1, <2>2
<1>3. ASSUME NEW d \in Drains, drains[k][d].stage # "none"
      PROVE  Discards(k, Generation(drains[k][d].snap))
  <2>1. drains[k][d].snap \in SnapsOf(k)
    BY <1>3, HandTyped DEF Custody, InHand, HandFacts, SnapsOf, SnapsSoFar
  <2>2. Obsolete(k, drains[k][d].snap)
    BY <1>1, <2>1 DEF Obsolete
  <2> QED
    BY <1>3, <2>2 DEF Filed, Marked, HandMarks
<1> QED
  BY <1>2, <1>3

\* Steps that leave the session's file and hands alone.
LEMMA GoneKept ==
  ASSUME Ledger, [Next]_vars, ~CrashAndRestart, NEW k \in Keys, Gone(k),
         disk'[k] = disk[k], leftover'[k] = leftover[k], deletedAt'[k] = deletedAt[k],
         \A d \in Drains : Doomed(drains[k][d]) => Doomed(drains[k][d])'
  PROVE  Gone(k)'
<1> SUFFICES ASSUME crashedAt' = 0, Calm', Deleted(k)'
             PROVE  \/ disk'[k] = None
                    \/ leftover'[k] # None /\ disk'[k].content = leftover'[k].content
                    \/ \E d \in Drains : Doomed(drains[k][d])'
  BY DEF Gone
<1>1. Calm /\ crashedAt = 0 /\ Longer
  BY StaysCalm
<1>2. Deleted(k)
  <2>1. \A s \in SnapsOf(k) : s \in SnapsOf(k)' /\ snapshots'[s] = snapshots[s]
    BY <1>1, LineTyped DEF Ledger, Longer, SnapsOf, SnapsSoFar
  <2> QED
    BY <2>1 DEF Deleted
<1> QED
  BY <1>1, <1>2 DEF Gone

LEMMA WriteGone ==
  ASSUME Files, AllOwn, [Next]_vars, ~CrashAndRestart, NEW k \in Keys, NEW d \in Drains,
         WriteStep(k, d), Gone(k), crashedAt' = 0, Calm', Deleted(k)'
  PROVE  \/ disk'[k] = None
         \/ leftover'[k] # None /\ disk'[k].content = leftover'[k].content
         \/ Doomed(drains[k][d])'
<1> USE DEF Files, Ledger
<1>1. Calm /\ crashedAt = 0
  BY StaysCalm
<1>2. AtWork(k, d) /\ drains[k][d].stage # "none" /\ UNCHANGED <<snapshots, deletedAt>>
  BY WriteFrame DEF AtWork
<1>3. Deleted(k)
  BY <1>2 DEF Deleted, SnapsOf
<1>4. Discards(k, Generation(drains[k][d].snap))
  BY <1>1, <1>2, <1>3, DeletedIsIdle
<1>5. Cancelled(k, Generation(drains[k][d].snap))
  BY <1>4 DEF Cancelled, Discards
<1>6. \/ disk[k] = None
      \/ leftover[k] # None /\ disk[k].content = leftover[k].content
      \/ Doomed(drains[k][d])
  <2>1. ASSUME NEW e \in Drains, Doomed(drains[k][e])
        PROVE  e = d
    BY <1>2, <2>1, SoleHand DEF AtWork, Custody, Doomed
  <2> QED
    BY <1>1, <1>3, <2>1 DEF Gone
<1>7. UNCHANGED leftover
  BY DEF WriteStep, TmpWritten, TargetUnlinked, Renamed, RenameReturns, TmpDropped,
     FileDiscarded, WriteFails, FailureTidied, historyVars
<1>8. CASE TmpWritten(k, d) \/ WriteFails(k, d) \/ FailureTidied(k, d)
  <2>1. UNCHANGED disk /\ ~Doomed(drains[k][d])
    BY <1>8 DEF TmpWritten, WriteFails, FailureTidied, fileVars, AtStage, Doomed
  <2> QED
    BY <1>6, <1>7, <2>1
<1>9. CASE TargetUnlinked(k, d)
  BY <1>6, <1>7, <1>9 DEF TargetUnlinked, AtStage, Doomed, TypeOK, FileTypeOK
<1>10. CASE Renamed(k, d)
  <2>1. SetDrain(k, d, [drains[k][d] EXCEPT !.stage = "renamed"])
    BY ONLY <1>10 DEF Renamed
  <2>2. drains'[k][d].stage = "renamed"
    BY <2>1, StageSet
  <2> QED
    BY ONLY <2>2 DEF Doomed
<1>11. CASE RenameReturns(k, d)
  <2>1. Abandon(k, d, TRUE)
    BY <1>5, <1>11 DEF RenameReturns, Abandons
  <2> QED
    BY <1>4, <2>1, AbandonSet DEF Doomed
<1>12. CASE TmpDropped(k, d)
  <2>1. CASE drains[k][d].discard
    BY <1>12, <2>1, StageSet DEF TmpDropped, Doomed
  <2>2. CASE ~drains[k][d].discard
    <3>1. UNCHANGED disk /\ ~Doomed(drains[k][d])
      BY <1>12, <2>2 DEF TmpDropped, AtStage, Doomed
    <3> QED
      BY <1>6, <1>7, <3>1
  <2> QED
    BY <2>1, <2>2
<1>13. CASE FileDiscarded(k, d)
  BY <1>13 DEF FileDiscarded, TypeOK, FileTypeOK
<1> QED
  BY <1>8, <1>9, <1>10, <1>11, <1>12, <1>13 DEF WriteStep

LEMMA GoneStep ==
  ASSUME Files, AllOwn, [Next]_vars, NEW k \in Keys, Gone(k)
  PROVE  Gone(k)'
<1> USE DEF Files, Ledger
<1>1. CASE CrashAndRestart
  <2>1. crashedAt' = Len(snapshots) /\ UNCHANGED deletedAt /\ deletedAt[k] <= Len(snapshots)
        /\ deletedAt[k] \in Nat
    BY <1>1, LandedTyped DEF CrashAndRestart
  <2> QED
    BY <2>1 DEF Gone, Deleted
<1>2. CASE ~CrashAndRestart /\ Mild(k)
  <2>1. \A d \in Drains : Doomed(drains[k][d]) => Doomed(drains[k][d])'
    BY <1>2 DEF Mild, HandsSame, Doomed
  <2> QED
    BY <1>2, <2>1, GoneKept DEF Mild, FilesSame
<1>3. ASSUME ~CrashAndRestart,
             NEW seen \in Metadata, NEW header \in Metadata, AbsorbExternal(k, seen, header)
      PROVE  Gone(k)'
  <2>1. UNCHANGED <<drains, disk, leftover, deletedAt>>
    BY <1>3 DEF AbsorbExternal, fileVars
  <2> QED
    BY <1>3, <2>1, GoneKept DEF Doomed
<1>4. CASE DeleteSession(k)
  <2>1. CASE disk'[k] = None
    BY <2>1 DEF Gone
  <2>2. CASE UNCHANGED disk /\ leftover'[k] = disk[k]
    BY <2>2 DEF Gone
  <2> QED
    BY <1>4, <2>1, <2>2 DEF DeleteSession, RemoveDirectory, fileVars, TypeOK, FileTypeOK
<1>5. ASSUME ~CrashAndRestart, NEW d \in Drains, WriteBegins(k, d)
      PROVE  Gone(k)'
  <2>1. UNCHANGED <<disk, leftover, deletedAt>>
    BY <1>5 DEF WriteBegins, historyVars
  <2>2. \A e \in Drains : ~Doomed(drains[k][e])
    BY <1>5, LoopAlone DEF WriteBegins, Custody, Doomed
  <2> QED
    BY <1>5, <2>1, <2>2, GoneKept
<1>6. ASSUME ~CrashAndRestart, NEW d \in Drains, WriteStep(k, d)
      PROVE  Gone(k)'
  BY <1>6, WriteGone DEF Gone
<1> QED
  BY <1>1, <1>2, <1>3, <1>4, <1>5, <1>6, StepIsMild

\* A deleted session stays deleted until flushAll retries what it had copied:
\* cancelForDeletion marks everything in hand, and whatever a write has renamed
\* into place since the deletion it unlinks again.
THEOREM DeletedSessionsStayGone ==
  Spec => [](crashedAt = 0 /\ flush.pc \in {"open", "draining"} => DeletedStaysDeleted)
<1>1. Init => AllOwn /\ \A k \in Keys : Gone(k)
  BY DEF Init, InitWith, AllOwn, Gone, Deleted
<1>2. Files /\ AllOwn /\ (\A k \in Keys : Gone(k)) /\ [Next]_vars
        => AllOwn' /\ (\A k \in Keys : Gone(k))'
  BY AllOwnStep, GoneStep DEF Files
<1>3. Files /\ (\A k \in Keys : Gone(k))
        => (crashedAt = 0 /\ flush.pc \in {"open", "draining"} => DeletedStaysDeleted)
  <2> SUFFICES ASSUME Files, \A k \in Keys : Gone(k), crashedAt = 0, Calm,
                      NEW k \in Keys, Deleted(k), ~hasPendingOrTail(k)
               PROVE  disk[k] = None \/ (leftover[k] # None /\ disk[k].content = leftover[k].content)
    BY DEF DeletedStaysDeleted, Calm
  <2>1. \A d \in Drains : drains[k][d].state = "idle"
    BY NoTailNoDrain DEF Files, Ledger, hasPendingOrTail
  <2>2. \A d \in Drains : ~Doomed(drains[k][d])
    BY <2>1 DEF Files, Ledger, Custody, AtRest, Doomed
  <2> QED
    BY <2>2 DEF Gone
<1> QED
  BY <1>1, <1>2, <1>3, FilesHold, PTL DEF Spec

----------------------------------------------------------------------------
(* The newest data.  A failed snapshot is retried at shutdown: it must not be *)
(* older than what was saved since, unless an external edit superseded it.    *)

Newer(k, s) == \E t \in SnapsOf(k) : t > s
Past(k, s) == Newer(k, s) => s <= supersededAt[k]
InWork(k) == queued[k] # <<>> \/ \E d \in Drains : drains[k][d].stage # "none"

LineIsNewest(k) == queued[k] # <<>> => \E s \in ToSet(queued[k]) : \A t \in SnapsOf(k) : t <= s

HandIsNewest(k) == \A d \in Drains : drains[k][d].stage # "none" =>
  Past(k, drains[k][d].snap) \/ Obsolete(k, drains[k][d].snap) \/ queued[k] # <<>>

\* A failure that newer data overtook is about to be released by it.
Overtaken(k) == failedSnapshots[k] # NoSnap =>
  /\ snapshots[failedSnapshots[k]].key = k
  /\ Past(k, failedSnapshots[k]) \/ InWork(k)
  /\ \A t \in ToSet(queued[k]) : failedSnapshots[k] < t
  /\ \A d \in Drains : drains[k][d].stage # "none" => failedSnapshots[k] < drains[k][d].snap

Lined(k) == LineIsNewest(k) /\ HandIsNewest(k) /\ Overtaken(k)

\* A step of a write goes on with it, commits it, drops it as overtaken, or keeps
\* it as the failure.
LEMMA WriteOutcome ==
  ASSUME Ledger, NEW k \in Keys, Filed(k), NEW d \in Drains, WriteStep(k, d)
  PROVE  \/ /\ drains'[k][d].stage # "none" /\ drains'[k][d].snap = drains[k][d].snap
            /\ failedSnapshots'[k] = failedSnapshots[k]
         \/ drains'[k][d].stage = "none" /\ failedSnapshots'[k] = NoSnap
         \/ /\ drains'[k][d].stage = "none" /\ failedSnapshots'[k] = failedSnapshots[k]
            /\ drains[k][d].snap <= supersededAt[k] \/ Obsolete(k, drains[k][d].snap)
         \/ /\ drains'[k][d].stage = "none" /\ failedSnapshots'[k] = drains[k][d].snap
            /\ ~Obsolete(k, drains[k][d].snap)
<1> USE DEF Ledger
<1>1. HandMarks(k, drains[k][d])
  BY WriteFrame DEF Filed, Marked, AtWork
<1>2. ASSUME UNCHANGED failedSnapshots,
             \/ Abandon(k, d, FALSE)
             \/ \E stage \in Stages \ {"none"} : SetDrain(k, d, [drains[k][d] EXCEPT !.stage = stage])
      PROVE  /\ drains'[k][d].stage # "none" /\ drains'[k][d].snap = drains[k][d].snap
             /\ failedSnapshots'[k] = failedSnapshots[k]
  <2>1. CASE Abandon(k, d, FALSE)
    BY <1>2, <2>1, AbandonSet
  <2>2. ASSUME NEW stage \in Stages \ {"none"},
               SetDrain(k, d, [drains[k][d] EXCEPT !.stage = stage])
        PROVE  /\ drains'[k][d].stage # "none" /\ drains'[k][d].snap = drains[k][d].snap
    BY <2>2, StageSet
  <2> QED
    BY <1>2, <2>1, <2>2
<1>3. CASE TmpWritten(k, d) \/ TargetUnlinked(k, d)
  <2>1. /\ UNCHANGED failedSnapshots
        /\ \/ Abandon(k, d, FALSE)
           \/ SetDrain(k, d, [drains[k][d] EXCEPT !.stage = "unlinking"])
           \/ SetDrain(k, d, [drains[k][d] EXCEPT !.stage = "renaming"])
    BY <1>3 DEF TmpWritten, TargetUnlinked, outcomeVars
  <2>2. "unlinking" \in Stages \ {"none"} /\ "renaming" \in Stages \ {"none"}
    BY DEF Stages
  <2> QED
    BY <1>2, <2>1, <2>2
<1>4. CASE Renamed(k, d)
  <2>1. /\ SetDrain(k, d, [drains[k][d] EXCEPT !.stage = "renamed"])
        /\ UNCHANGED failedSnapshots
    BY ONLY <1>4 DEF Renamed, outcomeVars
  <2>2. drains'[k][d].stage = "renamed" /\ drains'[k][d].snap = drains[k][d].snap
    BY <2>1, StageSet
  <2> QED
    BY ONLY <2>1, <2>2
<1>5. CASE RenameReturns(k, d)
  <2>1. CASE Commit(k, d)
    BY <2>1, EndSet DEF Commit, TypeOK, OutcomeTypeOK
  <2>2. CASE Abandon(k, d, TRUE) /\ UNCHANGED failedSnapshots
    BY <2>2, AbandonSet
  <2> QED
    BY <1>5, <2>1, <2>2 DEF RenameReturns, outcomeVars
<1>6. CASE TmpDropped(k, d)
  <2>1. UNCHANGED failedSnapshots /\ drains[k][d].stage = "abandoning"
    BY <1>6 DEF TmpDropped, AtStage
  <2>2. CASE drains[k][d].discard
    BY <1>6, <2>1, <2>2, StageSet DEF TmpDropped
  <2>3. CASE ~drains[k][d].discard
    BY <1>1, <1>6, <2>1, <2>3, EndSet DEF TmpDropped, HandMarks
  <2> QED
    BY <2>2, <2>3
<1>7. CASE FileDiscarded(k, d)
  BY <1>1, <1>7, EndSet DEF FileDiscarded, AtStage, HandMarks
<1>8. CASE WriteFails(k, d)
  <2>1. CASE Cancelled(k, Generation(drains[k][d].snap))
    <3> DEFINE why == CancellationReason(k, Generation(drains[k][d].snap))
    <3>1. drains'[k][d] = [drains[k][d] EXCEPT !.stage = "tidying", !.reason = why]
      BY <1>8, <2>1 DEF WriteFails, SetDrain, TypeOK, DrainTypeOK
    <3>2. drains[k][d] \in DrainRecord
      BY DEF TypeOK, DrainTypeOK
    <3>3. UNCHANGED failedSnapshots
      BY <1>8, <2>1 DEF WriteFails, outcomeVars
    <3> HIDE DEF why
    <3>4. drains'[k][d].stage = "tidying" /\ drains'[k][d].snap = drains[k][d].snap
      BY <3>1, <3>2 DEF DrainRecord
    <3> QED
      BY <3>3, <3>4
  <2>2. CASE ~Cancelled(k, Generation(drains[k][d].snap))
    <3>1. drains'[k][d].stage = "none" /\ failedSnapshots'[k] = drains[k][d].snap
      BY <1>8, <2>2, EndSet DEF WriteFails, RetainFailure, TypeOK, OutcomeTypeOK
    <3>2. ~Obsolete(k, drains[k][d].snap)
      BY <1>1, <2>2 DEF HandMarks, Cancelled, Discards
    <3> QED
      BY <3>1, <3>2
  <2> QED
    BY <2>1, <2>2
<1>9. CASE FailureTidied(k, d)
  BY <1>9, EndSet DEF FailureTidied, TypeOK, OutcomeTypeOK
<1> QED
  BY <1>3, <1>4, <1>5, <1>6, <1>7, <1>8, <1>9 DEF WriteStep

LEMMA FailedTyped ==
  ASSUME TypeOK, NEW k \in Keys, failedSnapshots[k] # NoSnap
  PROVE  failedSnapshots[k] \in SnapsSoFar
  BY DEF TypeOK, OutcomeTypeOK

LEMMA MildLined ==
  ASSUME Ledger, NEW k \in Keys, Lined(k), Mild(k)
  PROVE  Lined(k)'
<1> USE DEF Ledger
<1>1. /\ SnapsSoFar \subseteq Nat /\ NewSnap \in Nat /\ NewSnap \notin ToSet(queued[k])
      /\ \A s \in SnapsSoFar : s < NewSnap
  BY LineTyped, LandedTyped
<1>2. SnapsOf(k) \subseteq SnapsSoFar
  BY DEF SnapsOf, SnapsSoFar
<1>3. \/ queued'[k] = queued[k] /\ SnapsOf(k)' \subseteq SnapsOf(k)
      \/ queued'[k] # <<>> /\ NewSnap \in ToSet(queued'[k])
  BY <1>1 DEF Mild, LineGrows
<1>4. \A s \in SnapsOf(k)' : s \in SnapsOf(k) \/ s = NewSnap
  BY DEF Mild, LineGrows
<1>5. LineIsNewest(k)'
  <2>1. CASE queued'[k] = queued[k] /\ SnapsOf(k)' \subseteq SnapsOf(k)
    BY <2>1 DEF Lined, LineIsNewest
  <2>2. CASE NewSnap \in ToSet(queued'[k])
    <3>1. ASSUME NEW t \in SnapsOf(k)'
          PROVE  t <= NewSnap
      <4>1. t = NewSnap \/ t \in SnapsSoFar
        BY <1>2, <1>4
      <4>2. NewSnap \in Nat /\ NewSnap <= NewSnap
        BY <1>1
      <4>3. \A s \in SnapsSoFar : s \in Nat /\ s < NewSnap
        BY <1>1
      <4>4. CASE t \in SnapsSoFar
        BY <4>2, <4>3, <4>4
      <4> QED
        BY <4>1, <4>2, <4>4
    <3>2. PICK n : n = NewSnap
      OBVIOUS
    <3> QED
      BY <2>2, <3>1, <3>2 DEF LineIsNewest
  <2> QED
    BY <1>3, <2>1, <2>2
<1>6. ASSUME NEW d \in Drains, drains'[k][d].stage # "none"
      PROVE  /\ drains[k][d].stage # "none" /\ drains'[k][d].snap = drains[k][d].snap
             /\ drains[k][d].snap \in SnapsSoFar
  BY <1>6, HandTyped DEF Mild, HandsSame
<1>7. ASSUME queued'[k] = <<>>, NEW s, Past(k, s)
      PROVE  Past(k, s)'
  BY <1>3, <1>7 DEF Past, Newer, Mild, FilesSame
<1>8. HandIsNewest(k)'
  <2> SUFFICES ASSUME NEW d \in Drains, drains'[k][d].stage # "none", queued'[k] = <<>>
               PROVE  Past(k, drains[k][d].snap)' \/ Obsolete(k, drains[k][d].snap)'
    BY DEF HandIsNewest
  <2>1. PICK s \in SnapsSoFar : s = drains[k][d].snap /\ s = drains'[k][d].snap
    BY <1>6
  <2>2. queued[k] = <<>>
    BY <1>3
  <2>3. Past(k, s) \/ Obsolete(k, s)
    BY <1>6, <2>1, <2>2 DEF Lined, HandIsNewest
  <2>4. Past(k, s)' \/ Obsolete(k, s)'
    BY <1>7, <2>3 DEF Obsolete, Mild, FilesSame
  <2> QED
    BY <2>1, <2>4 DEF Past, Newer, Obsolete
<1>9. Overtaken(k)'
  <2> SUFFICES ASSUME failedSnapshots'[k] # NoSnap
               PROVE  Overtaken(k)'
    BY DEF Overtaken
  <2>1. PICK f \in SnapsSoFar : f = failedSnapshots[k] /\ f = failedSnapshots'[k]
    BY FailedTyped DEF Mild, FilesSame
  <2>2. /\ snapshots[f].key = k /\ (Past(k, f) \/ InWork(k)) /\ \A t \in ToSet(queued[k]) : f < t
        /\ \A d \in Drains : drains[k][d].stage # "none" => f < drains[k][d].snap
    BY <2>1 DEF Lined, Overtaken, Mild, FilesSame
  <2>3. snapshots'[f] = snapshots[f] /\ f < NewSnap
    BY <1>1 DEF Mild, Longer
  <2>4. \A t \in ToSet(queued'[k]) : f < t
    BY <2>2, <2>3 DEF Mild, LineGrows
  <2>5. \A d \in Drains : drains'[k][d].stage # "none" => f < drains'[k][d].snap
    BY <1>6, <2>2
  <2>6. InWork(k) => InWork(k)'
    BY <1>3 DEF InWork, Mild, HandsSame
  <2>7. Past(k, f) => Past(k, f)' \/ InWork(k)'
    BY <1>7 DEF InWork
  <2>8. Past(k, f)' \/ InWork(k)'
    BY <2>2, <2>6, <2>7
  <2> QED
    BY <2>1, <2>2, <2>3, <2>4, <2>5, <2>8 DEF Overtaken, Past, Newer
<1> QED
  BY <1>5, <1>8, <1>9 DEF Lined

LEMMA AbsorbLined ==
  ASSUME Ledger, NEW k \in Keys, NEW seen \in Metadata, NEW header \in Metadata,
         AbsorbExternal(k, seen, header), Lined(k)
  PROVE  Lined(k)'
<1> USE DEF Ledger
<1>1. /\ Longer /\ \A s \in SnapsOf(k)' : s \in SnapsOf(k) \/ s = NewSnap
  BY AbsorbHeap
<1>2. /\ UNCHANGED <<drains, failedSnapshots>> /\ queued'[k] = <<NewSnap>>
  BY DEF AbsorbExternal, TypeOK, IntakeTypeOK, outcomeVars
<1>3. ToSet(queued'[k]) = {NewSnap} /\ queued'[k] # <<>>
  BY <1>2, OneEntry, RisingEmpty
<1>4. /\ SnapsSoFar \subseteq Nat /\ NewSnap \in Nat /\ \A s \in SnapsSoFar : s < NewSnap
  BY LineTyped, LandedTyped
<1>5. LineIsNewest(k)'
  <2>1. \A t \in SnapsOf(k)' : t <= NewSnap
    BY <1>1, <1>4 DEF SnapsOf, SnapsSoFar
  <2>2. PICK n : n = NewSnap
    OBVIOUS
  <2> QED
    BY <1>3, <2>1, <2>2 DEF LineIsNewest
<1>6. HandIsNewest(k)'
  BY <1>3 DEF HandIsNewest
<1>7. Overtaken(k)'
  <2>1. CASE failedSnapshots[k] = NoSnap
    BY <1>2, <2>1 DEF Overtaken
  <2>2. CASE failedSnapshots[k] # NoSnap
    <3>1. PICK f \in SnapsSoFar : f = failedSnapshots[k] /\ f = failedSnapshots'[k]
      BY <1>2, <2>2, FailedTyped
    <3>2. snapshots'[f] = snapshots[f] /\ f < NewSnap
      BY <1>1, <1>4 DEF Longer
    <3>3. InWork(k)'
      BY <1>3 DEF InWork
    <3> QED
      BY <1>2, <1>3, <3>1, <3>2, <3>3 DEF Lined, Overtaken
  <2> QED
    BY <2>1, <2>2
<1> QED
  BY <1>5, <1>6, <1>7 DEF Lined

LEMMA DeleteLined ==
  ASSUME Ledger, NEW k \in Keys, DeleteSession(k)
  PROVE  Lined(k)'
<1>1. /\ queued'[k] = <<>> /\ failedSnapshots'[k] = NoSnap /\ UNCHANGED drains
      /\ deletedAt'[k] = Len(snapshots)
  BY DEF DeleteSession, Ledger, TypeOK, IntakeTypeOK, OutcomeTypeOK, HistoryTypeOK
<1>2. ASSUME NEW d \in Drains, drains[k][d].stage # "none"
      PROVE  drains[k][d].snap <= deletedAt'[k]
  BY <1>1, <1>2, HandTyped, LandedTyped DEF Ledger
<1> QED
  BY <1>1, <1>2 DEF Lined, LineIsNewest, HandIsNewest, Overtaken, Obsolete

LEMMA BeginLined ==
  ASSUME Ledger, NEW k \in Keys, NEW d \in Drains, WriteBegins(k, d), Lined(k)
  PROVE  Lined(k)'
<1> USE DEF Ledger
<1>1. PICK s : s = Head(queued[k])
  OBVIOUS
<1>2. /\ drains'[k][d].stage = "writing" /\ drains'[k][d].snap = s
      /\ \A e \in Drains : e # d => drains'[k][e] = drains[k][e]
  BY <1>1, WriteStarts
<1>3. \A e \in Drains : e # d => drains'[k][e].stage = "none"
  BY <1>2, LoopAlone DEF WriteBegins, Custody
<1>4. /\ UNCHANGED <<snapshots, failedSnapshots, deletedAt, supersededAt>>
      /\ queued'[k] = Tail(queued[k]) /\ queued[k] # <<>>
  BY DEF WriteBegins, historyVars, TypeOK, IntakeTypeOK
<1>5. /\ s \in ToSet(queued[k]) /\ s \in SnapsSoFar
      /\ \A t \in ToSet(queued[k]) : t = s \/ t \in ToSet(queued'[k])
      /\ \A t \in ToSet(queued'[k]) : t \in ToSet(queued[k]) /\ s < t /\ t \in SnapsSoFar
  <2>1. /\ queued[k] \in Seq(SnapsSoFar) /\ SnapsSoFar \in SUBSET Nat /\ Rising(queued[k])
    BY LineTyped DEF Custody, InLine
  <2>2. \A t \in ToSet(queued[k]) : t \in SnapsSoFar
    BY LineTyped
  <2>3. /\ \A t : t \in ToSet(queued[k]) <=> t = s \/ t \in ToSet(Tail(queued[k]))
        /\ \A t \in ToSet(Tail(queued[k])) : s < t
    BY <1>1, <1>4, <2>1, TailOf
  <2> QED
    BY <1>4, <2>2, <2>3
<1>6. SnapsSoFar \subseteq Nat /\ SnapsOf(k) \subseteq SnapsSoFar /\ ToSet(queued[k]) \subseteq SnapsOf(k)
  <2>1. SnapsSoFar \subseteq Nat /\ \A t \in ToSet(queued[k]) : t \in SnapsSoFar
    BY LineTyped
  <2> QED
    BY <2>1 DEF SnapsOf, SnapsSoFar, Custody, InLine
<1>7. PICK m \in ToSet(queued[k]) : \A t \in SnapsOf(k) : t <= m
  BY <1>4 DEF Lined, LineIsNewest
<1>8. m \in ToSet(queued'[k]) \/ \A t \in SnapsOf(k) : t <= s
  BY <1>5, <1>7
<1>9. SnapsOf(k)' = SnapsOf(k)
  BY <1>4 DEF SnapsOf
<1>10. LineIsNewest(k)'
  <2> SUFFICES ASSUME queued'[k] # <<>>
               PROVE  m \in ToSet(queued'[k])
    BY <1>7, <1>9 DEF LineIsNewest
  <2>1. PICK t : t \in ToSet(queued'[k])
    <3>1. Tail(queued[k]) \in Seq(SnapsSoFar) /\ SnapsSoFar \in SUBSET Nat
      BY <1>4, LineTyped, TailOf
    <3> QED
      BY <1>4, <3>1, TailOf
  <2>2. t \in SnapsOf(k) /\ s < t /\ t \in Nat /\ s \in Nat
    BY <1>5, <1>6, <2>1
  <2> QED
    BY <1>8, <2>2
<1>11. HandIsNewest(k)'
  <2>1. CASE m \in ToSet(queued'[k])
    <3>1. queued'[k] # <<>>
      BY <2>1, RisingEmpty
    <3> QED
      BY <3>1 DEF HandIsNewest
  <2>2. CASE \A t \in SnapsOf(k) : t <= s
    <3>1. s \in Nat
      BY <1>5, <1>6
    <3>2. ~Newer(k, s)'
      <4> SUFFICES ASSUME NEW t \in SnapsOf(k)', t > s
                   PROVE  FALSE
        BY DEF Newer
      <4>1. t \in Nat /\ t <= s
        BY <1>6, <1>9, <2>2
      <4> QED
        BY <3>1, <4>1
    <3>3. Past(k, drains[k][d].snap)'
      BY <1>2, <3>2 DEF Past, Newer
    <3> QED
      BY <1>3, <3>3 DEF HandIsNewest
  <2> QED
    BY <1>8, <2>1, <2>2
<1>12. Overtaken(k)'
  <2>1. InWork(k)'
    BY <1>2 DEF InWork
  <2>2. failedSnapshots'[k] # NoSnap => failedSnapshots[k] < s
    BY <1>4, <1>5 DEF Lined, Overtaken
  <2> QED
    BY <1>2, <1>3, <1>4, <1>5, <2>1, <2>2 DEF Lined, Overtaken
<1> QED
  BY <1>10, <1>11, <1>12 DEF Lined

LEMMA WriteLined ==
  ASSUME Ledger, NEW k \in Keys, Filed(k), NEW d \in Drains, WriteStep(k, d), Lined(k)
  PROVE  Lined(k)'
<1> USE DEF Ledger
<1>1. /\ AtWork(k, d) /\ (\A e \in Drains : e # d => drains'[k][e].stage = "none")
      /\ UNCHANGED <<snapshots, queued, deletedAt, supersededAt>>
      /\ SnapsOf(k)' = SnapsOf(k)
  BY WriteFrame
<1>2. PICK s \in SnapsSoFar : s = drains[k][d].snap
  BY <1>1, HandTyped DEF AtWork
<1>3. /\ Past(k, s) \/ Obsolete(k, s) \/ queued[k] # <<>>
      /\ snapshots[s].key = k /\ \A t \in ToSet(queued[k]) : s < t
  BY <1>1, <1>2 DEF AtWork, Lined, HandIsNewest, Custody, InHand, HandFacts
<1>4. \A t : (Past(k, t)' <=> Past(k, t)) /\ (Obsolete(k, t)' <=> Obsolete(k, t))
  BY <1>1 DEF Past, Newer, Obsolete
<1>5. LineIsNewest(k)'
  BY <1>1 DEF Lined, LineIsNewest
<1>6. HandIsNewest(k)' /\ Overtaken(k)'
  <2>1. CASE /\ drains'[k][d].stage # "none" /\ drains'[k][d].snap = s
             /\ failedSnapshots'[k] = failedSnapshots[k]
    <3>1. HandIsNewest(k)'
      <4>1. Past(k, s)' \/ Obsolete(k, s)' \/ queued'[k] # <<>>
        BY <1>1, <1>3, <1>4
      <4> QED
        BY <1>1, <2>1, <4>1 DEF HandIsNewest, Past, Newer, Obsolete
    <3>2. InWork(k)'
      BY <2>1 DEF InWork
    <3>3. Overtaken(k)'
      BY <1>1, <1>2, <2>1, <3>2 DEF Lined, Overtaken, AtWork
    <3> QED
      BY <3>1, <3>3
  <2>2. CASE drains'[k][d].stage = "none"
    <3>1. \A e \in Drains : drains'[k][e].stage = "none"
      BY <1>1, <2>2
    <3>2. HandIsNewest(k)'
      BY <3>1 DEF HandIsNewest
    <3>3. CASE failedSnapshots'[k] = NoSnap
      BY <3>2, <3>3 DEF Overtaken
    <3>4. CASE /\ failedSnapshots'[k] = failedSnapshots[k] /\ failedSnapshots[k] # NoSnap
               /\ s <= supersededAt[k] \/ Obsolete(k, s)
      <4>1. PICK f \in SnapsSoFar : f = failedSnapshots[k]
        BY <3>4, FailedTyped
      <4>2. f < s /\ snapshots[f].key = k /\ (\A t \in ToSet(queued[k]) : f < t) /\ f > deletedAt[k]
        BY <1>1, <1>2, <3>4, <4>1 DEF AtWork, Lined, Overtaken, Filed, FailedLive
      <4>3. f \in Nat /\ s \in Nat /\ deletedAt[k] \in Nat /\ supersededAt[k] \in Nat
        BY LandedTyped
      <4>4. f <= supersededAt[k]
        BY <3>4, <4>2, <4>3 DEF Obsolete
      <4>5. Past(k, f)'
        BY <1>1, <4>4 DEF Past
      <4> QED
        BY <1>1, <3>1, <3>2, <3>4, <4>1, <4>2, <4>5 DEF Overtaken, Past, Newer
    <3>5. CASE failedSnapshots'[k] = s /\ ~Obsolete(k, s)
      <4>1. Past(k, s)' \/ InWork(k)'
        BY <1>1, <1>3, <1>4, <3>5 DEF InWork
      <4> QED
        BY <1>1, <1>3, <3>1, <3>2, <3>5, <4>1 DEF Overtaken, Past, Newer
    <3> QED
      BY <1>2, <2>2, <3>3, <3>4, <3>5, WriteOutcome
  <2> QED
    BY <1>2, <2>1, <2>2, WriteOutcome
<1> QED
  BY <1>5, <1>6 DEF Lined

LEMMA IdleLined ==
  ASSUME NEW k \in Keys, queued'[k] = <<>>, failedSnapshots'[k] = NoSnap,
         \A d \in Drains : drains'[k][d] = IdleDrain
  PROVE  Lined(k)'
<1>1. \A d \in Drains : drains'[k][d].stage = "none"
  BY DEF IdleDrain
<1> QED
  BY <1>1 DEF Lined, LineIsNewest, HandIsNewest, Overtaken

LEMMA LinedStep ==
  ASSUME Files, [Next]_vars, NEW k \in Keys, Lined(k)
  PROVE  Lined(k)'
<1> USE DEF Files
<1>1. CASE CrashAndRestart
  BY <1>1, IdleLined DEF CrashAndRestart
<1> QED
  BY <1>1, MildLined, AbsorbLined, DeleteLined, BeginLined, WriteLined, StepIsMild

\* Data of one's own: of what is queued, in hand or failed, as long as nothing is retried.
OwnData(k) == Calm => \A s \in SnapsSoFar : Held(k, s) \/ failedSnapshots[k] = s => Own(s)

LEMMA LiveStep ==
  ASSUME Files, [Next]_vars, NEW k \in Keys, NEW s, s # NoSnap,
         Held(k, s)' \/ failedSnapshots'[k] = s
  PROVE  Held(k, s) \/ failedSnapshots[k] = s \/ s = NewSnap
<1> USE DEF Files, Ledger
<1>1. CASE Mild(k)
  BY <1>1 DEF Mild, LineGrows, HandsSame, FilesSame, Held
<1>2. ASSUME NEW seen \in Metadata, NEW header \in Metadata, AbsorbExternal(k, seen, header)
      PROVE  Held(k, s) \/ failedSnapshots[k] = s \/ s = NewSnap
  <2>1. /\ UNCHANGED <<drains, failedSnapshots>> /\ queued'[k] = <<NewSnap>>
    BY <1>2 DEF AbsorbExternal, TypeOK, IntakeTypeOK, outcomeVars
  <2> QED
    BY <2>1, OneEntry DEF Held
<1>3. CASE DeleteSession(k)
  <2>1. /\ queued'[k] = <<>> /\ failedSnapshots'[k] = NoSnap /\ UNCHANGED drains
    BY <1>3 DEF DeleteSession, TypeOK, IntakeTypeOK, OutcomeTypeOK
  <2> QED
    BY <2>1, RisingEmpty DEF Held
<1>4. ASSUME NEW d \in Drains, WriteBegins(k, d)
      PROVE  Held(k, s) \/ failedSnapshots[k] = s \/ s = NewSnap
  <2>1. /\ drains'[k][d].snap = Head(queued[k])
        /\ \A e \in Drains : e # d => drains'[k][e] = drains[k][e]
    BY <1>4, WriteStarts
  <2>2. UNCHANGED failedSnapshots /\ queued'[k] = Tail(queued[k]) /\ queued[k] # <<>>
    BY <1>4 DEF WriteBegins, TypeOK, IntakeTypeOK
  <2>3. \A t : t \in ToSet(queued[k]) <=> t = Head(queued[k]) \/ t \in ToSet(queued'[k])
    BY <2>2, LineTyped, TailOf
  <2> QED
    BY <2>1, <2>2, <2>3 DEF Held
<1>5. ASSUME NEW d \in Drains, WriteStep(k, d)
      PROVE  Held(k, s) \/ failedSnapshots[k] = s \/ s = NewSnap
  <2>1. /\ drains[k][d].stage # "none" /\ (\A e \in Drains : e # d => drains'[k][e].stage = "none")
        /\ UNCHANGED queued
    BY <1>5, WriteFrame DEF AtWork
  <2> QED
    BY <1>5, <2>1, WriteOutcome DEF Held
<1>6. CASE CrashAndRestart
  <2>1. /\ queued'[k] = <<>> /\ failedSnapshots'[k] = NoSnap
        /\ \A d \in Drains : drains'[k][d] = IdleDrain
    BY <1>6 DEF CrashAndRestart
  <2>2. \A d \in Drains : drains'[k][d].stage = "none"
    BY <2>1 DEF IdleDrain
  <2> QED
    BY <2>1, <2>2, RisingEmpty DEF Held
<1> QED
  BY <1>1, <1>2, <1>3, <1>4, <1>5, <1>6, StepIsMild

LEMMA OwnDataStep ==
  ASSUME Files, [Next]_vars, NEW k \in Keys, OwnData(k)
  PROVE  OwnData(k)'
<1> USE DEF Files
<1>1. CASE CrashAndRestart
  <2>1. /\ queued'[k] = <<>> /\ failedSnapshots'[k] = NoSnap
        /\ \A d \in Drains : drains'[k][d] = IdleDrain
    BY <1>1 DEF CrashAndRestart
  <2>2. \A d \in Drains : drains'[k][d].stage = "none"
    BY <2>1 DEF IdleDrain
  <2>3. \A s \in SnapsSoFar' : s # NoSnap
    BY DEF SnapsSoFar, NoSnap
  <2> QED
    BY <2>1, <2>2, <2>3, RisingEmpty DEF Held, OwnData
<1>2. CASE ~CrashAndRestart
  <2> SUFFICES ASSUME Calm', NEW s \in SnapsSoFar', Held(k, s)' \/ failedSnapshots'[k] = s
               PROVE  Own(s)'
    BY DEF OwnData
  <2>1. Calm /\ Longer /\ OneMore
    BY <1>2, StaysCalm
  <2>2. s \in 1 .. Len(snapshots') /\ s # NoSnap
    BY DEF SnapsSoFar, NoSnap
  <2>3. CASE s \in 1 .. Len(snapshots)
    <3>1. s # NewSnap
      BY <2>3, LineTyped DEF SnapsSoFar, Ledger
    <3>2. Held(k, s) \/ failedSnapshots[k] = s
      BY <2>2, <3>1, LiveStep
    <3>3. Own(s)
      BY <2>1, <2>3, <3>2 DEF OwnData, SnapsSoFar
    <3>4. snapshots'[s] = snapshots[s]
      BY <2>1, <2>3 DEF Longer, SnapsSoFar
    <3> QED
      BY <3>3, <3>4 DEF Own
  <2>4. CASE s = NewSnap /\ Own(s)'
    BY <2>4
  <2> QED
    BY <2>1, <2>2, <2>3, <2>4 DEF OneMore
<1> QED
  BY <1>1, <1>2

\* What a snapshot holds: data of its own or, for a retry, of an earlier snapshot.
Bounded == \A s \in SnapsSoFar : snapshots[s].content <= s

\* Newer data between a failure and its retry was accepted before an external edit.
Excused(k) == \A r, s \in SnapsOf(k) :
  snapshots[r].content < s /\ s < r => snapshots[r].content <= supersededAt[k]

RetriesPast == \A failures \in SUBSET (Keys \X SnapsSoFar) :
  RetryOf(failures) => \A failure \in failures : Past(failure[1], snapshots[failure[2]].content)

\* What a retry does to the heap and to flushAll's place.
LEMMA RetryAppends ==
  ASSUME Ledger, NEW failures \in SUBSET (Keys \X SnapsSoFar), RetryOf(failures)
  PROVE  \E failure \in failures :
           /\ Len(snapshots') = NewSnap
           /\ snapshots'[NewSnap].key = failure[1]
           /\ snapshots'[NewSnap].content = snapshots[failure[2]].content
           /\ flush'.pc = "retrying" /\ flush'.retries = failures \ {failure}
           /\ UNCHANGED <<supersededAt, closing>> /\ flush.pc # "open"
<1>1. PICK quiescent \in BOOLEAN : Retry(failures, quiescent)
  BY DEF RetryOf
<1>2. PICK failure \in failures :
        /\ EnqueueAndDrive(failure[1], snapshots[failure[2]].header, snapshots[failure[2]].content)
        /\ flush' = [flush EXCEPT !.pc = "retrying", !.quiescent = quiescent,
                        !.retries = failures \ {failure}, !.retrying = NewSnap]
  BY <1>1 DEF Retry
<1>3. PICK k \in Keys, f \in SnapsSoFar : k = failure[1] /\ f = failure[2]
  OBVIOUS
<1>4. PICK header \in Metadata, content \in SnapIds :
        header = snapshots[f].header /\ content = snapshots[f].content
  BY SnapshotTyped DEF Ledger, TypeOK
<1>5. /\ Len(snapshots) < MaxHeap
      /\ snapshots' = Append(snapshots, Snapshot(k, header, TRUE, content))
  BY <1>2, <1>3, <1>4 DEF EnqueueAndDrive, PutEntry
<1>6. Len(snapshots') = NewSnap
  BY <1>5, HeapGrows DEF Ledger
<1>7. snapshots'[NewSnap] = Snapshot(k, header, TRUE, content)
  BY <1>5, SnapshotsKept DEF Ledger
<1>8. snapshots'[NewSnap].key = k /\ snapshots'[NewSnap].content = content
  <2>1. Snapshot(k, header, TRUE, content).key = k /\ Snapshot(k, header, TRUE, content).content = content
    BY DEF Snapshot
  <2> QED
    BY <1>7, <2>1
<1>9. flush'.pc = "retrying" /\ flush'.retries = failures \ {failure}
  <2> HIDE DEF NewSnap
  <2> QED
    BY <1>2 DEF Ledger, TypeOK, FlushTypeOK
<1>10. UNCHANGED <<supersededAt, closing>> /\ flush.pc # "open"
  BY DEF RetryOf, FlushDrained, FlushRetries, historyVars
<1> QED
  BY <1>3, <1>4, <1>6, <1>8, <1>9, <1>10

LEMMA HeapForm ==
  ASSUME Ledger, [Next]_vars, NEW s \in SnapsSoFar'
  PROVE  \/ s \in SnapsSoFar /\ snapshots'[s] = snapshots[s]
         \/ s = NewSnap /\ snapshots'[s].content = s
         \/ /\ s = NewSnap
            /\ \E failures \in SUBSET (Keys \X SnapsSoFar) :
                 /\ RetryOf(failures)
                 /\ \E failure \in failures :
                      /\ snapshots'[s].key = failure[1]
                      /\ snapshots'[s].content = snapshots[failure[2]].content
<1>1. Longer
  BY HeapStep
<1>2. CASE s \in SnapsSoFar
  BY <1>1, <1>2 DEF Longer
<1>3. CASE s \notin SnapsSoFar /\ OneMore
  BY <1>3 DEF OneMore, Own, SnapsSoFar
<1>4. ASSUME s \notin SnapsSoFar, NEW failures \in SUBSET (Keys \X SnapsSoFar), RetryOf(failures)
      PROVE  /\ s = NewSnap
             /\ \E failure \in failures :
                      /\ snapshots'[s].key = failure[1]
                      /\ snapshots'[s].content = snapshots[failure[2]].content
  <2>1. PICK failure \in failures :
          /\ Len(snapshots') = NewSnap
          /\ snapshots'[NewSnap].key = failure[1]
          /\ snapshots'[NewSnap].content = snapshots[failure[2]].content
    BY <1>4, RetryAppends
  <2>2. s \in 1 .. NewSnap /\ s \notin 1 .. Len(snapshots) /\ Len(snapshots) \in Nat
    BY <1>4, <2>1, LineTyped DEF SnapsSoFar, Ledger
  <2>3. s = NewSnap
    BY <2>2 DEF NewSnap
  <2> QED
    BY <2>1, <2>3
<1> QED
  BY <1>2, <1>3, <1>4, HeapStep

LEMMA BoundedStep ==
  ASSUME Ledger, Bounded, [Next]_vars
  PROVE  Bounded'
<1> SUFFICES ASSUME NEW s \in SnapsSoFar'
             PROVE  snapshots'[s].content <= s
  BY DEF Bounded
<1>1. /\ NewSnap \in Nat /\ \A f \in SnapsSoFar : f \in Nat /\ f < NewSnap
      /\ \A f \in SnapsSoFar : snapshots[f].content \in Nat
  <2>1. NewSnap \in Nat /\ \A f \in SnapsSoFar : f \in Nat /\ f < NewSnap
    BY LineTyped, LandedTyped DEF Ledger, SnapsSoFar, NewSnap
  <2>2. ASSUME NEW f \in SnapsSoFar
        PROVE  snapshots[f].content \in Nat
    <3>1. snapshots[f].content \in SnapIds
      BY SnapshotTyped DEF Ledger, TypeOK
    <3> QED
      BY <3>1, BoundsAreNat DEF SnapIds
  <2> QED
    BY <2>1, <2>2
<1>2. CASE s \in SnapsSoFar /\ snapshots'[s] = snapshots[s]
  BY <1>2 DEF Bounded
<1>3. CASE s = NewSnap /\ snapshots'[s].content = s
  BY <1>1, <1>3
<1>4. ASSUME s = NewSnap, NEW failures \in SUBSET (Keys \X SnapsSoFar), NEW failure \in failures,
             snapshots'[s].content = snapshots[failure[2]].content
      PROVE  snapshots'[s].content <= s
  <2>1. PICK f \in SnapsSoFar : f = failure[2]
    OBVIOUS
  <2>2. snapshots[f].content <= f
    BY DEF Bounded
  <2> HIDE DEF NewSnap
  <2> QED
    BY <1>1, <1>4, <2>1, <2>2
<1> QED
  BY <1>2, <1>3, <1>4, HeapForm

LEMMA SupersedesGrow ==
  ASSUME Ledger, [Next]_vars, NEW k \in Keys
  PROVE  supersededAt[k] \in Nat /\ supersededAt'[k] \in Nat /\ supersededAt[k] <= supersededAt'[k]
<1> USE DEF Ledger
<1>1. supersededAt[k] \in Nat /\ Len(snapshots) \in Nat /\ supersededAt[k] <= Len(snapshots)
  BY LandedTyped
<1>2. supersededAt'[k] = supersededAt[k] \/ supersededAt'[k] = Len(snapshots)
  <2>1. CASE Mild(k)
    BY <2>1 DEF Mild, FilesSame
  <2>2. CASE \E seen \in Metadata, header \in Metadata : AbsorbExternal(k, seen, header)
    BY <2>2 DEF AbsorbExternal, TypeOK, HistoryTypeOK
  <2>3. CASE DeleteSession(k) \/ CrashAndRestart
    BY <2>3 DEF DeleteSession, CrashAndRestart
  <2>4. ASSUME NEW d \in Drains, WriteBegins(k, d) \/ WriteStep(k, d)
        PROVE  UNCHANGED supersededAt
    BY <2>4, WriteFrame DEF WriteBegins, historyVars
  <2> QED
    BY <2>1, <2>2, <2>3, <2>4, StepIsMild
<1> QED
  BY <1>1, <1>2

LEMMA ExcusedStep ==
  ASSUME Ledger, RetriesPast, [Next]_vars, NEW k \in Keys, Excused(k)
  PROVE  Excused(k)'
<1> SUFFICES ASSUME NEW r \in SnapsOf(k)', NEW s \in SnapsOf(k)',
                    snapshots'[r].content < s, s < r
             PROVE  snapshots'[r].content <= supersededAt'[k]
  BY DEF Excused
<1>1. /\ r \in SnapsSoFar' /\ s \in SnapsSoFar' /\ snapshots'[r].key = k /\ snapshots'[s].key = k
      /\ r \in Nat /\ s \in Nat
  BY DEF SnapsOf, SnapsSoFar
<1>2. Longer /\ NewSnap \in Nat /\ NewSnap = Len(snapshots) + 1 /\ Len(snapshots) \in Nat
  BY HeapStep, LineTyped, LandedTyped DEF Ledger
<1>3. r \in SnapsSoFar \/ r = NewSnap
  BY <1>1, HeapForm
<1>4. s \in SnapsSoFar
  <2>1. r <= NewSnap
    <3>1. CASE r \in SnapsSoFar
      BY <1>2, <3>1 DEF SnapsSoFar
    <3> QED
      BY <1>2, <1>3, <3>1
  <2>2. s >= 1 /\ s <= Len(snapshots)
    BY <1>1, <1>2, <2>1 DEF SnapsSoFar
  <2> QED
    BY <1>1, <1>2, <2>2 DEF SnapsSoFar
<1>5. s \in SnapsOf(k)
  BY <1>1, <1>2, <1>4 DEF Longer, SnapsOf, SnapsSoFar
<1>6. supersededAt[k] \in Nat /\ supersededAt'[k] \in Nat /\ supersededAt[k] <= supersededAt'[k]
  BY SupersedesGrow
<1>7. ASSUME NEW f \in SnapsSoFar
      PROVE  snapshots[f].content \in Nat
  <2>1. snapshots[f].content \in SnapIds
    BY SnapshotTyped DEF Ledger, TypeOK
  <2> QED
    BY <2>1, BoundsAreNat DEF SnapIds
<1>8. CASE r \in SnapsSoFar /\ snapshots'[r] = snapshots[r]
  <2>1. r \in SnapsOf(k)
    BY <1>1, <1>8 DEF SnapsOf, SnapsSoFar
  <2>2. snapshots[r].content <= supersededAt[k]
    BY <1>5, <1>8, <2>1 DEF Excused
  <2>3. snapshots[r].content \in Nat
    BY <1>7, <1>8
  <2> QED
    BY <1>6, <1>8, <2>2, <2>3
<1>9. CASE r = NewSnap /\ snapshots'[r].content = r
  BY <1>1, <1>9
<1>10. ASSUME NEW failures \in SUBSET (Keys \X SnapsSoFar), RetryOf(failures),
              NEW failure \in failures, snapshots'[r].key = failure[1],
              snapshots'[r].content = snapshots[failure[2]].content
       PROVE  snapshots'[r].content <= supersededAt'[k]
  <2>1. PICK f \in SnapsSoFar : f = failure[2] /\ failure[1] = k
    BY <1>1, <1>10
  <2>2. Past(k, snapshots[f].content)
    BY <1>10, <2>1 DEF RetriesPast
  <2>3. Newer(k, snapshots[f].content)
    BY <1>5, <1>10, <2>1 DEF Newer
  <2>4. snapshots[f].content <= supersededAt[k] /\ snapshots[f].content \in Nat
    BY <1>7, <2>2, <2>3 DEF Past
  <2> QED
    BY <1>6, <1>10, <2>1, <2>4
<1> QED
  BY <1>1, <1>8, <1>9, <1>10, HeapForm

\* Of what landed there is a last.
HasLast(k) == Landed(k) = {} \/ \E m \in Landed(k) : \A s \in Landed(k) : s <= m

LEMMA HasLastStep ==
  ASSUME Files, [Next]_vars, NEW k \in Keys, HasLast(k)
  PROVE  HasLast(k)'
<1> USE DEF Files, Ledger
<1>1. CASE Landed(k)' = Landed(k)
  BY <1>1 DEF HasLast
<1>2. ASSUME NEW d \in Drains, Renamed(k, d)
      PROVE  HasLast(k)'
  <2>1. /\ drains[k][d].stage # "none" /\ UNCHANGED snapshots
        /\ landed' = landed \cup {drains[k][d].snap}
    BY <1>2 DEF Renamed, AtStage, queueVars
  <2>2. PICK s \in SnapsSoFar : s = drains[k][d].snap
    BY <2>1, HandTyped
  <2>3. snapshots[s].key = k
    BY <2>1, <2>2 DEF Custody, InHand, HandFacts
  <2>4. Landed(k)' = Landed(k) \cup {s}
    BY <2>1, <2>2, <2>3 DEF Landed, SnapsOf, SnapsSoFar
  <2>5. s <= s /\ \A t \in Landed(k) : t <= s
    BY <2>1, <2>2, LandedTyped DEF Filed, Behind
  <2> QED
    BY <2>4, <2>5 DEF HasLast
<1>3. ASSUME NEW d \in Drains, WriteBegins(k, d) \/ (WriteStep(k, d) /\ ~Renamed(k, d))
      PROVE  Landed(k)' = Landed(k)
  BY <1>3 DEF WriteBegins, WriteStep, TmpWritten, TargetUnlinked, RenameReturns, TmpDropped,
     FileDiscarded, WriteFails, FailureTidied, historyVars, queueVars, Landed, SnapsOf
<1>4. CASE DeleteSession(k) \/ CrashAndRestart
  BY <1>1, <1>4 DEF DeleteSession, CrashAndRestart, Landed, SnapsOf
<1>5. CASE \E seen \in Metadata, header \in Metadata : AbsorbExternal(k, seen, header)
  BY <1>1, <1>5, AbsorbHeap
<1>6. CASE Mild(k)
  BY <1>1, <1>6 DEF Mild
<1> QED
  BY <1>1, <1>2, <1>3, <1>4, <1>5, <1>6, StepIsMild DEF WriteStep

\* The rounds of flushAll await a drain for everything queued or in hand, but for
\* the reconciliation of an external edit absorbed since.
Closed == (flush.pc # "open" => closing) /\ (flush.pc = "open" => flush.round = 0)
Late(k, s) == s > supersededAt[k] + 1
AwaitedDrains(k) == {d \in Drains : <<k, d>> \in flush.awaited}
Covers(k, d, i) == /\ drains[k][d].state # "idle"
                   /\ drains[k][d].state = "waiting" \/ drains[k][d].remaining >= i
LineCovered(k) == \A i \in 1 .. Len(queued[k]) :
  Late(k, queued[k][i]) => \E d \in AwaitedDrains(k) : Covers(k, d, i)
HandCovered(k) == \A d \in Drains : drains[k][d].stage # "none" /\ Late(k, drains[k][d].snap) =>
  \E e \in AwaitedDrains(k) : e = d \/ drains[k][e].state = "waiting"
RoundCovers(k) == flush.pc = "draining" /\ flush.round > 0 => LineCovered(k) /\ HandCovered(k)

LEMMA ClosedStep == ASSUME TypeOK, Closed, [Next]_vars PROVE Closed'
<1>1. CASE CrashAndRestart
  BY <1>1 DEF CrashAndRestart, Closed, TypeOK, FlushTypeOK
<1>2. CASE FlushAll \/ FlushRound \/ FlushEnds
  BY <1>2 DEF FlushAll, FlushRound, FlushEnds, Closed, TypeOK, FlushTypeOK
<1>3. CASE FlushDrained \/ FlushRetries
  BY <1>3 DEF FlushDrained, FlushRetries, Retry, Closed, TypeOK, FlushTypeOK
<1>4. ASSUME NEW k \in Keys, NEW d \in Drains, DrainStep(k, d)
      PROVE  Closed'
  <2>1. /\ flush'.pc = flush.pc /\ flush'.round = flush.round /\ closing' = closing
    BY <1>4 DEF DrainStep, WriteBegins, DrainEnds, TmpWritten, TargetUnlinked, Renamed,
       RenameReturns, TmpDropped, FileDiscarded, WriteFails, FailureTidied, TypeOK, FlushTypeOK
  <2> QED
    BY <2>1 DEF Closed
<1>5. ASSUME \/ \E k \in Keys, header \in Metadata : Enqueue(k, header) \/ EnqueueChecked(k, header)
             \/ \E k \in Keys, seen \in Metadata, header \in Metadata : AbsorbExternal(k, seen, header)
             \/ \E k \in Keys : Flush(k) \/ DeleteSession(k)
             \/ (\E s \in SnapIds : TimerFires(s)) \/ UNCHANGED vars
      PROVE  Closed'
  BY <1>5 DEF Enqueue, EnqueueChecked, AbsorbExternal, Flush, DeleteSession, TimerFires,
     vars, Closed
<1> QED
  BY <1>1, <1>2, <1>3, <1>4, <1>5 DEF Next, FlushStep

\* A session whose line is the same and whose drivers and awaited drains are there.
LEMMA CoverKept ==
  ASSUME TypeOK, NEW k \in Keys, RoundCovers(k), flush.pc = "draining", flush.round > 0,
         \A d \in Drains : <<k, d>> \in flush.awaited => <<k, d>> \in flush'.awaited,
         queued'[k] = queued[k], supersededAt'[k] = supersededAt[k], DrivesKept(k),
         \A d \in Drains : drains'[k][d].stage # "none" =>
           drains[k][d].stage # "none" /\ drains'[k][d].snap = drains[k][d].snap
  PROVE  LineCovered(k)' /\ HandCovered(k)'
<1>1. LineCovered(k) /\ HandCovered(k)
  BY DEF RoundCovers
<1>2. AwaitedDrains(k) \subseteq AwaitedDrains(k)'
  BY DEF AwaitedDrains
<1>3. ASSUME NEW i \in 1 .. Len(queued'[k]), Late(k, queued[k][i])'
      PROVE  \E d \in AwaitedDrains(k)' : Covers(k, d, i)'
  <2>1. i \in 1 .. Len(queued[k]) /\ Late(k, queued[k][i])
    BY <1>3 DEF Late
  <2>2. PICK d \in AwaitedDrains(k) : Covers(k, d, i)
    BY <1>1, <2>1 DEF LineCovered
  <2>3. Covers(k, d, i)'
    BY <2>2 DEF Covers, DrivesKept, AwaitedDrains
  <2> QED
    BY <1>2, <2>3
<1>4. ASSUME NEW d \in Drains, drains'[k][d].stage # "none", Late(k, drains[k][d].snap)'
      PROVE  \E e \in AwaitedDrains(k)' : e = d \/ drains'[k][e].state = "waiting"
  <2>1. drains[k][d].stage # "none" /\ Late(k, drains[k][d].snap)
    BY <1>4 DEF Late
  <2>2. PICK e \in AwaitedDrains(k) : e = d \/ drains[k][e].state = "waiting"
    BY <1>1, <2>1 DEF HandCovered
  <2>3. e = d \/ drains'[k][e].state = "waiting"
    BY <2>2 DEF DrivesKept, AwaitedDrains
  <2> QED
    BY <1>2, <2>3
<1> QED
  BY <1>3, <1>4 DEF LineCovered, HandCovered

LEMMA TailKeepsDrivers ==
  ASSUME TypeOK, NEW S \in SUBSET Keys, RunOnTail(S), NEW k \in Keys
  PROVE  /\ DrivesKept(k)
         /\ k \in S => NewDrain(k) \in Drains /\ drains'[k][NewDrain(k)].state = "waiting"
<1>1. CASE k \notin S
  BY <1>1 DEF RunOnTail, DrivesKept
<1>2. CASE k \in S
  <2> DEFINE n == NewDrain(k)
  <2>1. n \in Drains /\ drains[k][n].state = "idle"
    BY <1>2, NewDrainIsFree DEF RunOnTail, Active
  <2>2. \A d \in Drains : drains'[k][d] = IF d = n THEN ChainedDrain(k) ELSE drains[k][d]
    BY <1>2, <2>1 DEF RunOnTail, TypeOK, DrainTypeOK
  <2>3. ChainedDrain(k).state = "waiting"
    BY DEF ChainedDrain, IdleDrain
  <2> HIDE DEF n
  <2>4. DrivesKept(k) /\ n \in Drains /\ drains'[k][n].state = "waiting"
    BY <2>1, <2>2, <2>3 DEF DrivesKept
  <2> QED
    BY <2>4 DEF n
<1> QED
  BY <1>1, <1>2

\* One more round: a drain behind the tail of every session with work.
LEMMA RoundCovered ==
  ASSUME Ledger, FlushRound, NEW k \in Keys
  PROVE  LineCovered(k)' /\ HandCovered(k)'
<1> USE DEF Ledger
<1>1. /\ RunOnTail(Busy) /\ Busy \in SUBSET Keys /\ UNCHANGED queued
      /\ flush'.awaited = {<<j, NewDrain(j)>> : j \in Busy}
  BY DEF FlushRound, Busy, TypeOK, FlushTypeOK
<1>2. CASE k \in Busy
  <2>1. PICK n \in Drains : drains'[k][n].state = "waiting" /\ <<k, n>> \in flush'.awaited
    BY <1>1, <1>2, TailKeepsDrivers
  <2>2. n \in AwaitedDrains(k)' /\ \A i : Covers(k, n, i)'
    BY <2>1 DEF AwaitedDrains, Covers
  <2> QED
    BY <2>1, <2>2 DEF LineCovered, HandCovered
<1>3. CASE k \notin Busy
  <2>1. queued[k] = <<>> /\ tails[k] = NoDrain
    BY <1>3 DEF Busy, hasPendingOrTail
  <2>2. \A d \in Drains : drains[k][d].stage = "none"
    BY <2>1, NoTailNoDrain DEF Custody, AtRest
  <2>3. \A d \in Drains : drains'[k][d].stage = "none"
    BY <1>1, <2>2, TailSameHands DEF Custody, HandsSame
  <2> QED
    BY <1>1, <2>1, <2>3 DEF LineCovered, HandCovered
<1> QED
  BY <1>2, <1>3

LEMMA BeginCovered ==
  ASSUME Ledger, NEW k \in Keys, NEW d \in Drains, WriteBegins(k, d), RoundCovers(k),
         flush.pc = "draining", flush.round > 0
  PROVE  LineCovered(k)' /\ HandCovered(k)'
<1> USE DEF Ledger
<1> DEFINE q == queued[k]
<1>1. /\ UNCHANGED <<flush, supersededAt>> /\ queued'[k] = Tail(q) /\ q # <<>>
  BY DEF WriteBegins, historyVars, TypeOK, IntakeTypeOK
<1>2. /\ drains'[k][d].snap = Head(q) /\ \A e \in Drains : e # d => drains'[k][e] = drains[k][e]
  BY WriteStarts
<1>3. \A e \in Drains : e # d => drains'[k][e].stage = "none"
  BY <1>2, LoopAlone DEF WriteBegins, Custody
<1>4. LineCovered(k)
  BY DEF RoundCovers
<1>5. AwaitedDrains(k)' = AwaitedDrains(k) /\ AwaitedDrains(k) \subseteq Drains
  BY <1>1 DEF AwaitedDrains
<1>6. q \in Seq(SnapsSoFar) /\ SnapsSoFar \in SUBSET Nat
  BY LineTyped
<1>7. ASSUME NEW i \in Nat, i + 1 \in 1 .. Len(q), Late(k, q[i + 1])
      PROVE  \E e \in AwaitedDrains(k) : /\ Covers(k, e, i)'
                                         /\ e = d \/ drains'[k][e].state = "waiting"
  <2>1. PICK e \in AwaitedDrains(k) : Covers(k, e, i + 1)
    BY <1>4, <1>7 DEF LineCovered
  <2>2. e \in Drains /\ drains[k][e].state # "idle"
        /\ (drains[k][e].state = "waiting" \/ drains[k][e].remaining >= i + 1)
    BY <1>5, <2>1 DEF Covers
  <2>3. /\ drains'[k][e].state # "idle"
        /\ drains'[k][e].state = "waiting" \/ drains'[k][e].remaining >= i
        /\ e # d => drains'[k][e].state = "waiting"
    BY <1>7, <2>2, BeginKeepsDrivers
  <2> QED
    BY <2>3 DEF Covers
<1> HIDE DEF q
<1>8. /\ Len(Tail(q)) = Len(q) - 1 /\ Len(q) \in Nat /\ Len(q) > 0 /\ Head(q) = q[1]
      /\ \A i \in 1 .. Len(Tail(q)) : i + 1 \in 1 .. Len(q) /\ Tail(q)[i] = q[i + 1]
  BY <1>1, <1>6, TailOf, EntriesOf
<1>9. ASSUME NEW i \in 1 .. Len(queued'[k]), Late(k, queued[k][i])'
      PROVE  \E e \in AwaitedDrains(k)' : Covers(k, e, i)'
  <2>1. i \in Nat /\ i + 1 \in 1 .. Len(q) /\ queued'[k][i] = q[i + 1]
    BY <1>1, <1>8
  <2>2. Late(k, q[i + 1])
    BY <1>1, <1>9, <2>1 DEF Late
  <2> QED
    BY <1>5, <1>7, <2>1, <2>2
<1>10. ASSUME NEW c \in Drains, drains'[k][c].stage # "none", Late(k, drains[k][c].snap)'
       PROVE  \E e \in AwaitedDrains(k)' : e = c \/ drains'[k][e].state = "waiting"
  <2>1. c = d /\ drains'[k][c].snap = q[1]
    BY <1>2, <1>3, <1>8, <1>10 DEF q
  <2>2. Late(k, q[0 + 1]) /\ 0 \in Nat /\ 0 + 1 \in 1 .. Len(q)
    BY <1>1, <1>8, <1>10, <2>1 DEF Late
  <2> QED
    BY <1>5, <1>7, <2>1, <2>2
<1> QED
  BY <1>9, <1>10 DEF LineCovered, HandCovered

LEMMA EndsCovered ==
  ASSUME Ledger, NEW i \in Keys, NEW d \in Drains, DrainEnds(i, d), NEW k \in Keys, RoundCovers(k),
         flush.pc = "draining", flush.round > 0
  PROVE  LineCovered(k)' /\ HandCovered(k)'
<1> USE DEF Ledger
<1>1. /\ UNCHANGED <<queued, supersededAt>> /\ flush'.awaited = flush.awaited \ {<<i, d>>}
  BY DEF DrainEnds, historyVars, TypeOK, FlushTypeOK
<1>2. HandsSame(k)
  BY EndSameHands DEF Custody
<1>3. CASE k # i
  <2>1. DrivesKept(k)
    BY <1>3 DEF DrainEnds, ReleaseSuccessor, TypeOK, DrainTypeOK, DrivesKept
  <2>2. \A e \in Drains : <<k, e>> \in flush.awaited => <<k, e>> \in flush'.awaited
    BY <1>1, <1>3
  <2> QED
    BY <1>1, <1>2, <2>1, <2>2, CoverKept DEF HandsSame
<1>4. CASE k = i
  <2>1. \A e \in Drains : drains'[k][e].stage = "none"
    BY <1>2, <1>4, LoopAlone DEF DrainEnds, Custody, HandsSame
  <2>2. HandCovered(k)'
    BY <2>1 DEF HandCovered
  <2>3. CASE queued[k] = <<>>
    BY <1>1, <2>2, <2>3 DEF LineCovered
  <2>4. CASE queued[k] # <<>>
    <3>1. ASSUME NEW n \in 1 .. Len(queued[k]), Late(k, queued[k][n])
          PROVE  \E e \in AwaitedDrains(k)' : Covers(k, e, n)'
      <4>1. PICK e \in AwaitedDrains(k) : Covers(k, e, n)
        BY <3>1 DEF RoundCovers, LineCovered
      <4>2. /\ drains[k][d].state # "waiting" /\ drains[k][d].remaining = 0
            /\ \A c \in Drains : c # d => /\ drains'[k][c].state = drains[k][c].state
                                          /\ drains'[k][c].remaining = drains[k][c].remaining
        BY <1>4, <2>4, EndsKeepsDrivers
      <4>3. e # d /\ e \in Drains
        BY <4>1, <4>2 DEF Covers, AwaitedDrains
      <4>4. e \in AwaitedDrains(k)'
        BY <1>1, <1>4, <4>1, <4>3 DEF AwaitedDrains
      <4>5. Covers(k, e, n)'
        BY <4>1, <4>2, <4>3 DEF Covers
      <4> QED
        BY <4>4, <4>5
    <3> QED
      BY <1>1, <2>2, <3>1 DEF LineCovered, Late
  <2> QED
    BY <2>3, <2>4
<1> QED
  BY <1>3, <1>4

LEMMA AbsorbCovered ==
  ASSUME Ledger, NEW i \in Keys, NEW seen \in Metadata, NEW header \in Metadata,
         AbsorbExternal(i, seen, header), NEW k \in Keys, RoundCovers(k),
         flush.pc = "draining", flush.round > 0
  PROVE  LineCovered(k)' /\ HandCovered(k)'
<1> USE DEF Ledger
<1>1. /\ UNCHANGED <<drains, flush>> /\ queued' = [queued EXCEPT ![i] = <<NewSnap>>]
      /\ supersededAt' = [supersededAt EXCEPT ![i] = Len(snapshots)]
  BY DEF AbsorbExternal
<1>2. CASE k # i
  <2>1. queued'[k] = queued[k] /\ supersededAt'[k] = supersededAt[k] /\ DrivesKept(k)
    BY <1>1, <1>2 DEF TypeOK, IntakeTypeOK, HistoryTypeOK, DrivesKept
  <2> QED
    BY <1>1, <2>1, CoverKept
<1>3. CASE k = i
  <2>1. queued'[k] = <<NewSnap>> /\ supersededAt'[k] = Len(snapshots)
    BY <1>1, <1>3 DEF TypeOK, IntakeTypeOK, HistoryTypeOK
  <2>2. NewSnap = Len(snapshots) + 1 /\ Len(snapshots) \in Nat
        /\ \A s \in SnapsSoFar : s \in Nat /\ s <= Len(snapshots)
    BY LandedTyped
  <2>3. \A n \in 1 .. Len(queued'[k]) : queued'[k][n] = NewSnap
    BY <2>1
  <2>4. ASSUME NEW n \in 1 .. Len(queued'[k]) PROVE ~Late(k, queued[k][n])'
    BY <2>1, <2>2, <2>3 DEF Late
  <2>5. ASSUME NEW d \in Drains, drains'[k][d].stage # "none" PROVE ~Late(k, drains[k][d].snap)'
    <3>1. drains'[k][d].snap \in SnapsSoFar
      BY <1>1, <2>5, HandTyped
    <3> QED
      BY <2>1, <2>2, <3>1 DEF Late
  <2> QED
    BY <2>4, <2>5 DEF LineCovered, HandCovered
<1> QED
  BY <1>2, <1>3

LEMMA RoundCoversStep ==
  ASSUME Files, Closed, [Next]_vars, NEW k \in Keys, RoundCovers(k)
  PROVE  RoundCovers(k)'
<1> USE DEF Files, Ledger
<1> SUFFICES ASSUME flush'.pc = "draining", flush'.round > 0
             PROVE  LineCovered(k)' /\ HandCovered(k)'
  BY DEF RoundCovers
<1>1. CASE FlushRound
  BY <1>1, RoundCovered
<1>2. CASE FlushAll \/ FlushDrained \/ FlushRetries \/ FlushEnds \/ CrashAndRestart
  <2>1. CASE FlushAll
    BY <2>1 DEF FlushAll, Closed, TypeOK, FlushTypeOK
  <2>2. CASE FlushDrained \/ FlushRetries
    BY <2>2 DEF FlushDrained, FlushRetries, Retry, TypeOK, FlushTypeOK
  <2>3. CASE FlushEnds
    BY <2>3 DEF FlushEnds, TypeOK, FlushTypeOK
  <2>4. CASE CrashAndRestart
    BY <2>4 DEF CrashAndRestart, TypeOK, FlushTypeOK
  <2> QED
    BY <1>2, <2>1, <2>2, <2>3, <2>4
<1>3. ASSUME NEW j \in Keys, NEW header \in Metadata,
             Enqueue(j, header) \/ EnqueueChecked(j, header)
      PROVE  FALSE
  BY <1>3 DEF Enqueue, EnqueueChecked, Closed
<1>4. ASSUME NEW S \in SUBSET Keys, RunOnTail(S), UNCHANGED <<queued, flush, supersededAt>>
      PROVE  LineCovered(k)' /\ HandCovered(k)'
  <2>1. HandsSame(k) /\ DrivesKept(k)
    BY <1>4, TailSameHands, TailKeepsDrivers DEF Custody
  <2> QED
    BY <1>4, <2>1, CoverKept DEF HandsSame
<1>5. ASSUME NEW j \in Keys, Flush(j)
      PROVE  LineCovered(k)' /\ HandCovered(k)'
  <2>1. RunOnTail({j}) /\ {j} \in SUBSET Keys /\ UNCHANGED <<queued, flush, supersededAt>>
    BY <1>5 DEF Flush, historyVars
  <2> QED
    BY <1>4, <2>1
<1>6. ASSUME NEW s \in SnapIds, TimerFires(s)
      PROVE  LineCovered(k)' /\ HandCovered(k)'
  <2>1. snapshots[s].key \in Keys
    BY <1>6, SnapshotTyped DEF TypeOK, IntakeTypeOK, TimerFires
  <2>2. /\ RunOnTail({snapshots[s].key}) /\ {snapshots[s].key} \in SUBSET Keys
        /\ UNCHANGED <<queued, flush, supersededAt>>
    BY <1>6, <2>1 DEF TimerFires, historyVars
  <2> QED
    BY <1>4, <2>2
<1>7. ASSUME NEW j \in Keys, NEW seen \in Metadata, NEW header \in Metadata,
             AbsorbExternal(j, seen, header)
      PROVE  LineCovered(k)' /\ HandCovered(k)'
  <2>1. UNCHANGED flush
    BY <1>7 DEF AbsorbExternal
  <2> QED
    BY <1>7, <2>1, AbsorbCovered
<1>8. ASSUME NEW j \in Keys, DeleteSession(j)
      PROVE  LineCovered(k)' /\ HandCovered(k)'
  <2>1. /\ UNCHANGED <<drains, flush, supersededAt>> /\ queued' = [queued EXCEPT ![j] = <<>>]
    BY <1>8 DEF DeleteSession
  <2>2. DrivesKept(k)
    BY <2>1 DEF DrivesKept
  <2>3. CASE j # k
    <3>1. queued'[k] = queued[k]
      BY <2>1, <2>3 DEF TypeOK, IntakeTypeOK
    <3> QED
      BY <2>1, <2>2, <3>1, CoverKept
  <2>4. CASE j = k
    <3>1. queued'[k] = <<>>
      BY <2>1, <2>4 DEF TypeOK, IntakeTypeOK
    <3>2. LineCovered(k)'
      BY <3>1 DEF LineCovered
    <3>3. HandCovered(k)'
      BY <2>1 DEF RoundCovers, HandCovered, AwaitedDrains, Late
    <3> QED
      BY <3>2, <3>3
  <2> QED
    BY <2>3, <2>4
<1>9. ASSUME NEW j \in Keys, NEW d \in Drains, WriteBegins(j, d)
      PROVE  LineCovered(k)' /\ HandCovered(k)'
  <2>1. /\ UNCHANGED <<flush, supersededAt>> /\ queued' = [queued EXCEPT ![j] = Tail(@)]
    BY <1>9 DEF WriteBegins, historyVars
  <2>2. CASE j = k
    BY <1>9, <2>1, <2>2, BeginCovered
  <2>3. CASE j # k
    <3>1. queued'[k] = queued[k]
      BY <2>1, <2>3 DEF TypeOK, IntakeTypeOK
    <3>2. \A e \in Drains : drains'[k][e] = drains[k][e]
      BY <1>9, <2>3, WriteStarts
    <3> QED
      BY <2>1, <3>1, <3>2, CoverKept DEF DrivesKept
  <2> QED
    BY <2>2, <2>3
<1>10. ASSUME NEW j \in Keys, NEW d \in Drains, WriteStep(j, d)
       PROVE  LineCovered(k)' /\ HandCovered(k)'
  <2>1. DrivesKept(k) /\ UNCHANGED queued
    BY <1>10, WriteKeepsDrivers
  <2>2. UNCHANGED <<flush, supersededAt>>
    BY <1>10 DEF WriteStep, TmpWritten, TargetUnlinked, Renamed,
       RenameReturns, TmpDropped, FileDiscarded, WriteFails, FailureTidied, historyVars
  <2>3. \A e \in Drains : drains'[k][e].stage # "none" =>
           drains[k][e].stage # "none" /\ drains'[k][e].snap = drains[k][e].snap
    <3>1. CASE j = k
      <4>1. /\ drains[k][d].stage # "none" /\ \A e \in Drains : e # d => drains'[k][e].stage = "none"
        BY <1>10, <3>1, WriteFrame DEF AtWork
      <4> QED
        BY <1>10, <3>1, <4>1, WriteOutcome
    <3>2. CASE j # k
      BY <1>10, <3>2, StepSetsDrain, SetSameHands DEF HandsSame
    <3> QED
      BY <3>1, <3>2
  <2> QED
    BY <2>1, <2>2, <2>3, CoverKept
<1>11. ASSUME NEW j \in Keys, NEW d \in Drains, DrainEnds(j, d)
       PROVE  LineCovered(k)' /\ HandCovered(k)'
  <2>1. flush'.pc = flush.pc /\ flush'.round = flush.round
    BY <1>11 DEF DrainEnds, TypeOK, FlushTypeOK
  <2> QED
    BY <1>11, <2>1, EndsCovered
<1>12. CASE UNCHANGED vars
  <2>1. UNCHANGED <<drains, queued, flush, supersededAt>>
    BY <1>12 DEF vars, queueVars, historyVars
  <2> QED
    BY <2>1, CoverKept DEF DrivesKept
<1> QED
  BY <1>1, <1>2, <1>3, <1>5, <1>6, <1>7, <1>8, <1>9, <1>10, <1>11, <1>12
     DEF Next, FlushStep, DrainStep, WriteStep

\* What flushAll still has to retry: one failure of a session, not older than data
\* accepted since but for an external edit.
Copied ==
  /\ flush.retries # {} => flush.pc = "retrying"
  /\ \A failure \in flush.retries : Past(failure[1], snapshots[failure[2]].content)
  /\ \A f, g \in flush.retries : f[1] = g[1] => f = g

Newness ==
  /\ Bounded /\ Closed /\ Copied
  /\ \A k \in Keys : Excused(k) /\ HasLast(k) /\ Lined(k) /\ OwnData(k) /\ RoundCovers(k)

\* When the rounds are over, what a failure has waiting behind it is at most the
\* reconciliation of an external edit.
LEMMA RetainedPast ==
  ASSUME Files, Newness, FlushDrained, NEW k \in Keys, failedSnapshots[k] # NoSnap
  PROVE  Past(k, snapshots[failedSnapshots[k]].content)
<1> USE DEF Files, Ledger
<1>1. PICK f \in SnapsSoFar : f = failedSnapshots[k]
  BY FailedTyped
<1>2. flush.pc = "draining" /\ flush.awaited = {} /\ (Busy = {} \/ flush.round = FlushAllMaxRounds)
  BY DEF FlushDrained
<1>3. Lined(k) /\ OwnData(k) /\ RoundCovers(k)
  BY DEF Newness
<1>4. snapshots[f].content = f
  BY <1>1, <1>2, <1>3 DEF OwnData, Calm, Own
<1>5. /\ Past(k, f) \/ InWork(k)
      /\ \A t \in ToSet(queued[k]) : f < t
      /\ \A d \in Drains : drains[k][d].stage # "none" => f < drains[k][d].snap
  BY <1>1, <1>3 DEF Lined, Overtaken
<1>6. ASSUME InWork(k)
      PROVE  f <= supersededAt[k]
  <2>1. k \in Busy
    <3>1. CASE tails[k] = NoDrain
      <4>1. \A d \in Drains : drains[k][d].stage = "none"
        BY <3>1, NoTailNoDrain DEF Custody, AtRest
      <4> QED
        BY <1>6, <4>1 DEF InWork, Busy, hasPendingOrTail
    <3> QED
      BY <3>1 DEF Busy, hasPendingOrTail
  <2>2. flush.round > 0
    <3>1. FlushAllMaxRounds \in Nat \ {0}
      BY QueueAssumption
    <3> QED
      BY <1>2, <2>1, <3>1
  <2>3. LineCovered(k) /\ HandCovered(k) /\ AwaitedDrains(k) = {}
    BY <1>2, <1>3, <2>2 DEF RoundCovers, AwaitedDrains
  <2>4. /\ f \in Nat /\ supersededAt[k] \in Nat /\ \A t \in SnapsSoFar : t \in Nat
    BY LandedTyped
  <2>5. ASSUME NEW t \in SnapsSoFar, f < t, ~Late(k, t)
        PROVE  f <= supersededAt[k]
    <3>1. t \in Nat /\ ~(t > supersededAt[k] + 1)
      BY <2>4, <2>5 DEF Late
    <3> HIDE DEF Files, Ledger
    <3> QED
      BY ONLY <2>4, <2>5, <3>1
  <2>6. CASE queued[k] # <<>>
    <3>1. 1 \in 1 .. Len(queued[k]) /\ queued[k][1] \in ToSet(queued[k])
          /\ queued[k][1] \in SnapsSoFar
      <4>1. queued[k] \in Seq(SnapsSoFar) /\ SnapsSoFar \in SUBSET Nat
        BY LineTyped
      <4>2. Len(queued[k]) \in Nat /\ Len(queued[k]) > 0
        BY <2>6, <4>1, TailOf, EntriesOf
      <4>3. 1 \in 1 .. Len(queued[k])
        BY <4>2
      <4>4. queued[k][1] \in ToSet(queued[k])
        BY <4>1, <4>3, EntriesOf
      <4> QED
        BY <4>3, <4>4, LineTyped
    <3>2. ~Late(k, queued[k][1])
      BY <2>3, <3>1 DEF LineCovered
    <3> QED
      BY <1>5, <2>5, <3>1, <3>2
  <2>7. ASSUME NEW d \in Drains, drains[k][d].stage # "none"
        PROVE  f <= supersededAt[k]
    <3>1. ~Late(k, drains[k][d].snap)
      BY <2>3, <2>7 DEF HandCovered
    <3> QED
      BY <1>5, <2>5, <2>7, <3>1, HandTyped
  <2> QED
    BY <1>6, <2>6, <2>7 DEF InWork
<1> QED
  BY <1>1, <1>4, <1>5, <1>6 DEF Past

LEMMA RetriesArePast == ASSUME Files, Newness PROVE RetriesPast
<1> SUFFICES ASSUME NEW failures \in SUBSET (Keys \X SnapsSoFar), RetryOf(failures),
                    NEW failure \in failures
             PROVE  Past(failure[1], snapshots[failure[2]].content)
  BY DEF RetriesPast
<1>1. CASE FlushDrained /\ failures = Retained
  <2>1. PICK k \in Keys : failedSnapshots[k] # NoSnap /\ failure = <<k, failedSnapshots[k]>>
    BY <1>1 DEF Retained
  <2>2. Past(k, snapshots[failedSnapshots[k]].content)
    BY <1>1, <2>1, RetainedPast
  <2>3. failure[1] = k /\ failure[2] = failedSnapshots[k]
    BY <2>1
  <2> QED
    BY <2>2, <2>3
<1>2. CASE failures = flush.retries
  BY <1>2 DEF Newness, Copied
<1> QED
  BY <1>1, <1>2 DEF RetryOf

LEMMA RetryCopied ==
  ASSUME Files, Newness, NEW failures \in SUBSET (Keys \X SnapsSoFar), RetryOf(failures), [Next]_vars
  PROVE  Copied'
<1> USE DEF Files
<1>1. PICK failure \in failures :
        /\ Len(snapshots') = NewSnap
        /\ snapshots'[NewSnap].key = failure[1]
        /\ flush'.pc = "retrying" /\ flush'.retries = failures \ {failure}
        /\ UNCHANGED supersededAt
  BY RetryAppends
<1>2. \A f, g \in failures : f[1] = g[1] => f = g
  BY DEF RetryOf, Retained, Newness, Copied
<1>3. Longer /\ RetriesPast
  BY HeapStep, RetriesArePast
<1>4. ASSUME NEW other \in failures, other # failure
      PROVE  Past(other[1], snapshots[other[2]].content)'
  <2>1. PICK j \in Keys, f \in SnapsSoFar : j = other[1] /\ f = other[2]
    OBVIOUS
  <2>2. Past(j, snapshots[f].content)
    BY <1>3, <2>1 DEF RetriesPast
  <2>3. snapshots'[f] = snapshots[f] /\ j # failure[1]
    BY <1>2, <1>3, <1>4, <2>1 DEF Longer
  <2>4. SnapsOf(j)' \subseteq SnapsOf(j)
    <3> SUFFICES ASSUME NEW s \in SnapsOf(j)'
                 PROVE  s \in SnapsOf(j)
      OBVIOUS
    <3>1. s \in 1 .. NewSnap /\ snapshots'[s].key = j
      BY <1>1 DEF SnapsOf
    <3>2. s # NewSnap
      BY <1>1, <2>3, <3>1
    <3>3. s \in SnapsSoFar
      BY <3>1, <3>2, LineTyped DEF Ledger, NewSnap, SnapsSoFar
    <3> QED
      BY <1>3, <3>1, <3>3 DEF Longer, SnapsOf, SnapsSoFar
  <2>5. Past(j, snapshots[f].content)'
    BY <1>1, <2>2, <2>3, <2>4 DEF Past, Newer
  <2> QED
    BY <2>1, <2>5
<1> QED
  BY <1>1, <1>2, <1>4 DEF Copied

\* Nothing left to retry.
LEMMA NothingCopied == ASSUME flush'.retries = {} PROVE Copied'
  BY DEF Copied

LEMMA CopiedKept ==
  ASSUME Files, Newness, [Next]_vars, flush'.retries = flush.retries, flush'.pc = flush.pc,
         \/ UNCHANGED snapshots
         \/ \E i \in Keys, seen \in Metadata, header \in Metadata : AbsorbExternal(i, seen, header)
  PROVE  Copied'
<1> USE DEF Files
<1>1. Copied /\ Bounded
  BY DEF Newness
<1>2. Longer
  BY HeapStep
<1>3. ASSUME NEW failure \in flush.retries
      PROVE  Past(failure[1], snapshots[failure[2]].content)'
  <2>1. PICK j \in Keys, f \in SnapsSoFar : j = failure[1] /\ f = failure[2]
    BY DEF Ledger, TypeOK, FlushTypeOK
  <2>2. PICK c : c = snapshots[f].content /\ c = snapshots'[f].content
    BY <1>2 DEF Longer
  <2>3. Past(j, c) /\ c <= f /\ c \in Nat /\ f \in Nat /\ f <= Len(snapshots)
    <3>1. Past(j, c) /\ c <= f
      BY <1>1, <2>1, <2>2 DEF Copied, Bounded
    <3>2. snapshots[f].content \in SnapIds
      BY SnapshotTyped DEF Ledger, TypeOK
    <3> QED
      BY <2>2, <3>1, <3>2, BoundsAreNat, LandedTyped DEF SnapIds, Ledger
  <2>4. supersededAt[j] \in Nat /\ supersededAt'[j] \in Nat /\ supersededAt[j] <= supersededAt'[j]
    BY SupersedesGrow
  <2>5. Past(j, c)'
    <3>1. CASE SnapsOf(j)' \subseteq SnapsOf(j)
      BY <2>3, <2>4, <3>1 DEF Past, Newer
    <3>2. CASE c <= supersededAt'[j]
      BY <3>2 DEF Past
    <3>3. CASE UNCHANGED snapshots
      BY <3>1, <3>3 DEF SnapsOf
    <3>4. ASSUME NEW i \in Keys, NEW seen \in Metadata, NEW header \in Metadata,
                 AbsorbExternal(i, seen, header)
          PROVE  Past(j, c)'
      <4>1. CASE i = j
        <5>1. supersededAt'[j] = Len(snapshots) /\ Len(snapshots) \in Nat
          BY <3>4, <4>1, LandedTyped DEF AbsorbExternal, Ledger, TypeOK, HistoryTypeOK
        <5> QED
          BY <2>3, <3>2, <5>1
      <4>2. CASE i # j
        BY <3>1, <3>4, <4>2, AbsorbHeap DEF Ledger
      <4> QED
        BY <4>1, <4>2
    <3> QED
      BY <3>3, <3>4
  <2> QED
    BY <2>1, <2>2, <2>5 DEF Past, Newer
<1> QED
  BY <1>1, <1>3 DEF Copied

LEMMA CopiedStep == ASSUME Files, Newness, [Next]_vars PROVE Copied'
<1> USE DEF Files, Ledger
<1>1. Copied /\ Closed
  BY DEF Newness
<1>2. CASE FlushAll \/ FlushRound \/ FlushEnds \/ CrashAndRestart
  <2>1. flush'.retries = {}
    BY <1>1, <1>2 DEF FlushAll, FlushRound, FlushEnds, CrashAndRestart, Copied, TypeOK, FlushTypeOK
  <2> QED
    BY <2>1, NothingCopied
<1>3. CASE FlushDrained
  <2>1. Retained \in SUBSET (Keys \X SnapsSoFar)
    BY DEF Retained, TypeOK, OutcomeTypeOK
  <2>2. RetryOf(Retained) \/ flush'.retries = {}
    BY <1>1, <1>3 DEF FlushDrained, RetryOf, Copied, TypeOK, FlushTypeOK
  <2> QED
    BY <2>1, <2>2, RetryCopied, NothingCopied
<1>4. CASE FlushRetries
  <2>1. flush.retries \in SUBSET (Keys \X SnapsSoFar) /\ flush.quiescent \in BOOLEAN
    BY DEF TypeOK, FlushTypeOK
  <2>2. RetryOf(flush.retries)
    BY <1>4, <2>1 DEF FlushRetries, RetryOf
  <2> QED
    BY <2>1, <2>2, RetryCopied
<1>5. ASSUME NEW k \in Keys, NEW header \in Metadata, Enqueue(k, header) \/ EnqueueChecked(k, header)
      PROVE  Copied'
  <2>1. ~closing /\ UNCHANGED flush
    BY <1>5 DEF Enqueue, EnqueueChecked
  <2>2. flush'.retries = {}
    BY <1>1, <2>1 DEF Closed, Copied
  <2> QED
    BY <2>2, NothingCopied
<1>6. ASSUME NEW k \in Keys, NEW seen \in Metadata, NEW header \in Metadata,
             AbsorbExternal(k, seen, header)
      PROVE  Copied'
  <2>1. UNCHANGED flush
    BY <1>6 DEF AbsorbExternal
  <2> QED
    BY <1>6, <2>1, CopiedKept
<1>7. ASSUME NEW k \in Keys, NEW d \in Drains, DrainStep(k, d)
      PROVE  Copied'
  <2>1. UNCHANGED snapshots
    BY <1>7 DEF DrainStep, WriteBegins, DrainEnds, TmpWritten, TargetUnlinked, Renamed,
       RenameReturns, TmpDropped, FileDiscarded, WriteFails, FailureTidied, queueVars
  <2>2. flush'.pc = flush.pc /\ flush'.retries = flush.retries
    BY <1>7 DEF DrainStep, WriteBegins, DrainEnds, TmpWritten, TargetUnlinked, Renamed,
       RenameReturns, TmpDropped, FileDiscarded, WriteFails, FailureTidied, TypeOK, FlushTypeOK
  <2> QED
    BY <2>1, <2>2, CopiedKept
<1>8. ASSUME \/ \E k \in Keys : Flush(k) \/ DeleteSession(k)
             \/ (\E s \in SnapIds : TimerFires(s)) \/ UNCHANGED vars
      PROVE  Copied'
  <2>1. UNCHANGED <<snapshots, flush>>
    BY <1>8 DEF Flush, DeleteSession, TimerFires, vars, queueVars
  <2> QED
    BY <2>1, CopiedKept
<1> QED
  BY <1>2, <1>3, <1>4, <1>5, <1>6, <1>7, <1>8 DEF Next, FlushStep

LEMMA NewnessInit == Init => Newness
<1> SUFFICES ASSUME Init PROVE Newness
  OBVIOUS
<1>1. /\ snapshots = <<>> /\ landed = {} /\ closing = FALSE
      /\ flush = [pc |-> "open", round |-> 0, awaited |-> {}, retries |-> {},
                  retrying |-> NoSnap, quiescent |-> FALSE]
      /\ \A k \in Keys : queued[k] = <<>> /\ failedSnapshots[k] = NoSnap
      /\ \A k \in Keys, d \in Drains : drains[k][d] = IdleDrain
  BY DEF Init, InitWith
<1>2. SnapsSoFar = {} /\ \A k \in Keys : SnapsOf(k) = {}
  BY <1>1 DEF SnapsSoFar, SnapsOf
<1>3. Bounded /\ Closed /\ Copied
  BY <1>1, <1>2 DEF Bounded, Closed, Copied
<1>4. \A k \in Keys, d \in Drains : drains[k][d].stage = "none"
  BY <1>1 DEF IdleDrain
<1>5. ASSUME NEW k \in Keys
      PROVE  Excused(k) /\ HasLast(k) /\ Lined(k) /\ OwnData(k) /\ RoundCovers(k)
  BY <1>1, <1>2, <1>4 DEF Excused, HasLast, Landed, Lined, LineIsNewest, HandIsNewest, Overtaken,
     OwnData, RoundCovers
<1> QED
  BY <1>3, <1>5 DEF Newness

LEMMA NewnessStep == Files /\ Newness /\ [Next]_vars => Newness'
<1> SUFFICES ASSUME Files, Newness, [Next]_vars
             PROVE  Newness'
  OBVIOUS
<1>1. Bounded' /\ Closed' /\ Copied'
  BY BoundedStep, ClosedStep, CopiedStep DEF Newness, Files, Ledger
<1>2. RetriesPast
  BY RetriesArePast
<1>3. ASSUME NEW k \in Keys
      PROVE  (Excused(k) /\ HasLast(k) /\ Lined(k) /\ OwnData(k) /\ RoundCovers(k))'
  <2>1. Excused(k) /\ HasLast(k) /\ Lined(k) /\ OwnData(k) /\ RoundCovers(k) /\ Closed /\ Ledger
    BY DEF Newness, Files
  <2>2. Excused(k)' /\ HasLast(k)'
    BY <1>2, <2>1, ExcusedStep, HasLastStep
  <2>3. Lined(k)' /\ OwnData(k)'
    BY <2>1, LinedStep, OwnDataStep
  <2>4. RoundCovers(k)'
    BY <2>1, RoundCoversStep
  <2> QED
    BY <2>2, <2>3, <2>4
<1> QED
  BY <1>1, <1>3 DEF Newness

\* So what the file holds is not older than anything it has held.
LEMMA NewnessShows == Files /\ Newness => NewestDataOnDisk
<1> SUFFICES ASSUME Files, Newness, NEW k \in Keys, disk[k] # None, ~BroughtBack(k),
                    NEW s \in Landed(k)
             PROVE  snapshots[s].content <= disk[k].content
  BY DEF NewestDataOnDisk, Landed
<1> USE DEF Files, Ledger
<1>1. PICK m \in Landed(k) : \A t \in Landed(k) : t <= m
  BY DEF Newness, HasLast
<1>2. disk[k].content = snapshots[m].content
  BY <1>1 DEF Filed, LastOnDisk
<1>3. s \in SnapsSoFar /\ m \in SnapsSoFar /\ s \in Nat /\ m \in Nat /\ s <= m
  BY <1>1, LandedTyped
<1>4. /\ snapshots[s].content \in Nat /\ snapshots[m].content \in Nat /\ snapshots[s].content <= s
  <2>1. snapshots[s].content \in SnapIds /\ snapshots[m].content \in SnapIds
    BY <1>3, SnapshotTyped DEF TypeOK
  <2> QED
    BY <1>3, <2>1, BoundsAreNat DEF SnapIds, Newness, Bounded
<1>5. ASSUME snapshots[m].content < snapshots[s].content
      PROVE  FALSE
  <2>1. s # m
    BY <1>4, <1>5
  <2>2. snapshots[m].content < s /\ s < m
    BY <1>3, <1>4, <1>5, <2>1
  <2>3. s \in SnapsOf(k) /\ m \in landed \cap SnapsOf(k)
    BY DEF Landed
  <2>4. snapshots[m].content <= supersededAt[k]
    BY <2>2, <2>3 DEF Newness, Excused
  <2> QED
    BY <2>2, <2>3, <2>4 DEF BroughtBack
<1> QED
  BY <1>2, <1>4, <1>5

\* The file never goes back: a session has one write in hand at a time, a newer
\* entry waits behind it, a commit releases the failure it overtakes, and flushAll
\* retries a failure only once nothing newer of its session is left to write; only
\* an external edit absorbed after flushAll copied its failures gets past that.
THEOREM NewestDataStays == Spec => []NewestDataOnDisk
  BY NewnessShows, NewnessInit, NewnessStep, FilesHold, PTL DEF Spec

----------------------------------------------------------------------------
(* Shutdown.  flushAll may resolve only when nothing accepted is missing from *)
(* the file: whatever is not there is still at work, retained as a failure,   *)
(* or was deleted; and a retained failure is retried, or reported.            *)

Accounted(k) == crashedAt = 0 => \A s \in SnapsOf(k) :
  \/ snapshots[s].content <= deletedAt[k]
  \/ InWork(k) \/ failedSnapshots[k] # NoSnap \/ BroughtBack(k)
  \/ \E t \in Landed(k) : snapshots[s].content <= snapshots[t].content

Reported(k) == flush.pc = "retrying" /\ failedSnapshots[k] # NoSnap =>
  k \in closingWriteFailures \/ InWork(k) \/ \E failure \in flush.retries : failure[1] = k

\* How a write that ends leaves its snapshot: landed and its failure cleared,
\* overtaken by an external edit or a deletion, or retained and, while closing, noted.
LEMMA WriteEnds ==
  ASSUME Ledger, NEW k \in Keys, Filed(k), NEW d \in Drains, WriteStep(k, d),
         drains'[k][d].stage = "none"
  PROVE  \/ drains[k][d].snap \in Landed(k)' /\ failedSnapshots'[k] = NoSnap
         \/ drains[k][d].snap <= supersededAt[k] \/ Obsolete(k, drains[k][d].snap)
         \/ failedSnapshots'[k] = drains[k][d].snap /\ (closing => k \in closingWriteFailures')
<1> USE DEF Ledger
<1>1. /\ AtWork(k, d) /\ HandMarks(k, drains[k][d]) /\ HandFacts(k, drains[k][d])
      /\ SnapsOf(k)' = SnapsOf(k) /\ UNCHANGED snapshots
  BY WriteFrame DEF Filed, Marked, AtWork, Custody, InHand
<1>2. PICK s \in SnapsSoFar : s = drains[k][d].snap
  BY <1>1, HandTyped DEF AtWork
<1>3. CASE TmpWritten(k, d) \/ TargetUnlinked(k, d) \/ Renamed(k, d)
  <2>1. \/ Abandon(k, d, FALSE)
        \/ SetDrain(k, d, [drains[k][d] EXCEPT !.stage = "unlinking"])
        \/ SetDrain(k, d, [drains[k][d] EXCEPT !.stage = "renaming"])
        \/ SetDrain(k, d, [drains[k][d] EXCEPT !.stage = "renamed"])
    BY <1>3 DEF TmpWritten, TargetUnlinked, Renamed
  <2>2. drains'[k][d].stage # "none"
    <3>1. CASE Abandon(k, d, FALSE)
      BY <3>1, AbandonSet
    <3>2. ASSUME NEW stage \in {"unlinking", "renaming", "renamed"},
                 SetDrain(k, d, [drains[k][d] EXCEPT !.stage = stage])
          PROVE  drains'[k][d].stage # "none"
      BY <3>2, StageSet
    <3> QED
      BY <2>1, <3>1, <3>2
  <2> QED
    BY <2>2
<1>4. CASE RenameReturns(k, d)
  <2>1. CASE Commit(k, d)
    <3>1. s \in landed /\ UNCHANGED landed
      BY <1>1, <1>2, <1>4 DEF RenameReturns, AtStage, HandFacts, historyVars
    <3>2. s \in Landed(k)'
      BY <1>1, <1>2, <3>1 DEF Landed, SnapsOf, SnapsSoFar, HandFacts
    <3>3. failedSnapshots'[k] = NoSnap
      BY <2>1 DEF Commit, TypeOK, OutcomeTypeOK
    <3> QED
      BY <1>2, <3>2, <3>3
  <2>2. CASE Abandon(k, d, TRUE)
    BY <2>2, AbandonSet
  <2> QED
    BY <1>4, <2>1, <2>2 DEF RenameReturns
<1>5. CASE TmpDropped(k, d) \/ FileDiscarded(k, d) \/ FailureTidied(k, d)
  <2>1. drains[k][d].stage \in {"abandoning", "discarding", "tidying"}
    BY <1>5 DEF TmpDropped, FileDiscarded, FailureTidied, AtStage
  <2> QED
    BY <1>1, <2>1 DEF HandMarks
<1>6. CASE WriteFails(k, d)
  <2>1. CASE Cancelled(k, Generation(drains[k][d].snap))
    BY <1>1, <2>1, CancelledIsOvertaken
  <2>2. CASE RetainFailure(k, d)
    BY <2>2 DEF RetainFailure, TypeOK, OutcomeTypeOK
  <2> QED
    BY <1>6, <2>1, <2>2 DEF WriteFails
<1> QED
  BY <1>3, <1>4, <1>5, <1>6 DEF WriteStep

\* What landed and was excused stays so.
LEMMA BroughtBackStays ==
  ASSUME Ledger, [Next]_vars, NEW k \in Keys, BroughtBack(k), landed \subseteq landed'
  PROVE  BroughtBack(k)'
<1> USE DEF Ledger
<1>1. PICK r \in Landed(k), s \in SnapsOf(k) :
        snapshots[r].content <= supersededAt[k] /\ snapshots[r].content < s /\ s < r
  BY DEF BroughtBack, Landed
<1>2. Longer
  BY HeapStep
<1>3. r \in SnapsSoFar /\ s \in SnapsSoFar
  BY LandedTyped DEF SnapsOf, SnapsSoFar
<1>4. /\ r \in SnapsOf(k)' /\ s \in SnapsOf(k)' /\ r \in landed'
      /\ snapshots'[r] = snapshots[r]
  BY <1>2, <1>3 DEF Longer, Landed, SnapsOf, SnapsSoFar
<1>5. snapshots[r].content \in Nat
  <2>1. snapshots[r].content \in SnapIds
    BY <1>3, SnapshotTyped DEF TypeOK
  <2> QED
    BY <2>1, BoundsAreNat DEF SnapIds
<1>6. snapshots[r].content <= supersededAt'[k]
  BY <1>1, <1>5, SupersedesGrow
<1> QED
  BY <1>1, <1>4, <1>6 DEF BroughtBack

LEMMA LandedKept ==
  ASSUME Ledger, [Next]_vars
  PROVE  landed \subseteq landed'
<1>1. ASSUME NEW k \in Keys, NEW d \in Drains, DrainStep(k, d)
      PROVE  landed \subseteq landed'
  BY <1>1 DEF DrainStep, WriteBegins, DrainEnds, TmpWritten, TargetUnlinked, Renamed,
     RenameReturns, TmpDropped, FileDiscarded, WriteFails, FailureTidied, historyVars
<1>2. CASE UNCHANGED landed
  BY <1>2
<1> QED
  BY <1>1, <1>2 DEF Next, FlushStep, Enqueue, EnqueueChecked, Flush, TimerFires, AbsorbExternal,
     DeleteSession, FlushAll, FlushRound, FlushDrained, FlushRetries, FlushEnds, CrashAndRestart,
     vars, historyVars

\* A session with something in line has it at work.
LEMMA MildWork ==
  ASSUME NEW k \in Keys, Mild(k), InWork(k)
  PROVE  InWork(k)'
<1>1. CASE queued[k] # <<>>
  BY <1>1 DEF Mild, LineGrows, InWork
<1>2. CASE \E d \in Drains : drains[k][d].stage # "none"
  BY <1>2 DEF Mild, HandsSame, InWork
<1> QED
  BY <1>1, <1>2 DEF InWork

\* With nothing in line, what is in hand is the newest, but for what was deleted.
LastInHand(k) == queued[k] = <<>> => \A d \in Drains : drains[k][d].stage # "none" =>
  \A t \in SnapsOf(k) : t <= drains[k][d].snap \/ t <= deletedAt[k]

LEMMA LastInHandStep ==
  ASSUME Files, Newness, [Next]_vars, NEW k \in Keys, LastInHand(k)
  PROVE  LastInHand(k)'
<1> USE DEF Files, Ledger
<1>1. CASE Mild(k)
  <2> SUFFICES ASSUME queued'[k] = <<>>, NEW d \in Drains, drains'[k][d].stage # "none",
                      NEW t \in SnapsOf(k)'
               PROVE  t <= drains'[k][d].snap \/ t <= deletedAt'[k]
    BY DEF LastInHand
  <2>1. queued[k] = <<>> /\ t \in SnapsOf(k)
    BY <1>1, RisingEmpty DEF Mild, LineGrows
  <2> QED
    BY <1>1, <2>1 DEF Mild, HandsSame, FilesSame, LastInHand
<1>2. ASSUME NEW seen \in Metadata, NEW header \in Metadata, AbsorbExternal(k, seen, header)
      PROVE  LastInHand(k)'
  <2>1. queued'[k] = <<NewSnap>>
    BY <1>2 DEF AbsorbExternal, TypeOK, IntakeTypeOK
  <2>2. queued'[k] # <<>>
    BY <2>1
  <2> QED
    BY <2>2 DEF LastInHand
<1>3. CASE DeleteSession(k)
  <2>1. UNCHANGED snapshots /\ deletedAt'[k] = Len(snapshots)
    BY <1>3 DEF DeleteSession, TypeOK, HistoryTypeOK
  <2>2. \A t \in SnapsOf(k)' : t <= deletedAt'[k]
    BY <2>1, LandedTyped DEF SnapsOf
  <2> QED
    BY <2>2 DEF LastInHand
<1>4. ASSUME NEW d \in Drains, WriteBegins(k, d)
      PROVE  LastInHand(k)'
  <2>1. /\ drains'[k][d].snap = Head(queued[k])
        /\ \A e \in Drains : e # d => drains'[k][e] = drains[k][e]
    BY <1>4, WriteStarts
  <2>2. /\ queued[k] # <<>> /\ queued'[k] = Tail(queued[k]) /\ UNCHANGED snapshots
        /\ SnapsOf(k)' = SnapsOf(k)
    BY <1>4 DEF WriteBegins, TypeOK, IntakeTypeOK, SnapsOf
  <2>3. \A t : t \in ToSet(queued[k]) <=> t = Head(queued[k]) \/ t \in ToSet(queued'[k])
    BY <2>2, LineTyped, TailOf
  <2>4. \A e \in Drains : e # d => drains'[k][e].stage = "none"
    BY <1>4, <2>1, LoopAlone DEF WriteBegins, Custody
  <2>5. queued'[k] = <<>> => \A t \in SnapsOf(k) : t <= Head(queued[k])
    BY <2>2, <2>3, RisingEmpty DEF Newness, Lined, LineIsNewest
  <2> QED
    BY <2>1, <2>2, <2>4, <2>5 DEF LastInHand
<1>5. ASSUME NEW d \in Drains, WriteStep(k, d)
      PROVE  LastInHand(k)'
  <2>1. /\ drains[k][d].stage # "none" /\ (\A e \in Drains : e # d => drains'[k][e].stage = "none")
        /\ UNCHANGED <<queued, deletedAt>> /\ SnapsOf(k)' = SnapsOf(k)
    BY <1>5, WriteFrame DEF AtWork
  <2>2. drains'[k][d].stage # "none" => drains'[k][d].snap = drains[k][d].snap
    BY <1>5, WriteOutcome
  <2> QED
    BY <2>1, <2>2 DEF LastInHand
<1>6. CASE CrashAndRestart
  <2>1. \A d \in Drains : drains'[k][d] = IdleDrain
    BY <1>6 DEF CrashAndRestart
  <2>2. \A d \in Drains : drains'[k][d].stage = "none"
    BY <2>1 DEF IdleDrain
  <2> QED
    BY <2>2 DEF LastInHand
<1> QED
  BY <1>1, <1>2, <1>3, <1>4, <1>5, <1>6, StepIsMild

LEMMA ContentTyped ==
  ASSUME Ledger, Bounded, NEW t \in SnapsSoFar
  PROVE  t \in Nat /\ snapshots[t].content \in Nat /\ snapshots[t].content <= t
<1>1. snapshots[t].content \in SnapIds
  BY SnapshotTyped DEF Ledger, TypeOK
<1>2. t \in Nat
  BY LineTyped, QueueAssumption DEF Ledger
<1> QED
  BY <1>1, <1>2, BoundsAreNat DEF SnapIds, Bounded

LEMMA WriteAccounted ==
  ASSUME Files, Newness, [Next]_vars, NEW k \in Keys, LastInHand(k), NEW d \in Drains,
         WriteStep(k, d), ~InWork(k)', failedSnapshots'[k] = NoSnap, ~BroughtBack(k)'
  PROVE  \A t \in SnapsOf(k) : \/ snapshots[t].content <= deletedAt[k]
                               \/ \E l \in Landed(k)' : snapshots[t].content <= snapshots[l].content
<1> USE DEF Files, Ledger
<1>1. /\ AtWork(k, d) /\ SnapsOf(k)' = SnapsOf(k)
      /\ UNCHANGED <<snapshots, queued, deletedAt, supersededAt>>
  BY WriteFrame
<1>2. PICK s \in SnapsSoFar : s = drains[k][d].snap /\ s # NoSnap
  BY <1>1, HandTyped DEF AtWork
<1>3. queued[k] = <<>> /\ drains'[k][d].stage = "none"
  BY <1>1 DEF InWork
<1>4. \A t \in SnapsOf(k) : t <= s \/ t <= deletedAt[k]
  BY <1>1, <1>2, <1>3 DEF AtWork, LastInHand
<1>5. /\ \A t \in SnapsOf(k) : /\ t \in SnapsSoFar /\ t \in Nat
                               /\ snapshots[t].content \in Nat /\ snapshots[t].content <= t
      /\ s \in Nat /\ s \in SnapsOf(k) /\ deletedAt[k] \in Nat /\ supersededAt[k] \in Nat
  <2>1. \A t \in SnapsSoFar : t \in Nat /\ snapshots[t].content \in Nat /\ snapshots[t].content <= t
    BY ContentTyped DEF Newness
  <2>2. snapshots[s].key = k
    BY <1>1, <1>2 DEF AtWork, Custody, InHand, HandFacts
  <2> QED
    BY <1>2, <2>1, <2>2, LandedTyped DEF SnapsOf, SnapsSoFar
<1>6. ASSUME Obsolete(k, s), NEW t \in SnapsOf(k)
      PROVE  snapshots[t].content <= deletedAt[k]
  <2>1. PICK c \in Nat : c = snapshots[t].content /\ c <= t
    BY <1>5
  <2>2. t \in Nat /\ deletedAt[k] \in Nat /\ s \in Nat /\ (t <= s \/ t <= deletedAt[k]) /\ s <= deletedAt[k]
    BY <1>4, <1>5, <1>6 DEF Obsolete
  <2> QED
    BY ONLY <2>1, <2>2
<1>7. ASSUME s <= supersededAt[k]
      PROVE  Obsolete(k, s)
  BY <1>1, <1>2, <1>3, <1>7 DEF Filed, Marked, HandMarks, AtWork
<1>8. ASSUME s \in Landed(k)', NEW t \in SnapsOf(k), t <= s
      PROVE  snapshots[t].content <= snapshots[s].content
  <2> SUFFICES ASSUME ~(snapshots[t].content <= snapshots[s].content)
               PROVE  FALSE
    OBVIOUS
  <2>1. PICK a \in Nat, b \in Nat :
          /\ a = snapshots[t].content /\ b = snapshots[s].content
          /\ a <= t /\ t \in Nat /\ s \in Nat
    BY <1>5
  <2>2. b < t /\ t # s
    BY <1>8, <2>1
  <2>3. b < t /\ t < s
    BY ONLY <1>8, <2>1, <2>2
  <2>4. b <= supersededAt[k]
    BY <1>5, <2>1, <2>3 DEF Newness, Excused
  <2>5. s \in landed' \cap SnapsOf(k)' /\ t \in SnapsOf(k)' /\ snapshots'[s].content = b
        /\ supersededAt'[k] = supersededAt[k]
    BY <1>1, <1>5, <1>8, <2>1 DEF Landed
  <2>6. BroughtBack(k)'
    BY <2>3, <2>4, <2>5 DEF BroughtBack
  <2> QED
    BY <2>6
<1>9. CASE s \in Landed(k)'
  <2> SUFFICES ASSUME NEW t \in SnapsOf(k)
               PROVE  \/ snapshots[t].content <= deletedAt[k]
                      \/ \E l \in Landed(k)' : snapshots[t].content <= snapshots[l].content
    OBVIOUS
  <2>1. CASE t <= s
    BY <1>8, <1>9, <2>1
  <2>2. CASE t <= deletedAt[k]
    <3>1. PICK c \in Nat : c = snapshots[t].content /\ c <= t
      BY <1>5
    <3>2. t \in Nat /\ deletedAt[k] \in Nat
      BY <1>5
    <3> QED
      BY ONLY <2>2, <3>1, <3>2
  <2> QED
    BY <1>4, <2>1, <2>2
<1> QED
  BY <1>2, <1>3, <1>6, <1>7, <1>9, WriteEnds

LEMMA AccountedStep ==
  ASSUME Files, Files', Newness, Newness', [Next]_vars, NEW k \in Keys, LastInHand(k), Accounted(k)
  PROVE  Accounted(k)'
<1> USE DEF Files, Ledger
<1> SUFFICES ASSUME crashedAt' = 0, ~InWork(k)', failedSnapshots'[k] = NoSnap, ~BroughtBack(k)',
                    NEW s \in SnapsOf(k)'
             PROVE  \/ snapshots'[s].content <= deletedAt'[k]
                    \/ \E t \in Landed(k)' : snapshots'[s].content <= snapshots'[t].content
  BY DEF Accounted
<1>1. Longer /\ Landed(k) \subseteq SnapsSoFar /\ SnapsOf(k) \subseteq SnapsSoFar
  BY HeapStep, LandedTyped DEF SnapsOf, SnapsSoFar
<1>2. BroughtBack(k) => BroughtBack(k)'
  BY BroughtBackStays, LandedKept
<1>3. CASE Mild(k)
  <2>1. queued'[k] = <<>> /\ ~InWork(k)
    BY <1>3, MildWork DEF InWork
  <2>2. s \in SnapsOf(k)
    BY <1>3, <2>1, RisingEmpty DEF Mild, LineGrows
  <2>3. \/ snapshots[s].content <= deletedAt[k]
        \/ \E t \in Landed(k) : snapshots[s].content <= snapshots[t].content
    BY <1>2, <1>3, <2>1, <2>2 DEF Mild, FilesSame, Accounted
  <2> QED
    BY <1>1, <1>3, <2>2, <2>3 DEF Mild, FilesSame, Longer
<1>4. ASSUME NEW seen \in Metadata, NEW header \in Metadata, AbsorbExternal(k, seen, header)
      PROVE  FALSE
  <2>1. queued'[k] = <<NewSnap>>
    BY <1>4 DEF AbsorbExternal, TypeOK, IntakeTypeOK
  <2>2. queued'[k] # <<>>
    BY <2>1
  <2> QED
    BY <2>2 DEF InWork
<1>5. CASE DeleteSession(k)
  <2>1. UNCHANGED snapshots /\ deletedAt'[k] = Len(snapshots)
    BY <1>5 DEF DeleteSession, TypeOK, HistoryTypeOK
  <2>2. s \in SnapsSoFar
    BY <2>1 DEF SnapsOf, SnapsSoFar
  <2>3. PICK c \in Nat : c = snapshots[s].content /\ c <= s
    BY <2>2, ContentTyped DEF Newness
  <2>4. s \in Nat /\ s <= Len(snapshots) /\ Len(snapshots) \in Nat
    BY <2>2, LandedTyped
  <2>5. c <= Len(snapshots)
    BY ONLY <2>3, <2>4
  <2> QED
    BY <2>1, <2>3, <2>5
<1>6. ASSUME NEW d \in Drains, WriteBegins(k, d)
      PROVE  FALSE
  <2>1. drains'[k][d].stage = "writing"
    BY <1>6, WriteStarts
  <2> QED
    BY <2>1 DEF InWork
<1>7. ASSUME NEW d \in Drains, WriteStep(k, d)
      PROVE  \/ snapshots'[s].content <= deletedAt'[k]
             \/ \E t \in Landed(k)' : snapshots'[s].content <= snapshots'[t].content
  <2>1. SnapsOf(k)' = SnapsOf(k) /\ UNCHANGED <<snapshots, deletedAt>>
    BY <1>7, WriteFrame
  <2> QED
    BY <1>7, <2>1, WriteAccounted
<1>8. CASE CrashAndRestart
  <2>1. Len(snapshots) = 0 /\ UNCHANGED snapshots
    BY <1>8 DEF CrashAndRestart
  <2>2. s \in 1 .. 0
    BY <2>1 DEF SnapsOf
  <2> QED
    BY <2>2
<1> QED
  BY <1>3, <1>4, <1>5, <1>6, <1>7, <1>8, StepIsMild

\* A step of flushAll that starts a retry has the failures it knows of retried.
LEMMA RetryReported ==
  ASSUME Ledger, NEW k \in Keys, Reported(k), FlushDrained \/ FlushRetries, [Next]_vars
  PROVE  Reported(k)'
<1> USE DEF Ledger
<1> SUFFICES ASSUME failedSnapshots'[k] # NoSnap, k \notin closingWriteFailures', ~InWork(k)'
             PROVE  \E failure \in flush'.retries : failure[1] = k
  BY DEF Reported
<1>1. Mild(k) /\ UNCHANGED closingWriteFailures
  BY FlushIsMild DEF FlushStep, FlushDrained, FlushRetries, outcomeVars
<1>2. ~InWork(k) /\ queued'[k] = <<>> /\ failedSnapshots[k] # NoSnap
  BY <1>1, MildWork DEF InWork, Mild, FilesSame
<1>3. ASSUME NEW failures \in SUBSET (Keys \X SnapsSoFar), RetryOf(failures),
             NEW own \in failures, own[1] = k
      PROVE  \E failure \in flush'.retries : failure[1] = k
  <2>1. PICK failure \in failures :
          /\ Len(snapshots') = NewSnap /\ snapshots'[NewSnap].key = failure[1]
          /\ flush'.retries = failures \ {failure}
    BY <1>3, RetryAppends
  <2>2. own # failure
    <3> SUFFICES ASSUME own = failure
                 PROVE  FALSE
      OBVIOUS
    <3>1. NewSnap \in Nat /\ NewSnap >= 1
      BY LineTyped DEF NewSnap
    <3>2. NewSnap \in SnapsOf(k)'
      BY <1>3, <2>1, <3>1 DEF SnapsOf
    <3>3. NewSnap \notin SnapsOf(k)
      BY LineTyped DEF SnapsOf, SnapsSoFar
    <3> QED
      BY <1>1, <1>2, <3>2, <3>3, RisingEmpty DEF Mild, LineGrows
  <2> QED
    BY <1>3, <2>1, <2>2
<1>4. CASE FlushDrained
  <2>1. Retained \in SUBSET (Keys \X SnapsSoFar)
    BY DEF Retained, TypeOK, OutcomeTypeOK
  <2>2. <<k, failedSnapshots[k]>> \in Retained
    BY <1>2 DEF Retained
  <2>3. RetryOf(Retained)
    BY <1>4, <2>2 DEF FlushDrained, RetryOf
  <2> QED
    BY <1>3, <2>1, <2>2, <2>3
<1>5. CASE FlushRetries
  <2>1. flush.retries \in SUBSET (Keys \X SnapsSoFar) /\ flush.quiescent \in BOOLEAN
    BY DEF TypeOK, FlushTypeOK
  <2>2. RetryOf(flush.retries)
    BY <1>5, <2>1 DEF FlushRetries, RetryOf
  <2>3. \E own \in flush.retries : own[1] = k
    BY <1>1, <1>2, <1>5 DEF Reported, FlushRetries
  <2> QED
    BY <1>3, <2>1, <2>2, <2>3
<1> QED
  BY <1>4, <1>5

\* Any other step leaves what flushAll has to retry, and what it noted, alone.
LEMMA ReportFrame ==
  ASSUME Ledger, [Next]_vars, NEW k \in Keys, ~FlushDrained, ~FlushRetries,
         flush'.pc = "retrying"
  PROVE  /\ flush.pc = "retrying" /\ flush'.retries = flush.retries
         /\ \/ k \in closingWriteFailures => k \in closingWriteFailures'
            \/ DeleteSession(k) \/ \E d \in Drains : WriteStep(k, d)
<1> USE DEF Ledger
<1>1. ASSUME NEW j \in Keys, NEW d \in Drains, DrainStep(j, d)
      PROVE  /\ flush.pc = "retrying" /\ flush'.retries = flush.retries
             /\ \/ k \in closingWriteFailures => k \in closingWriteFailures'
                \/ j = k /\ WriteStep(j, d)
  <2>1. flush'.pc = flush.pc /\ flush'.retries = flush.retries
    BY <1>1 DEF DrainStep, WriteBegins, DrainEnds, TmpWritten, TargetUnlinked, Renamed,
       RenameReturns, TmpDropped, FileDiscarded, WriteFails, FailureTidied, TypeOK, FlushTypeOK
  <2>2. CASE WriteBegins(j, d) \/ DrainEnds(j, d)
    BY <2>1, <2>2 DEF WriteBegins, DrainEnds
  <2>3. CASE WriteStep(j, d)
    <3>1. \/ closingWriteFailures' = closingWriteFailures
          \/ closingWriteFailures' = closingWriteFailures \cup {j}
          \/ closingWriteFailures' = closingWriteFailures \ {j}
      BY <2>3 DEF WriteStep, TmpWritten, TargetUnlinked, Renamed, RenameReturns, TmpDropped,
         FileDiscarded, WriteFails, FailureTidied, Commit, RetainFailure, outcomeVars
    <3> QED
      BY <2>1, <2>3, <3>1
  <2> QED
    BY <1>1, <2>2, <2>3 DEF DrainStep, WriteStep
<1>2. CASE FlushAll \/ FlushRound \/ FlushEnds \/ CrashAndRestart
  BY <1>2 DEF FlushAll, FlushRound, FlushEnds, CrashAndRestart, TypeOK, FlushTypeOK
<1>3. ASSUME NEW j \in Keys, DeleteSession(j)
      PROVE  /\ flush.pc = "retrying" /\ flush'.retries = flush.retries
             /\ \/ k \in closingWriteFailures => k \in closingWriteFailures'
                \/ DeleteSession(k)
  BY <1>3 DEF DeleteSession
<1>4. ASSUME \/ \E j \in Keys, header \in Metadata : Enqueue(j, header) \/ EnqueueChecked(j, header)
             \/ \E j \in Keys, seen \in Metadata, header \in Metadata : AbsorbExternal(j, seen, header)
             \/ \E j \in Keys : Flush(j)
             \/ (\E s \in SnapIds : TimerFires(s)) \/ UNCHANGED vars
      PROVE  UNCHANGED <<flush, closingWriteFailures>>
  BY <1>4 DEF Enqueue, EnqueueChecked, AbsorbExternal, Flush, TimerFires, outcomeVars, vars
<1> QED
  BY <1>1, <1>2, <1>3, <1>4 DEF Next, FlushStep

LEMMA ReportedStep ==
  ASSUME Files, Newness, [Next]_vars, NEW k \in Keys, Reported(k)
  PROVE  Reported(k)'
<1> USE DEF Files, Ledger
<1>1. CASE FlushDrained \/ FlushRetries
  BY <1>1, RetryReported
<1>2. CASE ~FlushDrained /\ ~FlushRetries
  <2> SUFFICES ASSUME flush'.pc = "retrying", failedSnapshots'[k] # NoSnap, ~InWork(k)',
                      k \notin closingWriteFailures'
               PROVE  \E failure \in flush'.retries : failure[1] = k
    BY DEF Reported
  <2>1. /\ flush.pc = "retrying" /\ flush'.retries = flush.retries
        /\ \/ k \notin closingWriteFailures
           \/ DeleteSession(k) \/ \E d \in Drains : WriteStep(k, d)
    BY <1>2, ReportFrame
  <2>2. closing
    BY <2>1 DEF Newness, Closed
  <2>3. CASE Mild(k) /\ k \notin closingWriteFailures
    <3>1. ~InWork(k) /\ failedSnapshots[k] # NoSnap
      BY <2>3, MildWork DEF Mild, FilesSame
    <3> QED
      BY <2>1, <2>3, <3>1 DEF Reported
  <2>4. ASSUME NEW seen \in Metadata, NEW header \in Metadata, AbsorbExternal(k, seen, header)
        PROVE  FALSE
    <3>1. queued'[k] = <<NewSnap>>
      BY <2>4 DEF AbsorbExternal, TypeOK, IntakeTypeOK
    <3>2. queued'[k] # <<>>
      BY <3>1
    <3> QED
      BY <3>2 DEF InWork
  <2>5. CASE DeleteSession(k)
    BY <2>5 DEF DeleteSession, TypeOK, OutcomeTypeOK
  <2>6. ASSUME NEW d \in Drains, WriteBegins(k, d)
        PROVE  FALSE
    <3>1. drains'[k][d].stage = "writing"
      BY <2>6, WriteStarts
    <3> QED
      BY <3>1 DEF InWork
  <2>7. ASSUME NEW d \in Drains, WriteStep(k, d)
        PROVE  FALSE
    <3>1. /\ AtWork(k, d) /\ UNCHANGED queued /\ drains'[k][d].stage = "none" /\ queued[k] = <<>>
      BY <2>7, WriteFrame DEF InWork
    <3>2. PICK s \in SnapsSoFar : s = drains[k][d].snap /\ s # NoSnap
      BY <3>1, HandTyped DEF AtWork
    <3>3. s <= supersededAt[k] \/ Obsolete(k, s)
      BY <2>2, <2>7, <3>1, <3>2, WriteEnds
    <3>4. Obsolete(k, s)
      BY <3>1, <3>2, <3>3 DEF Filed, Marked, HandMarks, AtWork
    <3>5. failedSnapshots'[k] = failedSnapshots[k] /\ failedSnapshots[k] # NoSnap
      BY <2>7, <3>1, <3>2, <3>4, WriteOutcome
    <3>6. PICK f \in SnapsSoFar : f = failedSnapshots[k]
      BY <3>5, FailedTyped
    <3>7. f < s /\ f > deletedAt[k] /\ s <= deletedAt[k]
      BY <3>1, <3>2, <3>4, <3>5, <3>6 DEF AtWork, Newness, Lined, Overtaken, Filed, FailedLive, Obsolete
    <3>8. f \in Nat /\ s \in Nat /\ deletedAt[k] \in Nat
      BY LandedTyped
    <3> QED
      BY ONLY <3>7, <3>8
  <2>8. CASE CrashAndRestart
    BY <2>8 DEF CrashAndRestart, TypeOK, FlushTypeOK
  <2> QED
    BY <2>1, <2>3, <2>4, <2>5, <2>6, <2>7, <2>8, StepIsMild
<1> QED
  BY <1>1, <1>2

\* Some snapshot of a session holds its newest data.
HasNewest(k) == SnapsOf(k) = {} \/ \E m \in SnapsOf(k) : \A s \in SnapsOf(k) :
  snapshots[s].content <= snapshots[m].content

LEMMA HasNewestStep ==
  ASSUME Ledger, Ledger', Bounded, Bounded', [Next]_vars, NEW k \in Keys, HasNewest(k)
  PROVE  HasNewest(k)'
<1> USE DEF Ledger
<1>1. /\ Longer /\ SnapsOf(k) \subseteq SnapsSoFar /\ SnapsOf(k)' \subseteq SnapsSoFar'
      /\ SnapsSoFar' \subseteq SnapsSoFar \cup {NewSnap}
  BY HeapStep, HeapForm DEF SnapsOf, SnapsSoFar
<1>2. \A s \in SnapsSoFar : snapshots'[s] = snapshots[s] /\ snapshots[s].content \in Nat
                            /\ s \in SnapsSoFar'
  BY <1>1, ContentTyped DEF Longer, SnapsSoFar
<1>3. ASSUME NEW s \in SnapsSoFar'
      PROVE  snapshots'[s].content \in Nat
  <2>1. snapshots' \in Seq([key : Keys, generation : Nat, checked : BOOLEAN,
                          header : Metadata, content : SnapIds])
    BY DEF TypeOK, IntakeTypeOK
  <2>2. snapshots'[s] \in [key : Keys, generation : Nat, checked : BOOLEAN,
                         header : Metadata, content : SnapIds]
    BY <2>1, ElementOfSeq DEF SnapsSoFar
  <2>3. snapshots'[s].content \in SnapIds
    BY <2>2
  <2> QED
    BY <2>3, BoundsAreNat DEF SnapIds
<1>4. SnapsOf(k) \subseteq SnapsOf(k)'
  BY <1>1, <1>2 DEF SnapsOf, SnapsSoFar
<1>5. \A s \in SnapsOf(k)' : s \in SnapsOf(k) \/ s = NewSnap
  BY <1>1, <1>2 DEF SnapsOf, SnapsSoFar
<1>6. CASE SnapsOf(k)' \subseteq SnapsOf(k)
  BY <1>1, <1>2, <1>4, <1>6 DEF HasNewest
<1>7. CASE NewSnap \in SnapsOf(k)'
  <2>1. CASE SnapsOf(k) = {}
    BY <1>1, <1>3, <1>5, <1>7, <2>1 DEF HasNewest
  <2>2. ASSUME NEW m \in SnapsOf(k),
               \A s \in SnapsOf(k) : snapshots[s].content <= snapshots[m].content
        PROVE  HasNewest(k)'
    <3>1. \A s \in SnapsOf(k) : snapshots'[s].content <= snapshots'[m].content
      BY <1>1, <1>2, <2>2
    <3>2. \A s \in SnapsOf(k)' : snapshots'[s].content \in Nat
      BY <1>1, <1>3
    <3> HIDE DEF NewSnap
    <3>3. CASE snapshots'[NewSnap].content <= snapshots'[m].content
      BY <1>4, <1>5, <3>1, <3>3 DEF HasNewest
    <3>4. CASE snapshots'[m].content <= snapshots'[NewSnap].content
      BY <1>4, <1>5, <1>7, <3>1, <3>2, <3>4 DEF HasNewest
    <3> QED
      BY <1>4, <1>7, <3>2, <3>3, <3>4
  <2> QED
    BY <2>1, <2>2 DEF HasNewest
<1> QED
  BY <1>5, <1>6, <1>7

\* All there is to know of a shutdown.
Saving ==
  /\ Newness /\ (\A k \in Keys : NotLost(k))
  /\ \A k \in Keys : LastInHand(k) /\ Accounted(k) /\ Reported(k) /\ HasNewest(k)

LEMMA SavingHolds == Spec => [](Files /\ Saving)
<1>1. Init => Saving
  <2> SUFFICES ASSUME Init PROVE Saving
    OBVIOUS
  <2>1. /\ snapshots = <<>> /\ landed = {} /\ flush.pc = "open"
        /\ \A k \in Keys, d \in Drains : drains[k][d] = IdleDrain
    BY DEF Init, InitWith
  <2>2. \A k \in Keys : SnapsOf(k) = {}
    BY <2>1 DEF SnapsOf
  <2>3. \A k \in Keys, d \in Drains : drains[k][d].stage = "none"
    BY <2>1 DEF IdleDrain
  <2>4. \A k \in Keys : NotLost(k)
    BY <2>1 DEF NotLost, Unlinked, Saved
  <2>5. \A k \in Keys : LastInHand(k) /\ Accounted(k) /\ Reported(k) /\ HasNewest(k)
    BY <2>1, <2>2, <2>3 DEF LastInHand, Accounted, Reported, HasNewest
  <2> QED
    BY <2>4, <2>5, NewnessInit DEF Saving
<1>2. Files /\ Files' /\ Saving /\ [Next]_vars => Saving'
  <2> SUFFICES ASSUME Files, Files', Saving, [Next]_vars PROVE Saving'
    OBVIOUS
  <2>1. Newness /\ Newness'
    BY NewnessStep DEF Saving
  <2>2. Bounded /\ Bounded' /\ Ledger /\ Ledger'
    BY <2>1 DEF Newness, Files
  <2>3. ASSUME NEW k \in Keys
        PROVE  (NotLost(k) /\ LastInHand(k) /\ Accounted(k) /\ Reported(k) /\ HasNewest(k))'
    <3>1. NotLost(k) /\ LastInHand(k) /\ Accounted(k) /\ Reported(k) /\ HasNewest(k)
      BY DEF Saving
    <3>2. Filed(k) /\ Filed(k)'
      BY DEF Files
    <3>3. NotLost(k)'
      BY <2>2, <3>1, <3>2, NotLostStep
    <3>4. LastInHand(k)' /\ Accounted(k)'
      BY <2>1, <3>1, LastInHandStep, AccountedStep
    <3>5. Reported(k)' /\ HasNewest(k)'
      BY <2>1, <2>2, <3>1, ReportedStep, HasNewestStep
    <3> QED
      BY <3>3, <3>4, <3>5
  <2> QED
    BY <2>1, <2>3 DEF Saving
<1> QED
  BY <1>1, <1>2, FilesHold, PTL DEF Spec

\* A key with anything at work has it queued or a tail.
LEMMA WorkIsPending ==
  ASSUME Ledger, NEW k \in Keys, InWork(k) \/ Running(k) # {}
  PROVE  hasPendingOrTail(k)
<1> SUFFICES ASSUME queued[k] = <<>>, tails[k] = NoDrain
             PROVE  FALSE
  BY DEF hasPendingOrTail
<1>1. \A d \in Drains : drains[k][d].state = "idle"
  BY NoTailNoDrain DEF Ledger
<1> QED
  BY <1>1 DEF InWork, Running, Ledger, Custody, AtRest

\* Only the last step of flushAll resolves it.
LEMMA OnlyEndsResolves ==
  ASSUME TypeOK, [Next]_vars, flush.pc # "resolved", flush'.pc = "resolved"
  PROVE  FlushEnds
<1>1. ASSUME NEW j \in Keys, NEW d \in Drains, DrainStep(j, d)
      PROVE  flush'.pc = flush.pc
  BY <1>1 DEF DrainStep, WriteBegins, DrainEnds, TmpWritten, TargetUnlinked, Renamed,
     RenameReturns, TmpDropped, FileDiscarded, WriteFails, FailureTidied, TypeOK, FlushTypeOK
<1>2. CASE FlushAll \/ FlushRound \/ CrashAndRestart
  BY <1>2 DEF FlushAll, FlushRound, CrashAndRestart, TypeOK, FlushTypeOK
<1>3. CASE FlushDrained \/ FlushRetries
  BY <1>3 DEF FlushDrained, FlushRetries, Retry, TypeOK, FlushTypeOK
<1>4. ASSUME \/ \E j \in Keys, header \in Metadata : Enqueue(j, header) \/ EnqueueChecked(j, header)
             \/ \E j \in Keys, seen \in Metadata, header \in Metadata : AbsorbExternal(j, seen, header)
             \/ \E j \in Keys : Flush(j) \/ DeleteSession(j)
             \/ (\E s \in SnapIds : TimerFires(s)) \/ UNCHANGED vars
      PROVE  UNCHANGED flush
  BY <1>4 DEF Enqueue, EnqueueChecked, AbsorbExternal, Flush, DeleteSession, TimerFires, vars
<1> QED
  BY <1>1, <1>2, <1>3, <1>4 DEF Next, FlushStep

LEMMA EndsSaved ==
  ASSUME Files, Saving, crashedAt = 0, FlushEnds, flush'.pc = "resolved", NEW k \in Keys,
         Newest(k) > deletedAt[k], ~hasPendingOrTail(k), ~BroughtBack(k)
  PROVE  disk[k] # None /\ disk[k].content = Newest(k)
<1> USE DEF Files, Ledger
<1>1. ~InWork(k) /\ Running(k) = {} /\ queued[k] = <<>>
  BY WorkIsPending DEF InWork
<1>2. flush.pc = "retrying" /\ flush.retries = {} /\ closingWriteFailures = {}
  <2>1. flush.pc = "retrying" /\ flush.retries = {}
    BY DEF FlushEnds
  <2>2. flush'.pc = IF (~flush.quiescent /\ Busy # {}) \/ closingWriteFailures # {}
                    THEN "threw" ELSE "resolved"
    BY DEF FlushEnds, TypeOK, FlushTypeOK
  <2> QED
    BY <2>1, <2>2
<1>3. failedSnapshots[k] = NoSnap
  BY <1>1, <1>2 DEF Saving, Reported
<1>4. \A s \in SnapsOf(k) : /\ s \in SnapsSoFar /\ s \in Nat
                            /\ snapshots[s].content \in Nat /\ snapshots[s].content <= s
  BY ContentTyped DEF SnapsOf, SnapsSoFar, Saving, Newness
<1>5. deletedAt[k] \in Nat
  BY LandedTyped
<1>6. PICK m \in SnapsOf(k) :
        Newest(k) = snapshots[m].content /\ \A s \in SnapsOf(k) : snapshots[s].content <= snapshots[m].content
  <2> DEFINE all == {0} \cup {snapshots[s].content : s \in SnapsOf(k)}
  <2>1. \A x \in all : x \in Nat
    BY <1>4
  <2>2. \E x \in all : \A y \in all : x >= y
    <3>1. CASE SnapsOf(k) = {}
      BY <3>1
    <3>2. ASSUME NEW m \in SnapsOf(k),
                 \A s \in SnapsOf(k) : snapshots[s].content <= snapshots[m].content
          PROVE  \E x \in all : \A y \in all : x >= y
      <4>1. snapshots[m].content \in all /\ \A y \in all : snapshots[m].content >= y
        BY <1>4, <3>2
      <4> QED
        BY <4>1
    <3> QED
      BY <3>1, <3>2 DEF Saving, HasNewest
  <2>3. Newest(k) \in all /\ \A y \in all : Newest(k) >= y
    BY <2>2 DEF Newest, Max
  <2>4. Newest(k) # 0
    BY <1>5, <2>1, <2>3
  <2>5. PICK m \in SnapsOf(k) : Newest(k) = snapshots[m].content
    BY <2>3, <2>4
  <2>6. \A s \in SnapsOf(k) : snapshots[s].content <= snapshots[m].content
    BY <1>4, <2>3, <2>5
  <2> QED
    BY <2>5, <2>6
<1>7. PICK t \in Landed(k) : snapshots[m].content <= snapshots[t].content
  BY <1>1, <1>3, <1>4, <1>5, <1>6 DEF Saving, Accounted
<1>8. t \in SnapsOf(k) /\ t > deletedAt[k] /\ snapshots[t].content = Newest(k)
  <2>1. t \in SnapsOf(k)
    BY DEF Landed
  <2>2. PICK a \in Nat : a = snapshots[t].content /\ a = snapshots[m].content /\ a <= t /\ t \in Nat
    BY <1>4, <1>6, <1>7, <2>1
  <2>3. a > deletedAt[k]
    BY <1>6, <2>2
  <2> QED
    BY <1>5, <1>6, <2>1, <2>2, <2>3
<1>9. disk[k] # None
  <2> SUFFICES ASSUME disk[k] = None
               PROVE  FALSE
    OBVIOUS
  <2>1. Saved(k)
    BY <1>8 DEF Saved, Landed
  <2>2. Carried(k)
    BY <2>1 DEF Saving, NotLost, Unlinked
  <2> QED
    BY <1>1, <1>3, <2>2 DEF Carried
<1>10. PICK l \in Landed(k) : disk[k].content = snapshots[l].content /\ l \in SnapsOf(k)
  BY <1>7, <1>9 DEF Saving, Newness, HasLast, Filed, LastOnDisk, Landed
<1>11. snapshots[t].content <= disk[k].content
  BY <1>9, NewnessShows DEF Saving, NewestDataOnDisk, Landed
<1> QED
  BY <1>4, <1>6, <1>8, <1>9, <1>10, <1>11

\* A shutdown loses nothing (flushAll): when it resolves, every live session's newest
\* data is its file's, but for what a late external edit left pending or brought
\* back.  Whatever was accepted is at work, landed or retained; retained failures are
\* retried, and one that fails again, or fails while closing, makes it throw.  A crash
\* before that loses what was only queued, so it is promised of a process that lives.
THEOREM ShutdownSavesEverything == Spec /\ [](crashedAt = 0) => FlushSavedEverything
<1>1. ASSUME Files, Saving, crashedAt = 0, [Next]_vars,
             flush.pc # "resolved", flush'.pc = "resolved", NEW k \in Keys,
             Newest(k) > deletedAt[k]
      PROVE  \/ disk[k] # None /\ disk[k].content = Newest(k)
             \/ hasPendingOrTail(k)
             \/ BroughtBack(k)
  <2>1. FlushEnds
    BY <1>1, OnlyEndsResolves DEF Files, Ledger
  <2> QED
    BY <1>1, <2>1, EndsSaved
<1> DEFINE Kept == flush.pc # "resolved" /\ flush'.pc = "resolved" =>
                     \A k \in Keys : Newest(k) > deletedAt[k] =>
                       \/ disk[k] # None /\ disk[k].content = Newest(k)
                       \/ hasPendingOrTail(k)
                       \/ BroughtBack(k)
<1>2. Files /\ Saving /\ crashedAt = 0 /\ [Next]_vars => [Kept]_vars
  BY <1>1
<1> HIDE DEF Kept
<1>3. Spec /\ [](crashedAt = 0) => [][Kept]_vars
  BY <1>2, SavingHolds, PTL DEF Spec
<1> QED
  BY <1>3 DEF Kept, FlushSavedEverything
==============================================================================
