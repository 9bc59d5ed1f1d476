---------------------- MODULE SessionPersistenceQueue ----------------------
(***************************************************************************)
(* The debounced session persistence queue of                              *)
(* packages/shared/src/sessions/persistence-queue.ts: the one place that   *)
(* writes a session's session.jsonl.                                       *)
(*                                                                         *)
(* The code is single threaded and asynchronous, so an action is one run   *)
(* of JavaScript between two awaits, or the moment a file system call      *)
(* takes effect.  Everything else (a timer, an RPC, a watcher event, a     *)
(* deletion) may happen between two actions.                               *)
(*                                                                         *)
(* A snapshot (a StoredSession handed to the queue) is its position in     *)
(* `snapshots'.  Of its data the model keeps what the queue looks at, the  *)
(* metadata fields of the header, and `content': the snapshot whose data   *)
(* it is, which differs from the snapshot itself only for the retry of a   *)
(* failed write.                                                           *)
(***************************************************************************)
EXTENDS Integers, Sequences, FiniteSets, SequencesExt

CONSTANTS
  Keys,             \* SessionWriteKey: one per (workspace root, session id)
  Fields, Values,   \* the metadata fields a header carries, and their values
  None,             \* undefined
  MaxDrains,        \* bound: drains chained on one key's tail at a time
  MaxSnapshots,     \* bound: snapshots callers enqueue
  MaxFailures,      \* bound: file system calls that fail
  MaxFlushes,       \* bound: calls of flush(key)
  MaxSupersedes,    \* bound: external edits absorbed
  MaxDeletes,       \* bound: deletions
  MaxCrashes,       \* bound: process crashes
  FlushAllMaxRounds,\* FLUSH_ALL_MAX_ROUNDS
  MayFlushAll       \* whether the process shuts down at all

Metadata  == [Fields -> Values]
Drains    == 1 .. MaxDrains
NoDrain   == 0
MaxHeap   == MaxSnapshots + MaxFailures   \* a failed write may be retried once
SnapIds   == 1 .. MaxHeap
NoSnap    == 0
File      == [content : 0 .. MaxHeap, header : Metadata]   \* 0: from an earlier process

ASSUME QueueAssumption ==
  /\ None \notin Metadata
  /\ None \notin File
  /\ None \notin [seq : Nat, external : Metadata, localAt : Metadata \cup {None}]
  /\ Keys # {} /\ Fields # {} /\ Values # {}
  /\ {MaxDrains, MaxSnapshots, FlushAllMaxRounds} \subseteq Nat \ {0}
  /\ {MaxFlushes, MaxFailures, MaxSupersedes, MaxDeletes, MaxCrashes} \subseteq Nat
  /\ MayFlushAll \in BOOLEAN

VARIABLES
  snapshots,         \* every snapshot ever accepted, oldest first
  queued,            \* key -> its queued snapshots, oldest first
  armed,             \* snapshots whose debounce timer is set
  generations,       \* key -> highest generation enqueued, 0 if none
  writtenGeneration, \* key -> highest generation attempted, 0 if none
  cancelledThrough,  \* key -> [delete |-> Nat, supersede |-> Nat]
  waiters,           \* key -> checked snapshots whose receipt is unsettled
  receipts,          \* snapshot -> what its receipt says
  lastWriteFailure,  \* keys whose last write failed
  failedSnapshots,   \* key -> the snapshot whose write failed, or NoSnap
  committedMetadata, \* key -> metadata of the header last committed, or None
  inFlightSignature, \* key -> metadata of the header being written, or None
  lastEnqueuedMetadata,    \* key -> metadata of the newest local state, or None
  pendingExternalMetadata, \* key -> the observation held, or None
  tails,             \* key -> the drain that ends its promise chain, or NoDrain
  drains,            \* key -> drain -> what the drain is doing
  closing,           \* intake is frozen
  closingWriteFailures,    \* keys whose write failed while closing
  flush,             \* where flushAll has got to
  disk, tmp, dir,    \* session.jsonl, session.jsonl.tmp, the session directory
  budget,            \* what the bounds still allow
  landed,            \* history: snapshots renamed into place
  deletedAt,         \* history: key -> snapshots that existed at its deletion
  supersededAt,      \* history: key -> snapshots that existed at its last supersede
  leftover,          \* history: key -> what a failed directory removal left behind
  crashedAt          \* history: snapshots that existed at the last crash

queueVars == <<snapshots, queued, armed, generations, lastEnqueuedMetadata>>
receiptVars == <<waiters, receipts>>
outcomeVars == <<writtenGeneration, lastWriteFailure, failedSnapshots, closingWriteFailures>>
baselineVars == <<committedMetadata, inFlightSignature, pendingExternalMetadata>>
fileVars == <<disk, tmp, dir>>
historyVars == <<landed, deletedAt, supersededAt, leftover, crashedAt>>
vars == <<queueVars, receiptVars, outcomeVars, baselineVars, cancelledThrough, tails,
          drains, closing, flush, fileVars, budget, historyVars>>

----------------------------------------------------------------------------
(* Helpers. *)

Generation(s) == snapshots[s].generation

\* cancelledThroughGeneration(...) >= generation, and discardCommitted.
Cancelled(k, g) == g <= cancelledThrough[k].delete \/ g <= cancelledThrough[k].supersede
Discards(k, g) == g <= cancelledThrough[k].delete

\* abandonIfCancelled's conditions.  Between unlink(target) and rename only a
\* deletion stops a write: a supersede would leave the session with no file.
AbandonsAtAnyStage(k, g, stage) == Cancelled(k, g)   \* seeded fault: no exception
Abandons(k, g, stage) == Cancelled(k, g) /\ (stage = "target-removed" => Discards(k, g))
CancellationReason(k, g) == IF Discards(k, g) THEN "deleted" ELSE "superseded"

\* A drain of one key's queue.  `state' and `after' are its place on the
\* promise chain; the rest describes the write it is in the middle of.
IdleDrain == [state |-> "idle", after |-> NoDrain, remaining |-> 0, stage |-> "none",
              snap |-> NoSnap, header |-> None, observed |-> 0, discard |-> FALSE,
              reason |-> "none"]
Stages == {"none", "writing", "unlinking", "renaming", "renamed", "abandoning",
           "discarding", "tidying"}
Active(k) == {d \in Drains : drains[k][d].state # "idle"}
Running(k) == {d \in Drains : drains[k][d].state = "running"}
HasFreeDrain(k) == Active(k) # Drains
NewDrain(k) == CHOOSE d \in Drains : d \notin Active(k)

hasPendingOrTail(k) == queued[k] # <<>> \/ tails[k] # NoDrain
getLastWrittenSignature(k) ==
  IF inFlightSignature[k] # None THEN inFlightSignature[k] ELSE committedMetadata[k]

\* Seeded fault: an observed edit is not remembered against a stale write.
ResolveUnobserved(local, onDisk, seen, lastWritten) ==
  [f \in Fields |-> IF onDisk # None /\ onDisk[f] # lastWritten[f] THEN onDisk[f] ELSE local[f]]

\* resolveExternalMetadata: per field, the app if it moved the field since the
\* observation, else the disk if it moved the field since our last commit, else
\* the observation, else local.  `onDisk' is None unless the disk has diverged
\* from a baseline (so the code's fallback for a missing baseline never applies).
Resolve(local, onDisk, seen, lastWritten) ==
  LET AppMoved(f) == seen # None /\ seen.localAt # None /\ local[f] # seen.localAt[f]
      DiskMoved(f) == onDisk # None /\ onDisk[f] # lastWritten[f]
  IN  [f \in Fields |-> IF AppMoved(f) THEN local[f]
                        ELSE IF DiskMoved(f) THEN onDisk[f]
                        ELSE IF seen # None THEN seen.external[f]
                        ELSE local[f]]

----------------------------------------------------------------------------
(* Building blocks the operations share. *)

\* A quiet queue over these session files, the last headers it wrote in `written'.
InitWith(files, written) ==
  /\ snapshots = <<>>
  /\ queued = [k \in Keys |-> <<>>]
  /\ armed = {}
  /\ generations = [k \in Keys |-> 0]
  /\ writtenGeneration = [k \in Keys |-> 0]
  /\ cancelledThrough = [k \in Keys |-> [delete |-> 0, supersede |-> 0]]
  /\ waiters = [k \in Keys |-> {}]
  /\ receipts = [s \in SnapIds |-> "none"]
  /\ lastWriteFailure = {}
  /\ failedSnapshots = [k \in Keys |-> NoSnap]
  /\ committedMetadata = written
  /\ inFlightSignature = [k \in Keys |-> None]
  /\ lastEnqueuedMetadata = [k \in Keys |-> None]
  /\ pendingExternalMetadata = [k \in Keys |-> None]
  /\ tails = [k \in Keys |-> NoDrain]
  /\ drains = [k \in Keys |-> [d \in Drains |-> IdleDrain]]
  /\ closing = FALSE
  /\ closingWriteFailures = {}
  /\ flush = [pc |-> "open", round |-> 0, awaited |-> {}, retries |-> {},
              retrying |-> NoSnap, quiescent |-> FALSE]
  /\ disk = files
  /\ tmp = [k \in Keys |-> None]
  /\ dir = [k \in Keys |-> files[k] # None]
  /\ budget = [flushes |-> MaxFlushes, failures |-> MaxFailures, supersedes |-> MaxSupersedes,
               deletes |-> MaxDeletes, crashes |-> MaxCrashes]
  /\ landed = {}
  /\ deletedAt = [k \in Keys |-> 0]
  /\ supersededAt = [k \in Keys |-> 0]
  /\ leftover = [k \in Keys |-> None]
  /\ crashedAt = 0

Init == InitWith([k \in Keys |-> None], [k \in Keys |-> None])

Spend(what) == budget[what] > 0 /\ budget' = [budget EXCEPT ![what] = @ - 1]

\* settleReceipts, for the snapshots S of key k.
Settle(k, S, answer) ==
  /\ receipts' = [s \in SnapIds |-> IF s \in waiters[k] \cap S THEN answer ELSE receipts[s]]
  /\ waiters' = [waiters EXCEPT ![k] = @ \ S]

\* runOnTail for every key of S: one more drain, behind the current tail.
UnchainedDrain(k) == [IdleDrain EXCEPT !.state = "waiting"]   \* seeded fault: beside it
ChainedDrain(k) == [IdleDrain EXCEPT !.state = "waiting", !.after = tails[k]]

RunOnTail(S) ==
  /\ \A k \in S : HasFreeDrain(k)
  /\ drains' = [k \in Keys |-> IF k \in S
                  THEN [drains[k] EXCEPT ![NewDrain(k)] = ChainedDrain(k)]
                  ELSE drains[k]]
  /\ tails' = [k \in Keys |-> IF k \in S THEN NewDrain(k) ELSE tails[k]]

\* Seeded fault: the generations are retired without the watermarks over them.
RetireUnderWatermark(k) ==
  /\ generations' = [generations EXCEPT ![k] = 0]
  /\ writtenGeneration' = [writtenGeneration EXCEPT ![k] = 0]
  /\ lastWriteFailure' = lastWriteFailure \ {k}
  /\ lastEnqueuedMetadata' = [lastEnqueuedMetadata EXCEPT ![k] = None]
  /\ UNCHANGED cancelledThrough

\* retireIfQuiescent, given that nothing is queued and no receipt is awaited.
Retire(k) ==
  /\ generations' = [generations EXCEPT ![k] = 0]
  /\ writtenGeneration' = [writtenGeneration EXCEPT ![k] = 0]
  /\ cancelledThrough' = [cancelledThrough EXCEPT ![k] = [delete |-> 0, supersede |-> 0]]
  /\ lastWriteFailure' = lastWriteFailure \ {k}
  /\ lastEnqueuedMetadata' = [lastEnqueuedMetadata EXCEPT ![k] = None]

\* What flushAll awaits has settled: its next step is a microtask, which runs
\* before any timer or watcher event.
RetryAnswered == \A k \in Keys : flush.retrying \notin waiters[k]
FlushContinues == \/ flush.pc = "draining" /\ flush.awaited = {}
                  \/ flush.pc = "retrying" /\ RetryAnswered

\* The next snapshot's record; `content' is the snapshot whose data it is.
NewSnap == Len(snapshots) + 1
Snapshot(k, header, checked, content) ==
  [key |-> k, generation |-> generations[k] + 1, checked |-> checked,
   header |-> header, content |-> content]

\* enqueueEntry but for its timer.  An ordinary entry replaces a trailing
\* ordinary one, which nobody holds a receipt for.
ReplacesChecked(k, checked) == ~checked /\ queued[k] # <<>>   \* seeded fault
Replaces(k, checked) ==
  ~checked /\ queued[k] # <<>> /\ ~snapshots[Last(queued[k])].checked

Room == Len(snapshots) < MaxSnapshots

PutEntry(k, header, checked, content) ==
  /\ Len(snapshots) < MaxHeap
  /\ snapshots' = Append(snapshots, Snapshot(k, header, checked, content))
  /\ generations' = [generations EXCEPT ![k] = @ + 1]
  /\ queued' = [queued EXCEPT ![k] =
                  Append(IF Replaces(k, checked) THEN Front(@) ELSE @, NewSnap)]
  /\ lastEnqueuedMetadata' = [lastEnqueuedMetadata EXCEPT ![k] = header]

\* clearQueuedTimers, for every key of S.
ClearTimers(S) == armed' = armed \ UNION {ToSet(queued[k]) : k \in S}

\* receiptFor(key, generation) of an entry just put: a waiter, unless the
\* generation is already cancelled or already written.
ReceiptFor(k) ==
  LET g == generations[k] + 1
      answer == IF Cancelled(k, g) THEN CancellationReason(k, g)
                ELSE IF writtenGeneration[k] < g THEN "waiting"
                ELSE IF k \in lastWriteFailure THEN "failed" ELSE "ok"
  IN  /\ receipts' = [receipts EXCEPT ![NewSnap] = answer]
      /\ waiters' = [waiters EXCEPT ![k] = IF answer = "waiting" THEN @ \cup {NewSnap} ELSE @]

\* A checked entry put, its receipt asked for and its tail driven at once, as
\* every caller that wants a receipt does: nothing queued keeps a timer.
EnqueueAndDrive(k, header, content) ==
  /\ PutEntry(k, header, TRUE, content)
  /\ ReceiptFor(k)
  /\ ClearTimers({k})
  /\ RunOnTail({k})

----------------------------------------------------------------------------
(* The operations callers have. *)

\* enqueue: what persistSession does on every change of a session.
Enqueue(k, header) ==
  /\ ~closing /\ Room
  /\ PutEntry(k, header, FALSE, NewSnap)
  /\ armed' = (IF Replaces(k, FALSE) THEN armed \ {Last(queued[k])} ELSE armed) \cup {NewSnap}
  /\ UNCHANGED <<receiptVars, outcomeVars, baselineVars, cancelledThrough, tails, drains,
                 closing, flush, fileVars, budget, historyVars>>

\* enqueueChecked and driveChecked: saveSession and persistSessionChecked.  A
\* closing queue refuses it and nothing changes.
EnqueueChecked(k, header) ==
  /\ ~closing /\ Room
  /\ EnqueueAndDrive(k, header, NewSnap)
  /\ UNCHANGED <<outcomeVars, baselineVars, cancelledThrough, closing, flush, fileVars,
                 budget, historyVars>>

\* flush(key).
Flush(k) ==
  /\ hasPendingOrTail(k)
  /\ ClearTimers({k})
  /\ RunOnTail({k})
  /\ Spend("flushes")
  /\ UNCHANGED <<snapshots, queued, generations, lastEnqueuedMetadata, receiptVars,
                 outcomeVars, baselineVars, cancelledThrough, closing, flush, fileVars,
                 historyVars>>

\* A debounce timer fires, for an entry still queued or for one a drain already took.
TimerFires(s) ==
  /\ s \in armed /\ ~FlushContinues
  /\ armed' = armed \ {s}
  /\ RunOnTail({snapshots[s].key})
  /\ UNCHANGED <<snapshots, queued, generations, lastEnqueuedMetadata, receiptVars,
                 outcomeVars, baselineVars, cancelledThrough, closing, flush, fileVars,
                 budget, historyVars>>

\* Seeded fault: the receipts of cancelled writes are left to the writes.
StopWithoutAnswer(k, intent, answer) ==
  /\ cancelledThrough' = [cancelledThrough EXCEPT ![k][intent] = Max({@, generations[k]})]
  /\ UNCHANGED receiptVars

\* stopPendingWrites: drop what is queued, raise one watermark over every
\* generation so far, and answer every receipt.
StopPendingWrites(k, intent, answer) ==
  /\ cancelledThrough' = [cancelledThrough EXCEPT ![k][intent] = Max({@, generations[k]})]
  /\ Settle(k, waiters[k], answer)

\* supersedePendingWrites(key, seen) followed by enqueueReconciliation: how
\* applyExternalSessionMetadata absorbs an external edit.  Accepted while closing.
AbsorbExternal(k, seen, header) ==
  /\ ~FlushContinues /\ Room
  /\ Spend("supersedes")
  /\ StopPendingWrites(k, "supersede", "superseded")
  /\ pendingExternalMetadata' = [pendingExternalMetadata EXCEPT ![k] =
       [seq |-> NewSnap, external |-> seen,
        localAt |-> IF lastEnqueuedMetadata[k] # None THEN lastEnqueuedMetadata[k]
                                                      ELSE committedMetadata[k]]]
  /\ snapshots' = Append(snapshots, Snapshot(k, header, FALSE, NewSnap))
  /\ generations' = [generations EXCEPT ![k] = @ + 1]
  /\ queued' = [queued EXCEPT ![k] = <<NewSnap>>]
  /\ armed' = (armed \ ToSet(queued[k])) \cup {NewSnap}
  /\ lastEnqueuedMetadata' = [lastEnqueuedMetadata EXCEPT ![k] = header]
  /\ supersededAt' = [supersededAt EXCEPT ![k] = Len(snapshots)]
  /\ UNCHANGED <<outcomeVars, committedMetadata, inFlightSignature, tails, drains, closing,
                 flush, fileVars, landed, deletedAt, leftover, crashedAt>>

\* cancelForDeletion and, in the same run, the removal of the session directory
\* by deleteStoredSession, which may fail and leave everything in place.
RemoveDirectory(k) ==
  \/ /\ disk' = [disk EXCEPT ![k] = None]
     /\ tmp' = [tmp EXCEPT ![k] = None]
     /\ dir' = [dir EXCEPT ![k] = FALSE]
     /\ leftover' = [leftover EXCEPT ![k] = None]
     /\ Spend("deletes")
  \/ /\ budget.failures > 0
     /\ budget.deletes > 0
     /\ budget' = [budget EXCEPT !.failures = @ - 1, !.deletes = @ - 1]
     /\ leftover' = [leftover EXCEPT ![k] = disk[k]]
     /\ UNCHANGED fileVars

DeleteSession(k) ==
  /\ \E s \in 1 .. Len(snapshots) : snapshots[s].key = k /\ s > deletedAt[k]
  /\ queued' = [queued EXCEPT ![k] = <<>>]
  /\ ClearTimers({k})
  /\ committedMetadata' = [committedMetadata EXCEPT ![k] = None]
  /\ inFlightSignature' = [inFlightSignature EXCEPT ![k] = None]
  /\ pendingExternalMetadata' = [pendingExternalMetadata EXCEPT ![k] = None]
  /\ failedSnapshots' = [failedSnapshots EXCEPT ![k] = NoSnap]
  /\ closingWriteFailures' = closingWriteFailures \ {k}
  /\ IF tails[k] = NoDrain
     THEN Settle(k, waiters[k], "deleted") /\ Retire(k)
     ELSE /\ StopPendingWrites(k, "delete", "deleted")
          /\ lastEnqueuedMetadata' = [lastEnqueuedMetadata EXCEPT ![k] = None]
          /\ lastWriteFailure' = lastWriteFailure \ {k}
          /\ UNCHANGED <<generations, writtenGeneration>>
  /\ RemoveDirectory(k)
  /\ deletedAt' = [deletedAt EXCEPT ![k] = Len(snapshots)]
  /\ UNCHANGED <<snapshots, tails, drains, closing, flush, landed, supersededAt, crashedAt>>

----------------------------------------------------------------------------
(* A drain of one key's queue, and the write it is doing. *)

SetDrain(k, d, r) == drains' = [drains EXCEPT ![k][d] = r]
AtStage(k, d, stage) == drains[k][d].state = "running" /\ drains[k][d].stage = stage

\* Seeded faults: the loop counts a write twice; a write answers every receipt.
BackToLoopTwice(r) == [IdleDrain EXCEPT !.state = "running", !.remaining = r.remaining - 1]
EndWriteForAll(k, d, answer) ==
  /\ SetDrain(k, d, [IdleDrain EXCEPT !.state = "running", !.remaining = drains[k][d].remaining])
  /\ writtenGeneration' = [writtenGeneration EXCEPT
       ![k] = Max({@, Generation(drains[k][d].snap)})]
  /\ Settle(k, waiters[k], answer)

\* A write ends: the drain goes back to its loop, its receipt is settled.
BackToLoop(r) == [IdleDrain EXCEPT !.state = "running", !.remaining = r.remaining]
EndWrite(k, d, answer) ==
  LET s == drains[k][d].snap
  IN  /\ SetDrain(k, d, BackToLoop(drains[k][d]))
      /\ writtenGeneration' = [writtenGeneration EXCEPT ![k] = Max({@, Generation(s)})]
      /\ Settle(k, {s}, answer)

\* drainQueued's loop: entered once the previous drain has settled, and bounded
\* by what is queued at that moment.
AtLoop(k, d) == (drains[k][d].state = "waiting" /\ drains[k][d].after = NoDrain)
                \/ AtStage(k, d, "none")
OneWriteLeft(k, d) == IF drains[k][d].state = "waiting" THEN 1   \* seeded fault
                                                        ELSE drains[k][d].remaining
WritesLeft(k, d) == IF drains[k][d].state = "waiting" THEN Len(queued[k])
                                                      ELSE drains[k][d].remaining

\* write(key) up to its first await: take the oldest entry, decide its header
\* against the header on disk, and publish the signature in flight.
StartWrite(k, d, s) ==
  LET onDisk == IF disk[k] # None /\ committedMetadata[k] # None
                   /\ disk[k].header # committedMetadata[k]
                THEN disk[k].header ELSE None
      seen == pendingExternalMetadata[k]
      header == Resolve(snapshots[s].header, onDisk, seen, committedMetadata[k])
  IN  /\ SetDrain(k, d, [drains[k][d] EXCEPT !.state = "running", !.stage = "writing",
                            !.remaining = WritesLeft(k, d) - 1, !.snap = s, !.header = header,
                            !.observed = IF seen = None THEN 0 ELSE seen.seq])
      /\ inFlightSignature' = [inFlightSignature EXCEPT ![k] = header]
      /\ dir' = [dir EXCEPT ![k] = TRUE]
      /\ UNCHANGED <<writtenGeneration, receiptVars>>

\* ... or skip it, cancelled between enqueue and execution.
SkipWrite(k, d, s) ==
  /\ SetDrain(k, d, [drains[k][d] EXCEPT !.state = "running",
                                         !.remaining = WritesLeft(k, d) - 1])
  /\ writtenGeneration' = [writtenGeneration EXCEPT ![k] = Max({@, Generation(s)})]
  /\ Settle(k, {s}, CancellationReason(k, Generation(s)))
  /\ UNCHANGED <<inFlightSignature, dir>>

WriteBegins(k, d) ==
  /\ AtLoop(k, d) /\ WritesLeft(k, d) > 0 /\ queued[k] # <<>>
  /\ queued' = [queued EXCEPT ![k] = Tail(@)]
  /\ LET s == Head(queued[k])
     IN  IF Cancelled(k, Generation(s)) THEN SkipWrite(k, d, s) ELSE StartWrite(k, d, s)
  /\ UNCHANGED <<snapshots, armed, generations, lastEnqueuedMetadata, lastWriteFailure,
                 failedSnapshots, closingWriteFailures, committedMetadata,
                 pendingExternalMetadata, cancelledThrough, tails, closing, flush,
                 disk, tmp, budget, historyVars>>

\* Seeded fault: a deletion leaves the file a write has just committed.
AbandonKeepingFile(k, d, committed) ==
  SetDrain(k, d, [drains[k][d] EXCEPT !.stage = "abandoning",
                     !.reason = CancellationReason(k, Generation(drains[k][d].snap))])

\* abandonIfCancelled, up to its await.  The intent is read here, before the
\* awaits that act on it; only after the rename does a deletion own the file.
Abandon(k, d, committed) ==
  LET g == Generation(drains[k][d].snap)
  IN  SetDrain(k, d, [drains[k][d] EXCEPT !.stage = "abandoning",
                         !.discard = committed /\ Discards(k, g),
                         !.reason = CancellationReason(k, g)])

\* writeFile(tmp) resolves; a cancelled write stops with the file intact.
TmpWritten(k, d) ==
  LET w == drains[k][d]
  IN  /\ AtStage(k, d, "writing") /\ dir[k]
      /\ tmp' = [tmp EXCEPT ![k] = [content |-> snapshots[w.snap].content, header |-> w.header]]
      /\ IF Abandons(k, Generation(w.snap), "intact")
         THEN Abandon(k, d, FALSE)
         ELSE SetDrain(k, d, [w EXCEPT !.stage = "unlinking"])
      /\ UNCHANGED <<queueVars, receiptVars, outcomeVars, baselineVars, cancelledThrough,
                     tails, closing, flush, disk, dir, budget, historyVars>>

\* unlink(target) resolves, its errors ignored.
TargetUnlinked(k, d) ==
  LET w == drains[k][d]
  IN  /\ AtStage(k, d, "unlinking")
      /\ \/ disk' = [disk EXCEPT ![k] = None] /\ UNCHANGED budget
         \/ disk[k] # None /\ Spend("failures") /\ UNCHANGED disk
      /\ IF Abandons(k, Generation(w.snap), "target-removed")
         THEN Abandon(k, d, FALSE)
         ELSE SetDrain(k, d, [w EXCEPT !.stage = "renaming"])
      /\ UNCHANGED <<queueVars, receiptVars, outcomeVars, baselineVars, cancelledThrough,
                     tails, closing, flush, tmp, dir, historyVars>>

\* rename(tmp, target) takes effect; the code learns of it later.
Renamed(k, d) ==
  /\ AtStage(k, d, "renaming") /\ tmp[k] # None
  /\ disk' = [disk EXCEPT ![k] = tmp[k]]
  /\ tmp' = [tmp EXCEPT ![k] = None]
  /\ landed' = landed \cup {drains[k][d].snap}
  /\ SetDrain(k, d, [drains[k][d] EXCEPT !.stage = "renamed"])
  /\ UNCHANGED <<queueVars, receiptVars, outcomeVars, baselineVars, cancelledThrough, tails,
                 closing, flush, dir, budget, deletedAt, supersededAt, leftover, crashedAt>>

\* Seeded faults: an observation is never discharged; an overtaken failure is kept.
CommitUndischarged(k, d) ==
  /\ EndWrite(k, d, "ok")
  /\ lastWriteFailure' = lastWriteFailure \ {k}
  /\ closingWriteFailures' = closingWriteFailures \ {k}
  /\ failedSnapshots' = [failedSnapshots EXCEPT ![k] = NoSnap]
  /\ UNCHANGED pendingExternalMetadata
CommitKeepingFailure(k, d) ==
  /\ EndWrite(k, d, "ok")
  /\ pendingExternalMetadata' = [pendingExternalMetadata EXCEPT ![k] =
       IF @ # None /\ @.seq = drains[k][d].observed THEN None ELSE @]
  /\ lastWriteFailure' = lastWriteFailure \ {k}
  /\ closingWriteFailures' = closingWriteFailures \ {k}
  /\ UNCHANGED failedSnapshots

\* The code after the rename: promote the baseline, then commit ...
Commit(k, d) ==
  /\ EndWrite(k, d, "ok")
  /\ pendingExternalMetadata' = [pendingExternalMetadata EXCEPT ![k] =
       IF @ # None /\ @.seq = drains[k][d].observed THEN None ELSE @]
  /\ lastWriteFailure' = lastWriteFailure \ {k}
  /\ closingWriteFailures' = closingWriteFailures \ {k}
  /\ failedSnapshots' = [failedSnapshots EXCEPT ![k] = NoSnap]

\* ... or, if the write has been cancelled, abandon it.
RenameReturns(k, d) ==
  /\ AtStage(k, d, "renamed")
  /\ committedMetadata' = [committedMetadata EXCEPT ![k] = drains[k][d].header]
  /\ inFlightSignature' = [inFlightSignature EXCEPT ![k] = None]
  /\ IF Abandons(k, Generation(drains[k][d].snap), "committed")
     THEN Abandon(k, d, TRUE) /\ UNCHANGED <<receiptVars, outcomeVars, pendingExternalMetadata>>
     ELSE Commit(k, d)
  /\ UNCHANGED <<queueVars, cancelledThrough, tails, closing, flush, fileVars, budget,
                 historyVars>>

\* abandonIfCancelled after unlink(tmp): a deletion goes on to unlink the file it
\* committed, anything else is done.
TmpDropped(k, d) ==
  LET w == drains[k][d]
  IN  /\ AtStage(k, d, "abandoning")
      /\ tmp' = [tmp EXCEPT ![k] = None]
      /\ IF w.discard
         THEN /\ SetDrain(k, d, [w EXCEPT !.stage = "discarding"])
              /\ UNCHANGED <<receiptVars, writtenGeneration, inFlightSignature>>
         ELSE /\ EndWrite(k, d, w.reason)
              /\ inFlightSignature' = [inFlightSignature EXCEPT ![k] = None]
      /\ UNCHANGED <<queueVars, lastWriteFailure, failedSnapshots, closingWriteFailures,
                     committedMetadata, pendingExternalMetadata, cancelledThrough, tails,
                     closing, flush, disk, dir, budget, historyVars>>

FileDiscarded(k, d) ==
  /\ AtStage(k, d, "discarding")
  /\ disk' = [disk EXCEPT ![k] = None]
  /\ EndWrite(k, d, drains[k][d].reason)
  /\ inFlightSignature' = [inFlightSignature EXCEPT ![k] = None]
  /\ committedMetadata' = [committedMetadata EXCEPT ![k] = None]
  /\ UNCHANGED <<queueVars, lastWriteFailure, failedSnapshots, closingWriteFailures,
                 pendingExternalMetadata, cancelledThrough, tails, closing, flush, tmp, dir,
                 budget, historyVars>>

\* The catch: cancellation outranks failure, and a genuine failure keeps its
\* bytes as evidence.
RetainFailure(k, d) ==
  /\ EndWrite(k, d, "failed")
  /\ inFlightSignature' = [inFlightSignature EXCEPT ![k] = None]
  /\ lastWriteFailure' = lastWriteFailure \cup {k}
  /\ closingWriteFailures' = IF closing THEN closingWriteFailures \cup {k}
                                        ELSE closingWriteFailures
  /\ failedSnapshots' = [failedSnapshots EXCEPT ![k] = drains[k][d].snap]

WriteFails(k, d) ==
  LET g == Generation(drains[k][d].snap)
  IN  /\ \/ AtStage(k, d, "writing")
         \/ AtStage(k, d, "renaming")
      /\ \/ Spend("failures")
         \/ /\ ~dir[k] \/ (AtStage(k, d, "renaming") /\ tmp[k] = None)
            /\ UNCHANGED budget           \* the directory went with its session
      /\ IF Cancelled(k, g)
         THEN /\ SetDrain(k, d, [drains[k][d] EXCEPT !.stage = "tidying",
                                    !.reason = CancellationReason(k, g)])
              /\ UNCHANGED <<receiptVars, outcomeVars, inFlightSignature>>
         ELSE RetainFailure(k, d)
      /\ UNCHANGED <<queueVars, committedMetadata, pendingExternalMetadata, cancelledThrough,
                     tails, closing, flush, fileVars, historyVars>>

\* The catch of a cancelled write, after its unlink(tmp).
FailureTidied(k, d) ==
  /\ AtStage(k, d, "tidying")
  /\ tmp' = [tmp EXCEPT ![k] = None]
  /\ EndWrite(k, d, drains[k][d].reason)
  /\ inFlightSignature' = [inFlightSignature EXCEPT ![k] = None]
  /\ failedSnapshots' = [failedSnapshots EXCEPT ![k] = NoSnap]
  /\ closingWriteFailures' = closingWriteFailures \ {k}
  /\ lastWriteFailure' = lastWriteFailure \ {k}
  /\ UNCHANGED <<queueVars, committedMetadata, pendingExternalMetadata, cancelledThrough,
                 tails, closing, flush, disk, dir, budget, historyVars>>

\* A drain settles: its successor may begin, whoever awaits it is released, and
\* if it still owns the tail the key's bookkeeping may retire.
ReleaseNobody(k, d) == drains' = [drains EXCEPT ![k][d] = IdleDrain]   \* seeded fault
ReleaseSuccessor(k, d) ==
  drains' = [drains EXCEPT ![k] =
    [e \in Drains |-> IF e = d THEN IdleDrain
                      ELSE IF @[e].after = d THEN [@[e] EXCEPT !.after = NoDrain]
                      ELSE @[e]]]

DrainEnds(k, d) ==
  /\ AtLoop(k, d) /\ (WritesLeft(k, d) = 0 \/ queued[k] = <<>>)
  /\ ReleaseSuccessor(k, d)
  /\ flush' = [flush EXCEPT !.awaited = @ \ {<<k, d>>}]
  /\ tails' = [tails EXCEPT ![k] = IF @ = d THEN NoDrain ELSE @]
  /\ IF tails[k] = d /\ queued[k] = <<>> /\ waiters[k] = {} /\ failedSnapshots[k] = NoSnap
     THEN Retire(k)
     ELSE UNCHANGED <<generations, writtenGeneration, cancelledThrough, lastWriteFailure,
                      lastEnqueuedMetadata>>
  /\ UNCHANGED <<snapshots, queued, armed, receiptVars, failedSnapshots, closingWriteFailures,
                 baselineVars, closing, fileVars, budget, historyVars>>

DrainStep(k, d) ==
  \/ WriteBegins(k, d) \/ DrainEnds(k, d)
  \/ TmpWritten(k, d) \/ TargetUnlinked(k, d) \/ Renamed(k, d) \/ RenameReturns(k, d)
  \/ TmpDropped(k, d) \/ FileDiscarded(k, d) \/ WriteFails(k, d) \/ FailureTidied(k, d)

----------------------------------------------------------------------------
(* Shutdown: flushAll. *)

Busy == {k \in Keys : hasPendingOrTail(k)}

FlushAll ==
  /\ MayFlushAll /\ flush.pc = "open"
  /\ closing' = TRUE
  /\ flush' = [flush EXCEPT !.pc = "draining"]
  /\ UNCHANGED <<queueVars, receiptVars, outcomeVars, baselineVars, cancelledThrough, tails,
                 drains, fileVars, budget, historyVars>>

\* One round: flush every key with something queued or in flight, together.
FlushRound ==
  /\ flush.pc = "draining" /\ flush.awaited = {}
  /\ flush.round < FlushAllMaxRounds /\ Busy # {}
  /\ ClearTimers(Busy)
  /\ RunOnTail(Busy)
  /\ flush' = [flush EXCEPT !.round = @ + 1, !.awaited = {<<k, NewDrain(k)>> : k \in Busy}]
  /\ UNCHANGED <<snapshots, queued, generations, lastEnqueuedMetadata, receiptVars,
                 outcomeVars, baselineVars, cancelledThrough, closing, fileVars, budget,
                 historyVars>>

NothingRetained == {}   \* seeded fault: failures are reported, never retried
Retained == {<<k, failedSnapshots[k]>> : k \in {j \in Keys : failedSnapshots[j] # NoSnap}}

\* retryRetainedFailures writes the failures of its copy again one by one, each
\* awaited.  (It walks the map in insertion order; the model allows any order.)
Retry(failures, quiescent) ==
  \E failure \in failures :
    /\ EnqueueAndDrive(failure[1], snapshots[failure[2]].header, snapshots[failure[2]].content)
    /\ flush' = [flush EXCEPT !.pc = "retrying", !.quiescent = quiescent,
                    !.retries = failures \ {failure}, !.retrying = NewSnap]

\* The rounds are over: copy the failed snapshots and start on the first.
FlushDrained ==
  /\ flush.pc = "draining" /\ flush.awaited = {}
  /\ Busy = {} \/ flush.round = FlushAllMaxRounds
  /\ LET quiescent == Busy = {} /\ flush.round < FlushAllMaxRounds
     IN  \/ Retry(Retained, quiescent)
         \/ /\ Retained = {}
            /\ flush' = [flush EXCEPT !.pc = "retrying", !.quiescent = quiescent]
            /\ UNCHANGED <<queueVars, receiptVars, tails, drains>>
  /\ UNCHANGED <<outcomeVars, baselineVars, cancelledThrough, closing, fileVars, budget,
                 historyVars>>

FlushRetries ==
  /\ flush.pc = "retrying" /\ RetryAnswered
  /\ Retry(flush.retries, flush.quiescent)
  /\ UNCHANGED <<outcomeVars, baselineVars, cancelledThrough, closing, fileVars, budget,
                 historyVars>>

FlushEnds ==
  /\ flush.pc = "retrying" /\ RetryAnswered /\ flush.retries = {}
  /\ flush' = [flush EXCEPT !.retrying = NoSnap,
                  !.pc = IF (~flush.quiescent /\ Busy # {}) \/ closingWriteFailures # {}
                         THEN "threw" ELSE "resolved"]
  /\ closingWriteFailures' = {}
  /\ UNCHANGED <<queueVars, receiptVars, writtenGeneration, lastWriteFailure, failedSnapshots,
                 baselineVars, cancelledThrough, tails, drains, closing, fileVars, budget,
                 historyVars>>

FlushStep == FlushRound \/ FlushDrained \/ FlushRetries \/ FlushEnds

----------------------------------------------------------------------------
(* A crash. *)

\* The process dies at any point and starts again: memory is gone, and startup's
\* listSessions removes the .tmp files it finds.
CrashAndRestart ==
  /\ Spend("crashes")
  /\ queued' = [k \in Keys |-> <<>>]
  /\ armed' = {}
  /\ generations' = [k \in Keys |-> 0]
  /\ writtenGeneration' = [k \in Keys |-> 0]
  /\ cancelledThrough' = [k \in Keys |-> [delete |-> 0, supersede |-> 0]]
  /\ waiters' = [k \in Keys |-> {}]
  /\ receipts' = [s \in SnapIds |-> IF receipts[s] = "waiting" THEN "none" ELSE receipts[s]]
  /\ lastWriteFailure' = {}
  /\ failedSnapshots' = [k \in Keys |-> NoSnap]
  /\ committedMetadata' = [k \in Keys |-> None]
  /\ inFlightSignature' = [k \in Keys |-> None]
  /\ lastEnqueuedMetadata' = [k \in Keys |-> None]
  /\ pendingExternalMetadata' = [k \in Keys |-> None]
  /\ tails' = [k \in Keys |-> NoDrain]
  /\ drains' = [k \in Keys |-> [d \in Drains |-> IdleDrain]]
  /\ closing' = FALSE
  /\ closingWriteFailures' = {}
  /\ flush' = [flush EXCEPT !.pc = "open", !.round = 0, !.awaited = {}, !.retries = {},
                            !.retrying = NoSnap, !.quiescent = FALSE]
  /\ tmp' = [k \in Keys |-> None]
  /\ crashedAt' = Len(snapshots)
  /\ UNCHANGED <<snapshots, disk, dir, landed, deletedAt, supersededAt, leftover>>

Next ==
  \/ \E k \in Keys, header \in Metadata : Enqueue(k, header)
  \/ \E k \in Keys, header \in Metadata : EnqueueChecked(k, header)
  \/ \E k \in Keys : Flush(k)
  \/ \E s \in SnapIds : TimerFires(s)
  \/ \E k \in Keys, seen, header \in Metadata : AbsorbExternal(k, seen, header)
  \/ \E k \in Keys : DeleteSession(k)
  \/ \E k \in Keys, d \in Drains : DrainStep(k, d)
  \/ FlushAll
  \/ FlushStep
  \/ CrashAndRestart

Spec == Init /\ [][Next]_vars

\* Timers fire, file system calls return, microtasks run.
Fairness ==
  /\ \A s \in SnapIds : WF_vars(TimerFires(s))
  /\ \A k \in Keys, d \in Drains : WF_vars(DrainStep(k, d))
  /\ WF_vars(FlushStep)

FairSpec == Spec /\ Fairness

----------------------------------------------------------------------------
(* What the queue promises. *)

SnapsSoFar == 1 .. Len(snapshots)

IntakeTypeOK ==
  /\ snapshots \in Seq([key : Keys, generation : Nat, checked : BOOLEAN,
                        header : Metadata, content : SnapIds])
  /\ Len(snapshots) <= MaxHeap
  /\ queued \in [Keys -> Seq(SnapsSoFar)]
  /\ armed \subseteq SnapsSoFar
  /\ generations \in [Keys -> Nat]
  /\ cancelledThrough \in [Keys -> [delete : Nat, supersede : Nat]]
  /\ lastEnqueuedMetadata \in [Keys -> Metadata \cup {None}]

OutcomeTypeOK ==
  /\ waiters \in [Keys -> SUBSET SnapsSoFar]
  /\ receipts \in [SnapIds -> {"none", "waiting", "ok", "failed", "superseded", "deleted"}]
  /\ writtenGeneration \in [Keys -> Nat]
  /\ lastWriteFailure \subseteq Keys /\ closingWriteFailures \subseteq Keys
  /\ failedSnapshots \in [Keys -> {NoSnap} \cup SnapsSoFar]

BaselineTypeOK ==
  /\ committedMetadata \in [Keys -> Metadata \cup {None}]
  /\ inFlightSignature \in [Keys -> Metadata \cup {None}]
  /\ pendingExternalMetadata \in
       [Keys -> [seq : SnapIds, external : Metadata, localAt : Metadata \cup {None}] \cup {None}]

DrainRecord ==
  [state : {"idle", "waiting", "running"}, after : Drains \cup {NoDrain},
   remaining : Nat, stage : Stages, snap : {NoSnap} \cup SnapsSoFar,
   header : Metadata \cup {None}, observed : SnapIds \cup {0}, discard : BOOLEAN,
   reason : {"none", "deleted", "superseded"}]

\* Outside its loop a drain holds the snapshot it writes and the header it chose.
DrainTypeOK ==
  /\ tails \in [Keys -> Drains \cup {NoDrain}]
  /\ drains \in [Keys -> [Drains -> DrainRecord]]
  /\ \A k \in Keys, d \in Drains :
       drains[k][d].stage # "none" => drains[k][d].snap # NoSnap /\ drains[k][d].header # None

FlushTypeOK ==
  /\ closing \in BOOLEAN
  /\ flush \in [pc : {"open", "draining", "retrying", "resolved", "threw"},
                round : 0 .. FlushAllMaxRounds, awaited : SUBSET (Keys \X Drains),
                retries : SUBSET (Keys \X SnapsSoFar), retrying : {NoSnap} \cup SnapsSoFar,
                quiescent : BOOLEAN]

FileTypeOK ==
  /\ disk \in [Keys -> File \cup {None}] /\ tmp \in [Keys -> File \cup {None}]
  /\ dir \in [Keys -> BOOLEAN]
  /\ leftover \in [Keys -> File \cup {None}]

BudgetTypeOK ==
  budget \in [flushes : 0 .. MaxFlushes, failures : 0 .. MaxFailures,
              supersedes : 0 .. MaxSupersedes, deletes : 0 .. MaxDeletes,
              crashes : 0 .. MaxCrashes]

HistoryTypeOK ==
  /\ landed \subseteq SnapsSoFar
  /\ deletedAt \in [Keys -> Nat] /\ supersededAt \in [Keys -> Nat] /\ crashedAt \in Nat

TypeOK == /\ IntakeTypeOK /\ OutcomeTypeOK /\ BaselineTypeOK /\ DrainTypeOK
          /\ FlushTypeOK /\ FileTypeOK /\ BudgetTypeOK /\ HistoryTypeOK

\* I1: two writes for one session are never in flight at once, whatever mix of
\* timers, flushes and checked saves drives them, so no two write one .tmp.
OneWriterPerKey == \A k \in Keys : \A d, e \in Running(k) : d = e

\* A write enqueued after a cancellation is never cancelled by it: the watermarks
\* and the generations are retired together or not at all.
FreshWritesNotCancelled ==
  \A k \in Keys :
    /\ cancelledThrough[k].delete <= generations[k]
    /\ cancelledThrough[k].supersede <= generations[k]
    /\ \A s \in ToSet(queued[k]) : ~Cancelled(k, Generation(s))

SnapsOf(k) == {s \in 1 .. Len(snapshots) : snapshots[s].key = k}

\* I4: a receipt speaks of its own snapshot: "ok" only once those very bytes were
\* renamed into place, "superseded" and "deleted" only for what such a
\* cancellation covered, "failed" only for bytes that never landed.
ReceiptsAreHonest ==
  \A s \in 1 .. Len(snapshots) :
    /\ receipts[s] = "ok" => s \in landed
    /\ receipts[s] = "superseded" => s <= supersededAt[snapshots[s].key]
    /\ receipts[s] = "deleted" => s <= deletedAt[snapshots[s].key]
    /\ receipts[s] = "failed" => s \notin landed

\* Nobody waits on work that nothing will finish: a snapshot with an unsettled
\* receipt is queued or in the hands of a drain.
EveryReceiptHasAWriter ==
  \A k \in Keys : \A s \in waiters[k] :
    s \in ToSet(queued[k]) \/ \E d \in Running(k) : drains[k][d].snap = s

\* No queued entry is stranded: each still has its timer, or a drain that has
\* yet to begin or has that many writes to go.
NoStrandedEntry ==
  \A k \in Keys : \A i \in 1 .. Len(queued[k]) :
    \/ queued[k][i] \in armed
    \/ \E d \in Active(k) : drains[k][d].state = "waiting" \/ drains[k][d].remaining >= i

\* I2: a live session that has been saved never loses its file for good.  When the
\* file is missing, a rename is about to restore it or, after a failure, newer
\* state of it is queued, being written, or retained to be retried.
Saved(k) == \E s \in landed \cap SnapsOf(k) : s > deletedAt[k]
Carried(k) ==
  \/ queued[k] # <<>>
  \/ failedSnapshots[k] # NoSnap
  \/ \E d \in Running(k) : \/ drains[k][d].stage = "renaming"
                           \/ /\ drains[k][d].stage \in {"writing", "unlinking"}
                              /\ drains[k][d].snap > supersededAt[k]
NoFailure == budget.failures = MaxFailures
FileIsNeverLost ==
  \A k \in Keys : Saved(k) /\ disk[k] = None =>
    /\ Carried(k)
    /\ NoFailure => \E d \in Running(k) : drains[k][d].stage = "renaming"

\* A deleted session stays deleted: once the queue is quiet its file is gone, or
\* is the one a failed removal of the directory left behind.
Deleted(k) ==
  deletedAt[k] > 0 /\ \A s \in SnapsOf(k) : snapshots[s].content <= deletedAt[k]
DeletedStaysDeleted ==
  \A k \in Keys : Deleted(k) /\ ~hasPendingOrTail(k) =>
    \/ disk[k] = None
    \/ leftover[k] # None /\ disk[k].content = leftover[k].content

\* A retry of data older than an external edit absorbed since, with newer data
\* accepted before it: flushAll copies the failures before it retries them, and an
\* edit absorbed in between does not take them out of the copy (a finding).
BroughtBack(k) ==
  \E r \in landed \cap SnapsOf(k) :
    /\ snapshots[r].content <= supersededAt[k]
    /\ \E s \in SnapsOf(k) : snapshots[r].content < s /\ s < r

\* The file never goes back to data older than it has already held, by a late
\* write, a retry or a superseded one; but for such a retry.
NewestDataOnDisk ==
  \A k \in Keys : disk[k] # None /\ ~BroughtBack(k) =>
    \A s \in landed \cap SnapsOf(k) : snapshots[s].content <= disk[k].content

\* Nothing grows with the sessions ever written: a quiet session with no failure
\* to retry keeps no bookkeeping but its baseline.
BookkeepingRetires ==
  \A k \in Keys : ~hasPendingOrTail(k) /\ failedSnapshots[k] = NoSnap =>
    /\ generations[k] = 0 /\ writtenGeneration[k] = 0
    /\ cancelledThrough[k] = [delete |-> 0, supersede |-> 0]
    /\ waiters[k] = {} /\ inFlightSignature[k] = None
    /\ k \notin lastWriteFailure

\* flushAll resolves only over sessions whose newest data is on disk, or, when
\* a late external edit superseded it, on its way there (or brought back from).
Newest(k) == Max({0} \cup {snapshots[s].content : s \in SnapsOf(k)})
FlushSavedEverything ==
  [][flush.pc # "resolved" /\ flush'.pc = "resolved" =>
       \A k \in Keys : Newest(k) > deletedAt[k] =>
         \/ disk[k] # None /\ disk[k].content = Newest(k)
         \/ hasPendingOrTail(k)
         \/ BroughtBack(k)]_vars

\* Every receipt is answered, and a shutdown ends one way or the other.
EveryReceiptIsAnswered ==
  \A s \in SnapIds : receipts[s] = "waiting" ~> receipts[s] # "waiting"
FlushAllEnds ==
  flush.pc \in {"draining", "retrying"} ~> flush.pc \notin {"draining", "retrying"}

\* Every session falls quiet: the newest data accepted since the last crash is on
\* disk or retained as a failure, unless the session is deleted.
EverythingSettles ==
  \A k \in Keys : <>[](~hasPendingOrTail(k)
                       /\ (\/ Newest(k) <= Max({deletedAt[k], crashedAt})
                           \/ disk[k] # None /\ disk[k].content = Newest(k)
                           \/ failedSnapshots[k] # NoSnap))
=============================================================================
