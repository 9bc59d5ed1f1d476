------------------------ MODULE SessionMetadataSync ------------------------
(***************************************************************************)
(* How a session's metadata is kept the same in memory and on disk:        *)
(* SessionManager (packages/server-core/src/sessions/SessionManager.ts)    *)
(* mutates the ManagedSession and persists it through the queue, while the *)
(* ConfigWatcher (packages/shared/src/config/watcher.ts) reports changes   *)
(* of session.jsonl, which SessionManager either takes for the echo of its *)
(* own write, or absorbs at once, or defers until the turn ends.           *)
(*                                                                         *)
(* The queue is SessionPersistenceQueue; here the headers it is given are  *)
(* those of the memory, and its disk is watched and edited by others.      *)
(* A turn begins when the one before it has ended, its awaited tail        *)
(* included, and of what that end persists only a deferred header that was *)
(* applied is modelled.                                                    *)
(***************************************************************************)
EXTENDS SessionPersistenceQueue

CONSTANTS
  Mirrored,         \* fields applyExternalSessionMetadata copies into memory
  Guarded,          \* fields whose mutators set the write guard, and flush
  Notified,         \* fields whose mutators notify the watcher at once
  Warm,             \* whether this process has written the sessions before
  MaxForeignEdits,  \* bound: header edits by other processes
  MaxEdits,         \* bound: edits made in the app
  MaxTurns          \* bound: agent turns

ASSUME SyncAssumption ==
  /\ Mirrored \subseteq Fields /\ Guarded \subseteq Fields /\ Notified \subseteq Fields
  /\ Warm \in BOOLEAN
  /\ {MaxForeignEdits, MaxEdits, MaxTurns} \subseteq Nat

VARIABLES
  memory,      \* key -> metadata of the managed session
  turn,        \* key -> "idle", "processing", or "stopping"
  guard,       \* keys whose metadata write guard has not expired
  deferred,    \* key -> managed.pendingExternalMetadata: a header, or None
  event,       \* keys whose session-meta debounce timer is set
  left,        \* what the bounds still allow
  intended,    \* history: key -> what the app's own edits made of the metadata
  foreign,     \* history: key -> what others made of each field since we last absorbed
  edited       \* history: key -> fields the app has edited

syncVars == <<memory, turn, guard, deferred, event, left, intended, foreign, edited>>
allVars == <<vars, syncVars>>

Start == [f \in Fields |-> CHOOSE v \in Values : TRUE]
Nothing == [f \in Fields |-> {}]

SyncInit ==
  /\ InitWith([k \in Keys |-> [content |-> 0, header |-> Start]],
              [k \in Keys |-> IF Warm THEN Start ELSE None])
  /\ memory = [k \in Keys |-> Start]
  /\ turn = [k \in Keys |-> "idle"]
  /\ guard = {}
  /\ deferred = [k \in Keys |-> None]
  /\ event = {}
  /\ left = [foreign |-> MaxForeignEdits, edits |-> MaxEdits, turns |-> MaxTurns]
  /\ intended = [k \in Keys |-> Start]
  /\ foreign = [k \in Keys |-> Nothing]
  /\ edited = [k \in Keys |-> {}]

Use(what) == left[what] > 0 /\ left' = [left EXCEPT ![what] = @ - 1]

----------------------------------------------------------------------------
(* The app. *)

\* The memory is changed before it is persisted.
Mutate(k, f, v) ==
  /\ memory[k][f] # v /\ Use("edits")
  /\ memory' = [memory EXCEPT ![k][f] = v]
  /\ intended' = [intended EXCEPT ![k][f] = v]
  /\ edited' = [edited EXCEPT ![k] = @ \cup {f}]
  /\ UNCHANGED <<turn, deferred, foreign>>

\* renameSession, setSessionPermissionMode: persist, debounced; a rename also
\* tells the watcher that the file may have changed.
Edit(k, f, v) ==
  /\ f \notin Guarded
  /\ Mutate(k, f, v)
  /\ Enqueue(k, memory'[k])
  /\ event' = IF f \in Notified THEN event \cup {k} ELSE event
  /\ UNCHANGED guard

\* setSessionStatus, setKanbanColumn, ...: guard, persist and flush in one run.
\* (They tell the watcher after the flush, as the change of the file does.)
EnqueueAndFlush(k, header) ==
  /\ ~closing /\ Room
  /\ PutEntry(k, header, FALSE, NewSnap)
  /\ ClearTimers({k})
  /\ RunOnTail({k})
  /\ UNCHANGED <<receiptVars, outcomeVars, baselineVars, cancelledThrough, closing, flush,
                 fileVars, budget, historyVars>>

\* Seeded fault: an edit that forgets its guard.
ForgottenGuardEdit(k, f, v) ==
  /\ f \in Guarded
  /\ Mutate(k, f, v)
  /\ EnqueueAndFlush(k, memory'[k])
  /\ UNCHANGED <<guard, event>>

GuardedEdit(k, f, v) ==
  /\ f \in Guarded
  /\ Mutate(k, f, v)
  /\ EnqueueAndFlush(k, memory'[k])
  /\ guard' = guard \cup {k}
  /\ UNCHANGED event

\* METADATA_WRITE_GUARD_MS (5 s) after the last guarded edit, which outlasts the
\* debounce and the write of that edit and the watcher's debounce (0.1 to 0.5 s).
GuardExpires(k) ==
  /\ k \in guard /\ k \notin event /\ ~hasPendingOrTail(k)
  /\ guard' = guard \ {k}
  /\ UNCHANGED <<vars, memory, turn, deferred, event, left, intended, foreign, edited>>

\* applyExternalSessionMetadata: mirror the header into memory and, if it is not
\* what the queue last wrote, supersede what is pending and persist the merge.
\* (Seeded fault: a field that is not mirrored is wiped.)
MirrorOnly(k, header) == [f \in Fields |-> IF f \in Mirrored THEN header[f] ELSE None]
Mirror(k, header) == [f \in Fields |-> IF f \in Mirrored THEN header[f] ELSE memory[k][f]]

Apply(k, header) ==
  /\ memory' = [memory EXCEPT ![k] = Mirror(k, header)]
  /\ IF header # getLastWrittenSignature(k)
     THEN /\ AbsorbExternal(k, header, memory'[k])
          /\ foreign' = [foreign EXCEPT ![k] = Nothing]
     ELSE UNCHANGED <<vars, foreign>>

TurnStarts(k) ==
  /\ turn[k] = "idle" /\ Use("turns")
  /\ turn' = [turn EXCEPT ![k] = "processing"]
  /\ UNCHANGED <<vars, memory, guard, deferred, event, intended, foreign, edited>>

\* onProcessingStopped clears isProcessing, awaits, and later applies what was
\* deferred.
TurnStops(k) ==
  /\ turn[k] = "processing"
  /\ turn' = [turn EXCEPT ![k] = "stopping"]
  /\ UNCHANGED <<vars, memory, guard, deferred, event, left, intended, foreign, edited>>

AppliesDeferred(k) ==
  /\ turn[k] = "stopping"
  /\ turn' = [turn EXCEPT ![k] = "idle"]
  /\ deferred' = [deferred EXCEPT ![k] = None]
  /\ IF deferred[k] # None THEN Apply(k, deferred[k]) ELSE UNCHANGED <<vars, memory, foreign>>
  /\ UNCHANGED <<guard, event, left, intended, edited>>

----------------------------------------------------------------------------
(* The watcher. *)

\* handleSessionMetadataChange and onSessionMetadataChange, when the debounce
\* timer fires: read the header that is on disk now.
SelfWrite(k, header) == header = getLastWrittenSignature(k)

WatcherFires(k) ==
  /\ k \in event
  /\ event' = event \ {k}
  /\ \/ /\ \/ disk[k] = None
           \/ disk[k] # None /\ SelfWrite(k, disk[k].header)
        /\ UNCHANGED <<vars, memory, deferred, foreign>>
     \/ /\ disk[k] # None /\ ~SelfWrite(k, disk[k].header)
        /\ IF turn[k] = "processing" \/ k \in guard
           THEN /\ deferred' = [deferred EXCEPT ![k] = disk[k].header]
                /\ UNCHANGED <<vars, memory, foreign>>
           ELSE Apply(k, disk[k].header) /\ UNCHANGED deferred
  /\ UNCHANGED <<turn, guard, left, intended, edited>>

\* Another process (another instance, a script) rewrites a field of the header.
ForeignEdit(k, f, v) ==
  /\ disk[k] # None /\ disk[k].header[f] # v /\ Use("foreign")
  /\ disk' = [disk EXCEPT ![k].header[f] = v]
  /\ foreign' = [foreign EXCEPT ![k][f] = @ \cup {v}]
  /\ event' = event \cup {k}
  /\ UNCHANGED <<queueVars, receiptVars, outcomeVars, baselineVars, cancelledThrough, tails,
                 drains, closing, flush, tmp, dir, budget, historyVars>>
  /\ UNCHANGED <<memory, turn, guard, deferred, intended, edited>>

\* The queue's own steps; any change of the file is an event.
QueueStep ==
  /\ \/ \E k \in Keys, d \in Drains : DrainStep(k, d)
     \/ \E s \in SnapIds : TimerFires(s)
  /\ event' = event \cup {k \in Keys : disk'[k] # disk[k]}
  /\ UNCHANGED <<memory, turn, guard, deferred, left, intended, foreign, edited>>

SyncNext ==
  \/ \E k \in Keys, f \in Fields, v \in Values : Edit(k, f, v) \/ GuardedEdit(k, f, v)
  \/ \E k \in Keys : \/ GuardExpires(k)
                     \/ TurnStarts(k) \/ TurnStops(k) \/ AppliesDeferred(k)
                     \/ WatcherFires(k)
  \/ \E k \in Keys, f \in Fields, v \in Values : ForeignEdit(k, f, v)
  \/ QueueStep

SyncSpec == SyncInit /\ [][SyncNext]_allVars

----------------------------------------------------------------------------
(* What the synchronisation promises. *)

SyncTypeOK ==
  /\ memory \in [Keys -> Metadata]
  /\ turn \in [Keys -> {"idle", "processing", "stopping"}]
  /\ guard \subseteq Keys /\ event \subseteq Keys
  /\ deferred \in [Keys -> Metadata \cup {None}]
  /\ left \in [foreign : 0 .. MaxForeignEdits, edits : 0 .. MaxEdits, turns : 0 .. MaxTurns]
  /\ intended \in [Keys -> Metadata]
  /\ foreign \in [Keys -> [Fields -> SUBSET Values]]
  /\ edited \in [Keys -> SUBSET Fields]

Quiet(k) == ~hasPendingOrTail(k) /\ failedSnapshots[k] = NoSnap /\ k \notin event
NoTurn == left.turns = MaxTurns
NoForeignEdit == left.foreign = MaxForeignEdits

\* As long as nobody else edits the session, it has run no turn and no field that
\* notifies the watcher at once was edited, a guarded edit is in memory and on disk
\* once all is quiet: no echo of our own writes, and no write that failed, is taken
\* for somebody else's edit.  (After a write that failed, the file holds the old
\* value when the guard expires; a rename's notice then makes the watcher read it
\* while the next write is in flight, and the edit is reverted.)
GuardedEditSurvives ==
  \A k \in Keys : Quiet(k) /\ NoForeignEdit /\ NoTurn /\ edited[k] \cap Notified = {} =>
    \A f \in Guarded : /\ memory[k][f] = intended[k][f]
                       /\ disk[k] # None /\ disk[k].header[f] = intended[k][f]

\* The same of every edit: what the app persists is on disk in the end.
LocalEditSurvives ==
  \A k \in Keys : Quiet(k) /\ NoForeignEdit /\ NoTurn =>
    disk[k] # None /\ disk[k].header = intended[k]

\* An observation is held until a write has carried it to disk, and no longer.
ObservationDischarged ==
  \A k \in Keys : Quiet(k) => pendingExternalMetadata[k] = None

\* When it is let go (in a session that has run no turn), every field the app
\* never touched has the observed value on disk, or one another process has put
\* there since, whatever stale write was in flight when the edit was seen.  Not so
\* a field that is never mirrored, once an earlier edit of it was kept on disk
\* alone: the queue takes the stale memory for an edit of the app's (a finding).
LetGo(k) == pendingExternalMetadata[k] # None /\ pendingExternalMetadata'[k] = None
MemoryWasStale(k, f) ==
  /\ f \notin Mirrored /\ pendingExternalMetadata[k].localAt # None
  /\ pendingExternalMetadata[k].localAt[f] # memory[k][f]
ObservedEditCarried ==
  [][\A k \in Keys : NoTurn /\ LetGo(k) =>
       \A f \in Fields \ edited[k] : ~MemoryWasStale(k, f) =>
         \/ disk[k].header[f] = pendingExternalMetadata[k].external[f]
         \/ disk[k].header[f] \in foreign[k][f]]_allVars

\* Once nothing is pending, memory and disk agree on every mirrored field.
Converged ==
  \A k \in Keys : Quiet(k) /\ deferred[k] = None /\ disk[k] # None =>
    \A f \in Mirrored : memory[k][f] = disk[k].header[f]
=============================================================================
