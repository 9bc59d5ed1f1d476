# Formal models of Vorno

Vorno is a desktop and headless application around coding agents: sessions with an agent are run
by a server core, stored as files of a workspace, shown by several clients, and started by
schedules, webhooks and messages. This directory holds TLA+ models of the parts where the order
of asynchronous steps, failures and restarts decide whether data is kept, TLC configurations that
check them on small instances, and proofs checked by TLAPS. Source paths are relative to the
repository root (`src/` in `PROJECT.json`).

    tlc -config cancel.cfg MCSessionPersistenceQueue     # a run
    tlapm SessionPersistenceQueueProofs.tla        # a proof module

## 1. Inventory

| Part | State | Operations | What is hard | What makes it correct |
|---|---|---|---|---|
| **Session persistence queue** `packages/shared/src/sessions/persistence-queue.ts` | per session: queued snapshots, generations, two cancellation watermarks, a promise tail, receipts, retained failures, last written and pending external header | enqueue, enqueueChecked, flush, flushAll, cancelForDeletion, supersedePendingWrites, the stages of a write | every await is a point where a timer, an RPC, a deletion or a watcher event may come | one writer per session; a receipt tells the truth and is always answered; nothing is lost, resurrected, or overwritten by older data |
| **Metadata synchronisation** `packages/server-core/src/sessions/SessionManager.ts`, `packages/shared/src/config/watcher.ts` | the managed session, the write guard, a deferred header, the debounce of the watcher | rename, set status, external header applied, deferred, or taken for our own | the echo of our own write arrives late and looks like somebody's edit | our edits survive their echo; an observed foreign edit reaches memory and disk |
| **Session storage** `packages/shared/src/sessions/{storage,jsonl}.ts` | directories and files | save (checked), delete, list with clean-up, updateSessionMetadata | read-modify-write across awaits; leftovers of a crash | a session is the old or the new one |
| **Webhook ingest** `packages/shared/src/automations/webhook-ingest/` | dedup file, queue file, rate windows, retry timer, the dispatcher's mutex | request, background dispatch, completion, failure with backoff, drain at start | a failure or a crash between any two of them; at-least-once against exactly-once | 202 means it will not be lost; a duplicate was stored; repeated executions have a reason |
| **WebSocket RPC transport** `packages/server-core/src/transport/{server,client}.ts`, recovery in `apps/electron/src/renderer/App.tsx` | server: connected and disconnected clients, each with sequence numbers and a replay buffer; window: socket, client id, last and last contiguous number, reconnect snapshot, gap timer, what it shows | connect, handshake with an awaited check, push, acknowledge, replay or declare stale, heartbeat, workspace switch, fetch | connections break at any moment and the two ends notice in their own time; buffers evict; the server restarts | a window that takes itself to be current has every event of its workspace in order; otherwise it is owed a fetch |
| **Task runner** `packages/server-core/src/tasks/TaskRunner.ts`, `packages/shared/src/tasks/` | the states, attempts and outputs of a graph of nodes, slots in flight, the verdict asked for, repairs used, a log and output files | dispatch, completion, outcome check, retry, verdict, repair, pause, resume, stop, rehydrate | awaits in the middle of a dispatch, a check or a verdict, during which the run is stopped, paused or killed | slots are conserved; no result is built on a replaced input; completed means accepted; the run settles |
| **Automations** `packages/shared/src/automations/` (event bus, retry scheduler, missed fires, history) and `packages/shared/src/scheduler/` | rate windows, a retry queue file, last fires | emit, tick, enqueue, catch up | file rewrites across awaits | no retry is lost, none is endless |
| **Session manager: turns** `packages/server-core/src/sessions/SessionManager.ts`, `packages/shared/src/agent/backend/claude/pending-steers.ts` | the transcript with its queued marks, message queue, processing flag and generation, accepted steers, the turn's finalization, pending send admissions | send, steer, replay, start and end of a turn, handoff for a plan or authentication, Stop with its timer, flushAllSessions, cold load | a send awaits its flush, a turn its preparation, its end the browser; others run meanwhile; a shutdown waits for all of them | an acknowledged message is not forgotten; the backend gets it once; a clean shutdown is clean; the queue is served |
| **Token refresh** `packages/shared/src/sources/token-refresh-manager.ts` | tokens, cool-downs | refresh before use | two refreshes of a rotating token | a valid source is not marked as needing login |
| **Messaging gateway** `packages/messaging-gateway/` | pairing codes, bindings, a fan-out queue | pair, route, reply | duplicated and late messages of outside services | a message reaches the session bound to its chat |
| **Headless API server** `apps/server/src/` | session pool, event buffers, clients | create, stream, close | limits checked before an await | limits hold; a stream has no gap |
| **Trigger server supervisor** `apps/electron/src/main/trigger-server/supervisor.ts` | the child process, back-off | start, exit, restart, stop | an exit during a stop | one child at a time |
| **Pages, agents, decision points, instance lock, user interfaces, helper processes** | | | | not modelled: see `components` in `PROJECT.json` |

How they interact. A client's RPC reaches SessionManager, which changes the managed session in
memory and hands a snapshot to the persistence queue; the queue is the only writer of
`session.jsonl`. The watcher sees each change of that file, the queue's own included, and calls
SessionManager back, which compares the header with what the queue last wrote, and absorbs a
foreign one by superseding the pending write. Webhooks enter through the headless server's
`/hooks` route, are stored by the receiver and dispatched to an automation system, whose handlers
create sessions. A message sent to a session becomes a turn of its backend, whose end the task
runner hears of as a completion; what a turn changes is pushed to every window of the workspace
over the transport. Shutdown settles the sends and turns (`flushAllSessions`) and then calls
`flushAll`.

Concurrency has one shape in all of them. JavaScript is single threaded: an action is one run of
code between two awaits, or the instant a file system call takes effect, and everything else may
happen in between. Time is not modelled: a timer that is set may fire at any moment.

## 2. The modules

| Module | Models | Extends |
|---|---|---|
| `SessionPersistenceQueue` | the queue, with saveSession, deleteSession and the start-up clean-up | |
| `SessionMetadataSync` | SessionManager's metadata and the watcher, composed with the queue | `SessionPersistenceQueue` |
| `WebhookIngest` | receiver, dedup store, queue, rate gate, dispatcher, bus limit | |
| `EventFeed` | abstract: what the push channel promises one window | |
| `RpcTransport` | server, client, wire and the window's recovery, shown to implement `EventFeed` | (INSTANCE `EventFeed`) |
| `TaskRunner` | one run of a task | |
| `SessionTurns` | the turns and the message queue of one session, through shutdown and restart | |
| `MC...` | the same on small instances (and the symmetry set of `shutdown`) | |
| `SessionPersistenceQueueProofs`, `...FileProofs`, `SessionMetadataSyncProofs`, `WebhookIngestProofs`, `TaskRunnerProofs`, `SessionTurnsProofs`, `RpcTransportProofs`, `RpcTransportFeedProofs` | theorems | the module they are about |

Definitions whose comment says *seeded fault* are not part of any specification. They state a
plausible bug of one operator; the mutants of `PROJECT.json` put them in place of the operator to
show that a property would notice.

**SessionPersistenceQueue.** A snapshot is its position in `snapshots`: its key, metadata header
and `content` (whose data it holds; a retry has a generation of its own and old content). The
maps of the class are functions over keys. `tails` and `drains` stand for the chain of promises
of `runOnTail`: a drain is *idle*, *waiting* for the one it is chained behind, or *running* at a
`stage`, which names the await it stands at (`creating`, `renaming`, ...). `write()` is one action
per await: `WriteBegins`, `TmpWritten`, `TargetUnlinked`, `Renamed` (the file system's instant),
`RenameReturns` (the code after it), the two ways of abandoning (`TmpDropped`, `FileDiscarded`),
`WriteFails` at any stage with `FailureTidied`, and `DrainEnds`. `flushAll` is `FlushAll`,
`FlushRound`, `FlushDrained`, `FlushRetries`, `FlushEnds`. The gaps between a drain's microtasks
can be interrupted in the model, which allows more than the code does, except where `flushAll`
goes on with its round: there `FlushContinues` holds timers and watcher events back, because
nothing can come between in the code. `reopenAfterFlushAll` is only called by tests and left out.

**SessionMetadataSync.** The queue's headers are now those of `memory`; the watcher's debounce is
the set `event`, the five-second guard `guard`, a header deferred during a turn `deferred`.
A turn begins when the one before has ended, its awaited tail included (in the code the next may
begin during that tail), and of what the end of a turn persists, only an applied header is modelled.
`intended` (what the app's own edits made of the metadata), `foreign` (what others made of each
field since an edit was last absorbed) and `edited` are history for the properties. `GuardExpires`
assumes that five seconds outlast the debounce and write of a guarded edit and the watcher's 0.1 to
0.5 s, and fires only when these are over. Deletion, shutdown and crashes are left to the queue's
own runs.

**WebhookIngest.** `handle()` does not await, so a request is one action: `Duplicate`,
`RateLimited`, `Accept`, or `AcceptFails`. An acceptance is numbered; a delivery knows its number,
so that properties can tell two acceptances of one event apart, which the code cannot. The
dispatcher's mutex is the order of `inflight`: only the first of them is performed (`Perform`), or
dropped by the bus (`BusDrops`), and ends in `Succeeds` or `Fails`. `TimerTick` and `StartDraining`
list pending entries as `listPending` does. Backoffs, the dedup TTL and the rate windows elapse by
actions of their own. A line's `attempts` is kept as whether its backoff is still ahead. A file
write succeeds or fails, the dedup record's and the queue's each for itself or together; a rewrite
leaves the old file when it fails.

**EventFeed and RpcTransport.** `EventFeed` has a log of pushes, the workspace shown, the events
the window's state reflects, and whether it is current. Its `Deliver` forbids a current window to
skip an event; `Refresh` is the only way to become current. In `RpcTransport` an event is its
place in the log; `entry` holds the server's client records with `sent`, `acked` and the buffer,
which always ends at `sent`; a socket slot has a `link` that carries messages until it `Break`s,
and the messages `down` on the way, lost with it. `Handshake` and then `Reconnect` or `Admit` are
the two sides of the awaited cookie check, with `ServerClose` possible between them.
`ClientClose`, `Connect`, `Welcome`, `Receive`, `GapTimer`, `SequenceAck`, `SwitchWorkspace` and
`Fetched` are the window's handlers. The refinement maps `current` to: no fetch is owed, no gap is
waiting for its timer, and the server routes the window's client to the workspace it shows.

**TaskRunner.** `Scheduled` is `scheduleReady` with `maybeFinish`, which ends every handler. A
node's `stage` is the await it stands at: *dispatching*, its child's *turn*, *checking* the
outcome; *silent* is a turn that ended without a completion (`TurnFallsSilent`): one that pauses for
a plan or an authentication never reaches `onProcessingStopped`, and one whose session was deleted
returns there at once. `ask` is what the verdict waits for, with the same case for the
orchestrator's turn (`VerdictFallsSilent`). A silent session completes only if a person writes to
it. `OutputNotWritten` and `VerdictNotWritten` are the writes whose failure the code does not
handle. An output is the number of the attempt that made it,
so that `prompt` (what a node was given) and `basis` (what its result was made from) tell old from
new. `disk` is what `hydrate` would read; `Crash` and `Rehydrate` go through it, and a crash may
leave an output file without its line in the log (`FilesLeft`). `Frontier` is
what a repair runs again: the named nodes with their `Dependents`, for each the least set of nodes
that holds it and is closed under the edges, where the code walks a queue.

**SessionTurns.** A message is its number in the transcript; a send is a count until it has one.
`stage` follows the send that carries a message: *saving* its flush, *replaying* and *clearing* on
its way out of the queue, *setup*, *chatting*, or *halted* by Stop during the preparation. `Joins`
is the branch for a running turn, `StartTurn` the one for an idle session, `StopProcessing` is
`onProcessingStopped` to its first await and `TailEnds` the rest. The backend is one that answers
`takePendingSteers` (Claude's). `snapshot` is what the persistence queue was last given, `disk` what
it wrote. Who may release the finalization of a turn (`owners`, `pausing`) is kept, because a later
turn takes the right away.

## 3. The runs

| Run | Question | Bounds | Distinct states |
|---|---|---|---|
| `cancel` | Do cancellation, failure and shutdown keep the queue's promises in every interleaving? | one session, 3 snapshots, 2 chained drains, a failing call, a supersede, a deletion, flushAll with 3 rounds | 540 k |
| `shutdown` | Does a shutdown that resolves save the newest data of every session? | two sessions (symmetric), 3 snapshots, 2 failures, a supersede | 1.0 M |
| `liveness` | Is every receipt answered, does flushAll end, does everything settle? | one session, 2 snapshots, a flush, a failure, a deletion, a crash; fair | 98 k |
| `metadata_sync` | Do edits survive the echo of our own writes, and foreign edits the writes in flight? | one session, a guarded mirrored field and an unmirrored one whose edits notify the watcher, two values, 2 edits, a foreign edit, a turn, a failure, 2 supersedes | 1.6 M |
| `transport` | Does the push channel implement `EventFeed` through breaks, replays, evictions, restarts and switches? | one window, two socket slots, 2 workspaces, 2 client slots, buffers of 1, 3 events, 2 breaks or restarts, a switch; fair | 371 k |
| `tasks` | Are slots conserved, inputs current, completion honest, and does a run settle? | 4 nodes (two of them inputs of a third), 2 slots, a retry, a repair, a re-ask, one trouble: a pause, a restart, a failed write or a silent turn; fair | 529 k |
| `turns` | Is a message kept, handed over once, and the queue served, through Stop, handoffs, shutdown and restart? | 3 sends, 4 messages, one mishap (Stop, handoff or failed preparation), one restart; fair | 301 k |
| `webhooks` | Is a webhook kept, known as a duplicate, executed once and settled, across failures? | 2 events, 2 acceptances, rate 1, bus 2, 2 deliveries under way, a failed dispatch, a failed write, a crash; fair | 707 k |
| `retry_resurrects` | `DeletedStaysDeleted` with two sessions and two failed writes | *violated* | |
| `first_rename_lost` | `LocalEditSurvives` of a session not written yet | *violated* | |
| `merged_edit_unseen` | `Converged` after a foreign edit merged into a write | *violated* | |
| `second_delivery_lost` | `LatestAcceptanceIsKept` of an event accepted twice | *violated* | |

Why the bounds are enough. Each of the queue's hazards needs at most three writes of a session: one
at work, one waiting, one queued after the cancellation that hits the others; two drains give the
chain its only interesting shape, a successor released by the end of the first, and a third would
wait like the second (the proof of `OneWriter` covers any number). One deletion or supersede can
fall on every stage of every write. `flush(key)` drives the tail exactly as a checked write does, so
`cancel` leaves it out; it is exercised in `liveness`, and the proofs cover it. Two sessions matter
for `flushAll` alone, which retries one while another changes. Webhooks interact through the mutex
and the rate windows, for which two deliveries suffice; two acceptances are two events or one event
twice. A buffer of one with three events makes replay, eviction and staleness all happen; two breaks
allow a break during the recovery from the first. In `metadata_sync` the second supersede lets an
own write that is taken for a foreign edit be followed by another. (The exception `MemoryWasStale`
takes a second foreign edit.) Four nodes with two slots have a node that waits for a slot, one that
waits for its inputs, and one a repair of another must not touch. Three sends are one that runs, one
steered or queued behind it and one that races with either; the fourth message is the copy a replay
may make. Deadlock is not checked (`CHECK_DEADLOCK FALSE`): a quiet queue and an idle receiver with
their bounds used up really stop, and so do a run that ended, a session without messages and a
window that has all events. Symmetry is used in `shutdown`, whose properties are all safety.

What they show.

- `OneWriterPerKey`: two writes of one session, which share a `.tmp` path, are never in flight
  together. `FreshWritesNotCancelled`: a watermark never reaches a write enqueued after it.
- `ReceiptsAreHonest`, `EveryReceiptHasAWriter`, `EveryReceiptIsAnswered`: a receipt says
  *committed* only of its own bytes, an unsettled one always has somebody who will settle it, and
  every receipt is answered in the end.
- `FileIsNeverLost`, `DeletedStaysDeleted`, `NewestDataOnDisk`, `FlushSavedEverything`: the file.
  `FileIsNeverLost` is checked without a crash, since a crash between unlink and rename does lose
  the session (see findings); `DeletedStaysDeleted` holds for one session and one failure, and
  `retry_resurrects` shows it broken beyond that. `NewestDataOnDisk` and `FlushSavedEverything`
  except the sessions of `BroughtBack`: `flushAll` copies the failures before it retries them, and
  an external edit absorbed in between is overwritten by the retry (a finding the proof led to; it
  takes two sessions, two failures and one snapshot more than `shutdown` has: with `MaxSnapshots =
  4` and without the exception, TLC finds a behaviour of 28 states).
- `NoStrandedEntry`, `BookkeepingRetires`, `FlushAllEnds`, `EverythingSettles`: nothing is left
  behind in a map, a queue or a loop.
- `GuardedEditSurvives`, `ObservationDischarged`, `ObservedEditCarried`: metadata. Two exceptions
  are the code's. An edit that notifies the watcher at once (`Notified`: a rename) can revert a
  guarded one whose write failed: the guard is over, the file holds the old value, and the watcher
  reads it while the next write is in flight. And a field that is never mirrored is not carried when
  memory was stale (`MemoryWasStale`, a finding): a second external edit takes the stale memory for
  an edit of the app's and undoes the first. Convergence as a liveness property is not checked:
  whether memory and disk ping-pong depends on the lengths of two debounces, and the model has no
  time.
- `AcceptedIsKept`, `DuplicateWasStored`, `AcceptedOncePerTTL`, `ExecutesOnce`, `EventuallySettled`:
  webhooks. Their exceptions (`dropped`, `unstored`, `forgotten`, `redelivered`) are history
  variables that name the reasons the code has.

- `FeedSpec` (refinement), `GapOnlyAfterStale`, `QuietMeansCurrent`, `EventReachedOrOwed`: the
  transport. `RoutedToShownWorkspace`, the promise of a comment, does not hold and is a finding;
  the refinement map says so by `Misrouted`.
- `SlotsMatchRunning`, `InputsCurrent`, `CompletedMeansAccepted`, `RunSettles`: task runs. The
  exceptions are `redoLost` (a restart in the middle of a repair reads a log that is behind),
  `unwritten` (an output or a verdict that could not be written) and `WaitsForPerson`: when nothing
  is under way but silent turns, the code has no timeout and the run stays as it is. What
  `RunSettles` then shows is that this is the only way to hang: no listener, slot or question the
  code itself has to follow up is forgotten.
- `NothingForgotten`, `HandedOverOnce`, `CleanShutdown`, `QueueIsServed`: turns. `dropped` lists
  the ways the code gives a message up: Stop withdraws it, its turn is superseded before it began,
  its preparation throws, the steer is lost with an iterator that is closed. A handoff for a plan
  or for authentication leaves the queue alone until the next turn ends; `QueueIsServed` says so.

Fairness. `FairSpec` of the queue assumes that a set timer fires, a drain's awaited call returns and
a flush in progress goes on: the event loop's and the file system's progress, each as weak fairness.
The webhook receiver's assumes that the host is started again after a crash, the interval timer
keeps ticking, a dispatch under way ends one way or another and backoffs elapse; failures are
bounded, since a delivery that always fails is retried for ever. The transport's assumes that timers
fire, closed sockets are reported and what has reached an open socket is handled; connections need
not stay up, and breaks are bounded. The task runner's assumes that a turn of a child or the
orchestrator that is not silent ends in a completion, by an error or a timeout of the backend if not
otherwise, and that decision models answer or time out; any turn may fall silent instead, and nobody
needs to write to a silent session or resume a paused run. The turns' assumes that files are
written, preparations return or throw, turns of the backend end and the browser answers; nobody
needs to press Stop, restart or send.

## 4. The proofs

| Theorem | Statement |
|---|---|
| `TypeCorrectness` | `Spec => []TypeOK` (queue) |
| `OneWriter` | `Spec => []OneWriterPerKey` |
| `FreshWrites` | `Spec => []FreshWritesNotCancelled` |
| `HonestReceipts` | `Spec => []ReceiptsAreHonest` |
| `ReceiptsHaveWriters` | `Spec => []EveryReceiptHasAWriter` |
| `NothingStranded` | `Spec => []NoStrandedEntry` |
| `BookkeepingIsRetired` | `Spec => []BookkeepingRetires` |
| `SavedFilesAreKept` | `Spec => [](crashedAt = 0 => FileIsNeverLost)` |
| `DeletedSessionsStayGone` | `Spec => [](crashedAt = 0 /\ flush.pc \in {"open", "draining"} => DeletedStaysDeleted)` |
| `NewestDataStays` | `Spec => []NewestDataOnDisk` |
| `ShutdownSavesEverything` | `Spec /\ [](crashedAt = 0) => FlushSavedEverything` |
| `SyncTypeCorrectness` | `SyncSpec => []SyncTypeOK` (metadata) |
| `ObservationsAreDischarged` | `SyncSpec => []ObservationDischarged` |
| `ObservedEditsAreCarried` | `SyncSpec => ObservedEditCarried` |
| `GuardedEditsSurvive` | `SyncSpec => []GuardedEditSurvives` |
| `IngestTypeCorrectness` | `Spec => []IngestTypeOK` (webhooks) |
| `AcceptedKept` | `Spec => []AcceptedIsKept` |
| `DuplicatesWereStored` | `Spec => []DuplicateWasStored` |
| `OneAcceptancePerTTL` | `Spec => []AcceptedOncePerTTL` |
| `RunsOnce` | `Spec => []ExecutesOnce` |
| `TaskTypeCorrectness` | `Spec => []TaskTypeOK` (tasks) |
| `SlotsAreKept` | `Spec => []SlotsMatchRunning` |
| `InputsAreCurrent` | `Spec => []InputsCurrent` |
| `CompletedIsAccepted` | `Spec => []CompletedMeansAccepted` |
| `TurnsTypeCorrectness` | `Spec => []TurnsTypeOK` (turns) |
| `ShutdownIsClean` | `Spec => []CleanShutdown` |
| `TextsReachTheBackendOnce` | `Spec => []HandedOverOnce` |
| `AcknowledgedIsNotForgotten` | `Spec => []NothingForgotten` |
| `TransportTypeCorrectness` | `Spec => []TransportTypeOK` (transport) |
| `QuietIsCurrent` | `Spec => []QuietMeansCurrent` |
| `GapsOnlyAfterStale` | `Spec => GapOnlyAfterStale` |
| `FeedRefinement` | `Spec => FeedSpec` |

They hold for every value of the constants that `QueueAssumption`, `SyncAssumption`,
`IngestAssumption`, `TaskAssumption`, `TurnsAssumption` and `TransportAssumption` allow: `None`
differs from the data, the limits are positive, the bounds are numbers, the nodes of a task are
finitely many and their edges point backwards, the workspace a window was built with is one. Three
of them have a condition of their own, which is where the code stops keeping the property. After a
crash (`crashedAt # 0`) a file can be missing, because the crash fell between unlink and rename; and
a deleted session's file can be there, if its directory could not be removed and the crash fell
between the rename and the unlink that takes it back. `cancel`, which checks the two properties, has
no crash either. A crash also takes with it what was only queued, so what `flushAll` saves is
promised of a process that lives. Once `flushAll` retries (`flush.pc` is no longer *open* or
*draining*), a deleted session can come back: that is the finding of `retry_resurrects`.

- `TypeOK` is inductive as it stands. Its conjuncts are proved group by group, with one lemma for
  each helper that several actions share (`PutEntry`, `Settle`, `RunOnTail`, `EndWrite`).
- `OneWriterPerKey` is not inductive: nothing in it says that a drain that waits is released by one
  drain only, or that the tail is behind every drain there is. `ChainInv` says both: the drains of a
  session form a sequence, each after the one before, only the first at work, the tail the last.
  Actions extend it at the end or drop its head.
- `FreshWritesNotCancelled` is inductive together with `TypeOK`: a fresh entry gets a generation
  above every earlier one and above both watermarks.
- The other theorems about the queue stand on `Ledger`: `TypeOK`, `ChainInv`,
  `FreshWritesNotCancelled` and two parts of its own. `Custody` follows each snapshot through the
  queue: what is in hand and then in line is of this session and in the order it was accepted, and
  has neither landed nor been answered *failed*; only a running drain has a snapshot in hand; what
  somebody waits for is one of these and is not cancelled. `Honest` adds to `ReceiptsAreHonest` that
  no snapshot is answered or cancelled before there is one. `ReceiptsAreHonest` and
  `EveryReceiptHasAWriter` follow from it.
- `BookkeepingRetires` is inductive with `Ledger` (`Retired`): what ends the last drain retires the
  session unless it is still busy or keeps a failure, and a session that is retired is touched by
  nothing but a new entry.
- `NoStrandedEntry` is inductive with `Ledger` (`Driving`). The chain is what makes it so: a drain
  put behind the tail has all the entries in line to do, and one that ends has tried as many as it
  began with, so what is left has timers of its own or a drain after it.
- The file. `Filed` is the part every theorem needs: what has landed is older than what is in hand,
  and that than what is in line (`Behind`, `FreshInLine`); the file holds the data of what landed
  last (`LastOnDisk`); a write in hand knows by its watermark whether its session was deleted and,
  if it was superseded, has the reconciliation in line (`Marked`); a retained failure is of a live
  session (`FailedLive`). `FileIsNeverLost` is then shown session by session (`NotLost`).
  `DeletedStaysDeleted` needs that a file that is there after the deletion is in the hands of a
  write about to unlink it (`Gone`), and that until the retries every snapshot holds its own data
  (`AllOwn`).
- `NewestDataOnDisk` is strengthened to `Newness`. What is in line or in hand is the newest
  accepted, and newer than a retained failure (`Lined`); each snapshot holds its own data or, for a
  retry, that of an earlier one (`Bounded`, `OwnData`); data newer than a retried failure but
  accepted before the retry was accepted before an external edit (`Excused`, `Copied`). What makes
  the retries of `flushAll` harmless is that its rounds leave nothing behind: each round awaits a
  drain for all that was queued or in hand and the freeze admits only reconciliations, so whatever
  newer is still to be written when the failures are copied is such a reconciliation (`RoundCovers`,
  `Closed`).
- `FlushSavedEverything` continues `Newness` through the retries (`Saving`). `Accounted`: until a
  crash, whatever a session accepted is in line or in hand, retained as a failure, deleted, brought
  back, or not newer than what has landed. `Reported`: while `flushAll` retries, a retained failure
  is noted for the exception it throws, back at work, or still to be retried. When `FlushEnds`
  resolves, the last two are excluded, so the newest data has landed, and `NotLost` and
  `NewestDataOnDisk` say that the file still holds it.
- The composition. A step of `SyncNext` is, to the queue, a step of its own, an edit that is flushed
  at once, or a rewrite of the header by others (`SyncStepIs`), and the last two keep `Ledger` and
  `Filed` as well (`Synced`); so what the queue's theorems rest on holds in the composition. Seen
  from one session, a step leaves its write and its baselines alone (`Aloof`), absorbs an external
  edit, begins or continues a write, or rewrites the header (`SyncStepOf`).
- `ObservationDischarged` is strengthened to `Observing`: an observation is held only while there is
  something to write, and a write in hand knows of it exactly if it was not superseded by it
  (`Knows`); that there is always such a write needs that no session is deleted (`Undeleted`).
- `ObservedEditCarried` is strengthened to `AllCarrying`. As long as no turn has run, snapshots
  after the supersede carry memory in the fields the app has not touched (`Remembered`), memory has
  the observed value of the mirrored ones (`Mirroring`), each value in the file is the observed one,
  a later foreign one, or of the last commit (`DiskExplained`), and a write that was not superseded
  carries the observed value or a later one (`HandsCarry`). `ChosenIsSeen` is the three-way merge of
  the write that begins.
- `GuardedEditSurvives` is strengthened to `Guarding`. The header of a write in flight is the one
  the watcher compares with (`Signed`), and without foreign edits the file differs from the last
  commit at most while a rename returns (`Undiverged`); so what the watcher takes for somebody
  else's edit is an older write of ours. That it does no harm is `Mine`: the newest snapshot and its
  write carry memory's value of a guarded field, and when the guard is down so does everything in
  line, in hand or noticed by the watcher. The guard can only fall when nothing is left of an older
  value, which is why the failed write, and the notice of a rename after it, are the exception.
- `AcceptedIsKept` is strengthened to `KeptInv`: a delivery and an entry are for the event their
  acceptance was made for; a dispatch at stage *dropped* has been counted; every tombstone's event
  has been handled; an entry goes only when its event has a tombstone; and nothing is under way
  while the host is down (without that, a drain could start in the middle of a stage).
- `DuplicateWasStored` needs a reason for every record, in memory and on disk
  (`RecordsHaveReasons`): a restart loads the file. `AcceptedOncePerTTL` is inductive with
  `RecordsOnDisk`: a record that has not expired is on disk, and what is on disk is in memory while
  the host is up.
- `ExecutesOnce` is strengthened to `OnceInv`. `OneDelivery`: an acceptance that no failure has
  given a second run has at most one delivery in flight, and none waits to be drained beside it.
  `NoSecondRun`: once it has run, its delivery is the one at the head, at the stage that finishes
  it, and its entry is marked as running, so that no timer takes it up.
- The four theorems about a task run share `TaskInv`. `Scheduled`, which ends nearly every handler,
  is proved once: whatever run a handler hands it, if the run is `Sound`, the run that comes of it
  is; each handler then only shows that it hands over a sound one. `Sound` says that a node is
  running exactly while something is under way for it and that a run that verifies or completed has
  only finished nodes (`Slots`); that what is done or running stands on finished dependencies and on
  their present outputs (`Inputs`); that a rejected output is of an earlier attempt than the one
  that runs or finished (`Judged`); and that a node that may be scheduled again has an attempt left
  of those that retries, repairs and interruptions explain (`Spare`). `Rest` adds that the log
  counts at least the repairs of memory and that a repair waiting for its scope has been granted its
  attempts. `ChosenFit` bounds the chosen nodes by the free slots: a chosen node is known by how
  many ready ones come before it, which is fewer than there are slots. `FrontierClosed` is why a
  repair leaves no finished node on a pending one.
- `TurnsTypeOK` needs that whatever is steered, queued or marked is in the transcript
  (`TranscriptOK`) and that a message in preparation is stored (`Stored`, `Placed`); its conjuncts
  are proved in three groups, and lemmas for `StopProcessing`, `SteersRecovered`, `Joins` and
  `StartTurn` serve all the actions that call them.
- `CleanShutdown` is strengthened to `Quiescing`: a running turn holds the finalization and only a
  running turn has steers (`Running`); without a turn and its end, what is in memory has been handed
  to the persistence queue (`Settled`); and each stage of a shutdown has settled what the ones
  before it wait for (`Drained`): no send can get past a shutdown that has begun to stop the turns.
- `HandedOverOnce` is strengthened to `Delivery`: what was handed over waits for nothing, and what
  is queued or steered has no send under way beside it (`Once`); a message that is not stored yet is
  nowhere and repeats nothing (`Fresh`); and of the messages that repeat one text, at most one is
  live, which is to say waiting or handed over (`OneCopy`): a replay that stores a copy has taken
  its original out of the queue.
- `NothingForgotten` is strengthened to `Owing`, which covers the messages whose answer is being
  given as well as those that have it: each is safe (delivered, in a turn's preparation, or given
  up) or marked, in memory, in the snapshot and on disk, where a shutdown writes it at its end and a
  send before its answer. A mark is dropped by what handed the message over or gave it up, for which
  `SteersGone` says that a steer leaves its slot in no other way.

- The transport. `RpcTransportProofs` says once what each action does to a client's buffer: it is
  `Trimmed` (loses its oldest events), it `Grew` by the event pushed, or it is empty; a sequence
  number that is still held names the same event as before. `RpcTransportFeedProofs` builds
  `FeedInv` from that, because none of the three properties is inductive. `Wiring`: only the
  window's socket carries messages, and a socket serves one client. `Flight`: the events on a
  connection bear the last numbers its client was sent, in the order of the log, and are the ones
  the buffer holds as far as it still reaches back. `Connection`: the window and the server agree on
  who the window is (`Identity`, `ClientKnown`), what its handshake offered (`OpeningOK`), that the
  acknowledgement comes first (`AwaitingOK`), and that the numbers on the way continue the ones it
  has seen unless it was told it is stale (`ServingOK`). `Owed` ties them to the window: while it
  counts as current, each event it lacks is on its way on the connection it reads from, and in the
  buffer above what it acknowledges, or the buffer begins beyond that, which a reconnect declares
  stale. `ReplayDelivers` is the step from the one to the other. `GapsOnlyAfterStale` follows from
  `ServingOK`, `QuietIsCurrent` from `Owed`, and `FeedRefinement` from both: a delivery is in order
  because what is due before it would have to be on its way in front of it.

Only model-checked is liveness: `EveryReceiptIsAnswered`, `FlushAllEnds`, `EverythingSettles`,
`EventuallySettled`, `EventReachedOrOwed`, `RunSettles` and `QueueIsServed` need fairness and
`ENABLED`, which are out of this prover's reach, as is anything by induction over data. Every
invariant and every action property of the passing runs is stated by a theorem. What
`DeletedStaysDeleted`, `FileIsNeverLost` and `FlushSavedEverything` say beyond the conditions of
their theorems is false, not unproved; so are the violated properties of section 3.

## 5. Findings

The runs that expect a violation, and reading the code for the model, found places where code and
comments disagree; `findings` in `PROJECT.json` quotes both. The main ones: a retry during
`flushAll` can resurrect a deleted session; a crash between unlink and rename, followed by the
start-up clean-up, loses a session; the first rename of a session since start can be undone by its
own watcher event; an external edit merged by a write is never seen by memory; a tombstone hides a
later acceptance of the same webhook; a failed append makes the provider's retry a duplicate of
nothing. Two came from the proof of `NewestDataOnDisk`: an external edit absorbed while `flushAll`
retries another session's failure is overwritten by the retry of its own session's older one; and
when the round bound is hit, a retry that commits behind a newer write that failed clears that
failure, so that `flushAll` resolves over older data. One came from the proof of
`ObservedEditCarried`: a second external edit undoes the first one's permission mode. A window that
reconnects after a workspace switch is routed to the workspace it was built with; a failed fetch
after a stale signal is not repeated; a socket that closes during its handshake leaves a client that
is never removed; an acknowledgement can move past a gap. A child created while its run is stopped
is started all the same; a restart in the middle of a repair resumes with rejected outputs; a stale
reply can be taken for a verdict; a child or an orchestrator that pauses for a plan or an
authentication, and a verdict that cannot be written, leave the run hanging. A turn whose
preparation throws blocks its session; two sends during one flush both begin a turn and the first is
lost; a replay that finds a running turn stores its message twice.

## 6. What is not modelled, and the plan

Left out of modelled components. Queue: sizes and contents of files. Storage:
`updateSessionMetadata`, whose read-modify-write overwrites what is queued in between (a finding
from reading the code). Webhooks: staged payload files, torn rewrites. Transport: requests and
responses, calls from the server to a client, `destroy`, the client swap of `RoutedClient`.
Metadata: a turn that begins during the tail of the last one, and what the end of every turn
persists. Task runner: input compression, parameters, failing writes of the log other than an
output's or a verdict's, and what a person writes to a child or the orchestrator, but for waking a
silent one. Turns: decision models that merge or steer queued messages, page callbacks, retries
after an authentication failure, deletion during a turn, what a turn writes to the transcript,
backends without `takePendingSteers` (their steers are acknowledged unmarked, so a crash forgets
them), and an end of a turn that throws before it serves the queue.

Not modelled for good: rendering, formatting and parsing, provider SDKs and outside services,
single-prompt decision points, subprocess bridges; their code is large and its order of events is
decided elsewhere. User interfaces are most of the repository's lines and keep no state that a
server component does not own.

Next, in this order: `updateSessionMetadata` in `SessionMetadataSync`; the webhook retry scheduler
(an append between a tick's read and its rewrite is lost) with missed fires; token refresh (two
refreshes of one rotating token); the session pool's limits; the trigger server supervisor; the
messaging gateway; and an abstract specification of a session's file, a register of accepted
snapshots, which the queue implements. To prove next: the queue as a refinement of
that register, for which `Filed` and `Newness` say what its value is, and the properties of the new
modules.

Bounds for new runs stay where these are: one or two actors of each kind, and one of each fault.
