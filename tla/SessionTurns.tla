---------------------------- MODULE SessionTurns ----------------------------
(***************************************************************************)
(* The turns of one session and the messages sent to it: a message starts  *)
(* a turn, is steered into the one that runs, or is queued and replayed    *)
(* when it ends (packages/server-core/src/sessions/SessionManager.ts, and  *)
(* agent/backend/claude/pending-steers.ts of packages/shared).             *)
(*                                                                         *)
(* A message is its number in the transcript.  Before it is put there a    *)
(* send has no identity and is only counted.  The message queue is a set:  *)
(* pushes are of the newest message, an undelivered steer goes back in     *)
(* order of arrival and the cold load scans the transcript, so the order   *)
(* is always the transcript's (but for what a shutdown queues, which       *)
(* nothing takes any more).                                                *)
(*                                                                         *)
(* persistSession hands the persistence queue a snapshot, and a later one  *)
(* replaces it; a write succeeds (its failures are in                      *)
(* SessionPersistenceQueue), and what the end of a turn does before it     *)
(* serves the queue does not throw.  A restart includes the cold load.     *)
(* The backend answers takePendingSteers; of one that does not, a steer is *)
(* acknowledged without a mark, and a crash forgets it.  Decision models,  *)
(* page callbacks, auth retries, deletion and the flush of a first title   *)
(* are left out.                                                           *)
(***************************************************************************)
EXTENDS Naturals, FiniteSets

CONSTANTS
  MaxSends,      \* bound: sends of users
  MaxMessages,   \* bound: messages of the transcript; a replay may add one
  MaxMishaps,    \* bound: presses of Stop, pauses for a plan or for
                 \* authentication, and turns whose preparation throws, together
  MaxRestarts    \* bound: restarts, after a crash or a shutdown

ASSUME TurnsAssumption == {MaxSends, MaxMessages, MaxMishaps, MaxRestarts} \subseteq Nat

Messages == 1 .. MaxMessages

VARIABLES
  entering,    \* sends admitted, not yet past the refusal point
  cleared,     \* sends past it, not yet in the transcript
  used,        \* the newest message
  text,        \* message -> the message it repeats, or itself
  messages,    \* the transcript
  marked,      \* messages with isQueued
  queue,       \* messageQueue
  stage,       \* message -> how far the send that carries it is
  replays,     \* messages whose send came from the queue
  acking,      \* queued or steered messages whose send awaits its flush
  acked,       \* messages whose sender was told that they are saved
  processing,  \* isProcessing
  turn,        \* the message of the newest turn (processingGeneration)
  timer,       \* forceStopCleanupTimer, and stopRequested
  steers,      \* acceptedSteers
  slot,        \* PendingSteers.pending
  accepting,   \* PendingSteers.active
  tails,       \* calls of onProcessingStopped between their awaits
  owners,      \* how many of them can release turnFinalization
  finalizing,  \* turnFinalization
  pausing,     \* a plan handoff at its await, and whether it can release turnFinalization
  kick,        \* whether the cold load has scheduled a replay
  shutdown,    \* how far flushAllSessions is
  snapshot,    \* what persistSession was last given
  disk,        \* what is written of it
  handed,      \* message -> times its text reached the backend since the start (for the properties)
  dropped,     \* messages that nothing is owed any more (for the properties)
  handedOff,   \* whether the newest turn paused (for the properties)
  bounds       \* what is used up, and the restarts so far

sends    == <<entering, cleared, used, text, acking, acked>>
runtime  == <<messages, marked, queue, stage, replays>>
turns    == <<processing, turn, timer, handedOff>>
backend  == <<steers, slot, accepting>>
endings  == <<tails, owners, finalizing, pausing>>
storage  == <<snapshot, disk>>
ghosts   == <<handed, dropped>>
vars == <<sends, runtime, turns, backend, endings, kick, shutdown, storage, ghosts, bounds>>

NoSnapshot == [messages |-> {}, marked |-> {}]

Init ==
  /\ entering = 0 /\ cleared = 0 /\ used = 0
  /\ text = [m \in Messages |-> m]
  /\ messages = {} /\ marked = {} /\ queue = {}
  /\ stage = [m \in Messages |-> "none"]
  /\ replays = {} /\ acking = {} /\ acked = {}
  /\ processing = FALSE /\ turn = 0 /\ timer = FALSE /\ handedOff = FALSE
  /\ steers = {} /\ slot = {} /\ accepting = FALSE
  /\ tails = 0 /\ owners = 0 /\ finalizing = FALSE /\ pausing = "no"
  /\ kick = FALSE /\ shutdown = "no"
  /\ snapshot = NoSnapshot /\ disk = NoSnapshot
  /\ handed = [m \in Messages |-> 0] /\ dropped = {}
  /\ bounds = [sends |-> 0, mishaps |-> 0, restarts |-> 0]

(***************************************************************************)
(* Helpers.                                                                *)
(***************************************************************************)
Persisted == snapshot' = [messages |-> messages', marked |-> marked']

PersistedIf(dirty) ==
  snapshot' = IF dirty THEN [messages |-> messages', marked |-> marked'] ELSE snapshot

RecoveredWithDelivered == queue \cup steers

\* recoverUndeliveredSteer: what the backend hands back joins the queue again.
RecoveredQueue == queue \cup (slot \cap steers)

MarksForgottenUnasked == marked \ steers

\* ... and clearProvisionalSteers: what it kept was delivered.
RecoveredMarks == (marked \cup (slot \cap steers)) \ ((steers \ slot) \ queue)

SteersPeekedAt ==
  /\ queue' = RecoveredQueue
  /\ marked' = RecoveredMarks
  /\ steers' = {} /\ slot' = slot /\ accepting' = FALSE

\* recoverPendingSteers; the backend is paused or disposed.
SteersRecovered ==
  /\ queue' = RecoveredQueue
  /\ marked' = RecoveredMarks
  /\ steers' = {} /\ slot' = {} /\ accepting' = FALSE

\* Who else holds turnFinalization can no longer release it.
Released == /\ owners' = 0
            /\ pausing' = IF pausing = "owner" THEN "inert" ELSE pausing

\* onProcessingStopped, to its first await.
StopProcessing ==
  /\ processing' = FALSE /\ timer' = FALSE
  /\ SteersRecovered
  /\ UNCHANGED <<messages, finalizing, pausing, turn, handedOff>>
  /\ PersistedIf(steers # {})
  /\ tails' = tails + 1
  /\ owners' = IF finalizing THEN owners + 1 ELSE owners

AdmissionsOfUsers == entering + cleared + Cardinality({m \in Messages : stage[m] = "saving"} \cup acking)

\* Sends that shutdown waits for.
Admissions == entering + cleared + Cardinality({m \in Messages : stage[m] \in {"replaying", "clearing", "saving"}} \cup acking)

(***************************************************************************)
(* Sends.                                                                  *)
(***************************************************************************)
Send ==
  /\ bounds.sends < MaxSends /\ shutdown = "no"
  /\ bounds' = [bounds EXCEPT !.sends = @ + 1]
  /\ entering' = entering + 1
  /\ UNCHANGED <<cleared, used, text, acking, acked, runtime, turns, backend, endings, kick, shutdown, storage, ghosts>>

\* The messages are loaded: the refusal point.
Admitted ==
  /\ entering > 0
  /\ entering' = entering - 1
  /\ cleared' = IF shutdown = "no" THEN cleared + 1 ELSE cleared
  /\ UNCHANGED <<used, text, acking, acked, runtime, turns, backend, endings, kick, shutdown, storage, ghosts, bounds>>

\* The send of a queued message; what it throws ends in onProcessingStopped.
ReplayAdmitted(m) ==
  /\ stage[m] = "replaying"
  /\ IF shutdown = "no"
     THEN /\ stage' = [stage EXCEPT ![m] = "clearing"]
          /\ UNCHANGED <<messages, marked, queue, turns, backend, endings, snapshot>>
     ELSE /\ stage' = [stage EXCEPT ![m] = "done"]
          /\ StopProcessing
  /\ UNCHANGED <<sends, replays, kick, shutdown, disk, ghosts, bounds>>

\* The branch for a running turn: message m, steered into it or queued.
Joins(m) ==
  /\ messages' = messages \cup {m}
  /\ marked' = marked \cup {m}
  /\ \/ /\ accepting                                \* redirect accepts
        /\ slot' = slot \cup {m} /\ steers' = steers \cup {m}
        /\ UNCHANGED <<accepting, queue>>
     \/ /\ queue' = queue \cup {m}                  \* midStreamBehavior is queue, or not text only
        /\ UNCHANGED backend
  /\ Persisted
  /\ acking' = acking \cup {m}

\* beginTurnFromAdmittedSend, to the first await of the turn's preparation.
BeginTurn(m) ==
  /\ processing' = TRUE /\ turn' = m /\ handedOff' = FALSE
  /\ marked' = marked \ {m}
  /\ UNCHANGED <<messages, queue, tails, timer>>
  /\ PersistedIf(m \in marked)
  /\ stage' = [stage EXCEPT ![m] = "setup"]
  /\ finalizing' = TRUE /\ Released

QueueForRestart(m) ==
  /\ marked' = marked \cup {m} /\ queue' = queue \cup {m}
  /\ UNCHANGED <<messages, processing, turn, handedOff, timer, endings>>
  /\ Persisted
  /\ stage' = [stage EXCEPT ![m] = "done"]

StartTurn(m) == IF shutdown = "no" THEN BeginTurn(m) ELSE QueueForRestart(m)

\* A user's message is put into the transcript.
Commit ==
  /\ cleared > 0 /\ used < MaxMessages
  /\ cleared' = cleared - 1
  /\ used' = used + 1
  /\ IF processing
     THEN /\ Joins(used')
          /\ stage' = [stage EXCEPT ![used'] = "done"]
     ELSE /\ messages' = messages \cup {used'}
          /\ stage' = [stage EXCEPT ![used'] = "saving"]
          /\ UNCHANGED marked
          /\ Persisted
          /\ UNCHANGED <<queue, backend, acking>>
  /\ UNCHANGED <<entering, text, acked, replays, turns, endings, kick, shutdown, disk, ghosts, bounds>>

\* The same point for a queued message: behind a running turn it is put into
\* the transcript a second time, and the first keeps its mark.
ReplayCommits(m) ==
  /\ stage[m] = "clearing"
  /\ IF processing
     THEN /\ used < MaxMessages
          /\ used' = used + 1
          /\ text' = [text EXCEPT ![used'] = text[m]]
          /\ Joins(used')
          /\ stage' = [stage EXCEPT ![m] = "done", ![used'] = "done"]
          /\ UNCHANGED <<processing, turn, handedOff, timer, endings>>
     ELSE /\ StartTurn(m)
          /\ UNCHANGED <<used, text, acking, backend>>
  /\ UNCHANGED <<entering, cleared, acked, replays, kick, shutdown, disk, ghosts, bounds>>

OnDisk(m) == disk = snapshot \/ m \in disk.messages

\* The flush of an idle session's send resolves: it is acknowledged, and its
\* turn begins, whatever began meanwhile.
Saved(m) ==
  /\ stage[m] = "saving" /\ OnDisk(m)
  /\ acked' = acked \cup {m}
  /\ StartTurn(m)
  /\ UNCHANGED <<entering, cleared, used, text, acking, replays, backend, kick, shutdown, disk, ghosts, bounds>>

Acknowledged(m) ==
  /\ m \in acking /\ OnDisk(m)
  /\ acking' = acking \ {m}
  /\ acked' = IF text[m] = m THEN acked \cup {m} ELSE acked
  /\ UNCHANGED <<entering, cleared, used, text, runtime, turns, backend, endings, kick, shutdown, storage, ghosts, bounds>>

\* The persistence queue writes.
Written ==
  /\ disk # snapshot
  /\ disk' = snapshot
  /\ UNCHANGED <<sends, runtime, turns, backend, endings, kick, shutdown, snapshot, ghosts, bounds>>

(***************************************************************************)
(* Turns.                                                                  *)
(***************************************************************************)

\* getOrCreateAgent or another step before the try throws: only a replay's
\* caller does anything about it.
SetupFails(m) ==
  /\ stage[m] \in {"setup", "halted"} /\ bounds.mishaps < MaxMishaps
  /\ bounds' = [bounds EXCEPT !.mishaps = @ + 1]
  /\ stage' = [stage EXCEPT ![m] = "done"]
  /\ dropped' = dropped \cup {m}
  /\ IF m \in replays
     THEN StopProcessing
     ELSE UNCHANGED <<messages, marked, queue, turns, backend, endings, snapshot>>
  /\ UNCHANGED <<sends, replays, kick, shutdown, disk, handed>>

\* The turn is not started: another began meanwhile, or it was stopped.
TurnAbandoned(m) ==
  /\ stage[m] = "halted" \/ (stage[m] = "setup" /\ turn # m)
  /\ stage' = [stage EXCEPT ![m] = "done"]
  /\ dropped' = dropped \cup {m}
  /\ IF turn = m
     THEN StopProcessing
     ELSE UNCHANGED <<messages, marked, queue, turns, backend, endings, snapshot>>
  /\ UNCHANGED <<sends, replays, kick, shutdown, disk, handed, bounds>>

\* agent.chat: steers left over from another turn are handed back.
ChatStarts(m) ==
  /\ stage[m] = "setup" /\ turn = m
  /\ stage' = [stage EXCEPT ![m] = "chatting"]
  /\ handed' = [handed EXCEPT ![m] = @ + 1]
  /\ queue' = RecoveredQueue
  /\ marked' = marked \cup (slot \cap steers)
  /\ steers' = steers \ slot /\ slot' = {} /\ accepting' = TRUE
  /\ UNCHANGED messages
  /\ PersistedIf(slot \cap steers # {})
  /\ UNCHANGED <<sends, replays, turns, endings, kick, shutdown, disk, dropped, bounds>>

\* A tool call of the running turn carries the steers.
Deliver ==
  /\ accepting /\ slot # {}
  /\ handed' = [m \in Messages |-> IF m \in slot THEN handed[m] + 1 ELSE handed[m]]
  /\ slot' = {}
  /\ UNCHANGED <<sends, runtime, turns, steers, accepting, endings, kick, shutdown, storage, dropped, bounds>>

\* The last event of a turn: complete, an abort or an error.  After a stop
\* or a pause a complete is ignored, an abort or an error is not.  An older
\* turn's loop is left at its next event; closing it empties the slot, unless
\* the newer turn has started to use it.
ChatEnds(m) ==
  /\ stage[m] = "chatting"
  /\ stage' = [stage EXCEPT ![m] = "done"]
  /\ \/ turn = m /\ StopProcessing /\ UNCHANGED dropped
     \/ /\ turn # m \/ ~processing
        /\ UNCHANGED <<messages, marked, queue, turns, backend, endings, snapshot, dropped>>
     \/ /\ turn # m /\ stage[turn] # "chatting"
        /\ slot' = {} /\ accepting' = FALSE
        /\ dropped' = dropped \cup slot
        /\ UNCHANGED <<messages, marked, queue, turns, steers, endings, snapshot>>
  /\ UNCHANGED <<sends, replays, kick, shutdown, disk, handed, bounds>>

TakenOnceAnswered == IF acking = {} THEN {m \in queue : \A q \in queue : m <= q} ELSE {}

\* The head of the queue, as a set.
Taken == {m \in queue : \A q \in queue : m <= q}

\* processNextQueuedMessage.
TakeNext ==
  LET next == IF shutdown = "no" THEN Taken ELSE {}
  IN  /\ queue' = queue \ next
      /\ replays' = replays \cup next
      /\ stage' = [m \in Messages |-> IF m \in next THEN "replaying" ELSE stage[m]]
      /\ UNCHANGED <<messages, marked>>

\* onProcessingStopped after its awaits; what it does after the check of an
\* empty queue changes nothing here, and turnFinalization is released.
TailEnds ==
  /\ tails > 0 /\ tails' = tails - 1
  /\ \/ owners > 0 /\ Released /\ finalizing' = FALSE
     \/ owners < tails /\ UNCHANGED <<owners, finalizing, pausing>>
  /\ TakeNext
  /\ Persisted
  /\ UNCHANGED <<sends, turns, backend, kick, shutdown, disk, ghosts, bounds>>

\* The replay that the cold load scheduled.
KickFires ==
  /\ kick /\ kick' = FALSE
  /\ TakeNext
  /\ PersistedIf(queue' # queue)
  /\ UNCHANGED <<sends, turns, backend, endings, shutdown, disk, ghosts, bounds>>

\* completePlanSubmissionHandoff and completeAuthRequestHandoff: the turn
\* stops without onProcessingStopped, and nobody looks at the queue.  The
\* first awaits the browser (one at a time here), the second does not.
Handoff(m) ==
  /\ stage[m] = "chatting" /\ turn = m /\ processing /\ bounds.mishaps < MaxMishaps
  /\ bounds' = [bounds EXCEPT !.mishaps = @ + 1]
  /\ processing' = FALSE /\ handedOff' = TRUE
  /\ SteersRecovered
  /\ UNCHANGED messages
  /\ \/ /\ pausing = "no" /\ pausing' = "owner"
        /\ PersistedIf(steers # {})
        /\ UNCHANGED <<owners, finalizing>>
     \/ /\ finalizing' = FALSE /\ Released
        /\ Persisted
  /\ UNCHANGED <<sends, stage, replays, turn, timer, tails, kick, shutdown, disk, ghosts>>

HandoffEnds ==
  /\ pausing # "no" /\ pausing' = "no"
  /\ IF pausing = "owner" THEN owners' = 0 /\ finalizing' = FALSE ELSE UNCHANGED <<owners, finalizing>>
  /\ UNCHANGED <<messages, marked>>
  /\ Persisted
  /\ UNCHANGED <<sends, queue, stage, replays, turns, backend, tails, kick, shutdown, disk, ghosts, bounds>>

\* What Stop takes out of the transcript and gives back to the input field.
Withdrawn == RecoveredQueue

\* cancelProcessing.
Stop ==
  /\ processing /\ bounds.mishaps < MaxMishaps
  /\ bounds' = [bounds EXCEPT !.mishaps = @ + 1]
  /\ messages' = messages \ Withdrawn
  /\ marked' = RecoveredMarks \ Withdrawn
  /\ queue' = {}
  /\ steers' = {} /\ slot' = {} /\ accepting' = FALSE
  /\ snapshot' = IF steers = {} THEN snapshot ELSE [messages |-> messages, marked |-> RecoveredMarks]
  /\ dropped' = dropped \cup Withdrawn
  /\ stage' = [m \in Messages |-> IF stage[m] = "setup" THEN "halted" ELSE stage[m]]
  /\ timer' = TRUE
  /\ UNCHANGED <<sends, replays, processing, turn, handedOff, endings, kick, shutdown, disk, handed>>

\* Five seconds after Stop: whatever turn runs is given up.
TimerFires ==
  /\ timer
  /\ IF processing
     THEN StopProcessing
     ELSE /\ timer' = FALSE
          /\ UNCHANGED <<messages, marked, queue, processing, turn, handedOff, backend, endings, snapshot>>
  /\ UNCHANGED <<sends, stage, replays, kick, shutdown, disk, ghosts, bounds>>

(***************************************************************************)
(* Shutdown and restart.                                                   *)
(***************************************************************************)

\* flushAllSessions.
ShutdownBegins ==
  /\ shutdown = "no" /\ bounds.restarts < MaxRestarts
  /\ shutdown' = "sends" /\ timer' = FALSE
  /\ UNCHANGED <<sends, runtime, processing, turn, handedOff, backend, endings, kick, storage, ghosts, bounds>>

\* awaitPendingSendAdmissions; then the turns are aborted.
SendsSettled ==
  /\ shutdown = "sends" /\ Admissions = 0
  /\ shutdown' = IF processing \/ finalizing \/ queue # {} THEN "turns" ELSE "saving"
  /\ IF processing
     THEN SteersRecovered /\ UNCHANGED messages /\ PersistedIf(steers # {})
     ELSE UNCHANGED <<messages, marked, queue, backend, snapshot>>
  /\ UNCHANGED <<sends, stage, replays, turns, endings, kick, disk, ghosts, bounds>>

\* stopActiveTurnsForShutdown and persistFinalSessionStates.
TurnsStopped ==
  /\ shutdown = "turns" /\ ~processing /\ ~finalizing
  /\ shutdown' = "saving"
  /\ UNCHANGED <<messages, marked>>
  /\ Persisted
  /\ UNCHANGED <<sends, queue, stage, replays, turns, backend, endings, kick, disk, ghosts, bounds>>

ShutdownEnds ==
  /\ shutdown = "saving" /\ disk = snapshot
  /\ shutdown' = "clean"
  /\ UNCHANGED <<sends, runtime, turns, backend, endings, kick, storage, ghosts, bounds>>

\* A wait of shutdown runs out, which it reports.
ShutdownGivesUp ==
  /\ shutdown \in {"sends", "turns"}
  /\ shutdown' = "unclean"
  /\ UNCHANGED <<sends, runtime, turns, backend, endings, kick, storage, ghosts, bounds>>

\* The process ends, by a shutdown or a crash, and the session is loaded
\* again: recoverOrphanedQueuedMessages queues what is marked.
Restart ==
  /\ bounds.restarts < MaxRestarts
  /\ bounds' = [bounds EXCEPT !.restarts = @ + 1]
  /\ dropped' = dropped \cup {m \in acked : (\E d \in Messages : text[d] = text[m] /\ handed[d] > 0) \/ stage[m] \in {"setup", "halted"}}
                        \cup IF shutdown \in {"no", "clean"} THEN {} ELSE snapshot.marked \ disk.marked
  /\ handed' = [m \in Messages |-> 0]
  /\ entering' = 0 /\ cleared' = 0 /\ acking' = {}
  /\ messages' = disk.messages /\ marked' = disk.marked /\ snapshot' = disk
  /\ queue' = disk.marked /\ kick' = (disk.marked # {})
  /\ stage' = [m \in Messages |-> "none"] /\ replays' = {}
  /\ processing' = FALSE /\ turn' = 0 /\ timer' = FALSE /\ handedOff' = FALSE
  /\ steers' = {} /\ slot' = {} /\ accepting' = FALSE
  /\ tails' = 0 /\ owners' = 0 /\ finalizing' = FALSE /\ pausing' = "no"
  /\ shutdown' = "no"
  /\ UNCHANGED <<used, text, acked, disk>>

Next ==
  \/ Send \/ Admitted \/ Commit \/ Written \/ Deliver \/ TailEnds \/ HandoffEnds \/ KickFires \/ Stop \/ TimerFires
  \/ \E m \in Messages : ReplayAdmitted(m) \/ ReplayCommits(m) \/ Saved(m) \/ Acknowledged(m)
       \/ SetupFails(m) \/ TurnAbandoned(m) \/ ChatStarts(m) \/ ChatEnds(m) \/ Handoff(m)
  \/ ShutdownBegins \/ SendsSettled \/ TurnsStopped \/ ShutdownEnds \/ ShutdownGivesUp \/ Restart

Spec == Init /\ [][Next]_vars

\* What is awaited comes: files are written, agents are set up or their
\* set-up throws, and a turn of the backend ends.  Nobody has to press Stop,
\* restart, or send anything.
FairSpec ==
  /\ Spec
  /\ WF_vars(Admitted) /\ WF_vars(Commit) /\ WF_vars(Written) /\ WF_vars(TailEnds) /\ WF_vars(HandoffEnds)
  /\ WF_vars(KickFires) /\ WF_vars(TimerFires)
  /\ \A m \in Messages :
       WF_vars(ReplayAdmitted(m)) /\ WF_vars(ReplayCommits(m)) /\ WF_vars(Saved(m)) /\ WF_vars(Acknowledged(m))
       /\ WF_vars(TurnAbandoned(m)) /\ WF_vars(ChatStarts(m)) /\ WF_vars(ChatEnds(m))

(***************************************************************************)
(* Properties.                                                             *)
(***************************************************************************)
Snapshots == [messages : SUBSET Messages, marked : SUBSET Messages]

CountsOK ==
  /\ entering \in Nat /\ cleared \in Nat
  /\ handed \in [Messages -> Nat] /\ text \in [Messages -> Messages]
  /\ replays \subseteq Messages /\ acking \subseteq Messages /\ acked \subseteq Messages /\ dropped \subseteq Messages

TranscriptOK ==
  /\ used \in 0 .. MaxMessages
  /\ messages \subseteq 1 .. used /\ marked \subseteq messages /\ queue \subseteq messages
  /\ slot \subseteq steers /\ steers \subseteq messages
  /\ stage \in [Messages -> {"none", "saving", "replaying", "clearing", "setup", "halted", "chatting", "done"}]
  /\ snapshot \in Snapshots /\ disk \in Snapshots

TurnOK ==
  /\ turn \in 0 .. MaxMessages
  /\ processing \in BOOLEAN /\ timer \in BOOLEAN /\ accepting \in BOOLEAN /\ handedOff \in BOOLEAN /\ kick \in BOOLEAN
  /\ tails \in Nat /\ owners \in 0 .. tails
  /\ finalizing \in BOOLEAN /\ pausing \in {"no", "owner", "inert"}
  /\ shutdown \in {"no", "sends", "turns", "saving", "clean", "unclean"}

\* The variables have their types, and what is queued, marked or pending in
\* the backend is in the transcript: Stop takes a message out of all of them.
TurnsTypeOK == CountsOK /\ TranscriptOK /\ TurnOK

Reached(m) == \E d \in Messages : text[d] = text[m] /\ handed[d] > 0

\* A message whose sender was told that it is saved has reached the backend,
\* is carried by a turn in preparation, or is queued on disk, where a restart
\* finds it.  Not so if Stop withdrew it, or its turn, or the turn it was
\* steered into, was superseded, stopped or failed before it began.  A
\* shutdown writes the mark only at its end.
NothingForgotten ==
  \A m \in acked \ dropped :
    \/ Reached(m) \/ stage[m] \in {"setup", "halted"}
    \/ m \in disk.marked
    \/ shutdown \notin {"no", "clean"} /\ m \in snapshot.marked

\* Queued, steered, handed back, replayed, whatever becomes of its turn: the
\* backend gets a message once, and its text once, until a restart, which may
\* replay what was delivered.
HandedOverOnce ==
  \A m \in Messages :
    /\ handed[m] <= 1
    /\ bounds.restarts = 0 => Cardinality({d \in Messages : text[d] = m /\ handed[d] > 0}) <= 1

\* A shutdown that reports no failure leaves no send and no turn under way,
\* and the transcript with its marks is on disk as it is in memory.
CleanShutdown ==
  shutdown = "clean" =>
    /\ ~processing /\ Admissions = 0
    /\ disk = [messages |-> messages, marked |-> marked]

\* A turn that runs in name only: its preparation threw.
Wedged == processing /\ ~timer /\ \A m \in Messages : stage[m] \notin {"setup", "halted", "chatting"}

\* The queue is emptied, unless the process ends, a turn paused for a plan or
\* for authentication, or one is wedged.
QueueIsServed ==
  queue # {} ~> (queue = {} \/ shutdown # "no" \/ handedOff \/ Wedged)
=============================================================================
