--------------------------- MODULE WebhookIngest ---------------------------
(***************************************************************************)
(* Inbound webhooks of one workspace: the receiver, its idempotency store, *)
(* its durable queue, the per-hook rate gate and the dispatcher that hands *)
(* deliveries to the automations                                           *)
(* (packages/shared/src/automations/webhook-ingest/).                      *)
(*                                                                         *)
(* handle() runs without awaiting, so a request is one action.  A delivery *)
(* then runs in the background: process() awaits the dispatcher, whose     *)
(* mutex lets one emit run at a time.  A request is known by its eventId   *)
(* (hook and idempotency key); an acceptance n is the n-th request that    *)
(* was answered 202.                                                       *)
(*                                                                         *)
(* Time is nondeterministic: a backoff elapses, a dedup record reaches its *)
(* TTL, a rate window moves on, whenever it may.  Requests refused before  *)
(* the idempotency check (404, 413) change nothing and are left out.       *)
(***************************************************************************)
EXTENDS Integers, Sequences, FiniteSets, SequencesExt

CONSTANTS
  Events,       \* eventIds providers send
  None,         \* undefined
  RateCap,      \* requests a hook admits in a window (perMinute + burst)
  BusLimit,     \* WEBHOOK_RATE_LIMIT of the workspace's event bus
  MaxAccepts,   \* bound: requests accepted
  MaxProcesses, \* bound: deliveries under way at a time
  MaxFailures,  \* bound: dispatches that fail
  MaxFaults,    \* bound: file writes that fail
  MaxCrashes    \* bound: process crashes

Acceptances == 1 .. MaxAccepts
Line        == [n : Acceptances, waiting : BOOLEAN]  \* waiting: nextAttemptAt is ahead
Process     == [event : Events, n : Acceptances, drain : BOOLEAN]

ASSUME IngestAssumption ==
  /\ None \notin Line
  /\ IsFiniteSet(Events) /\ Events # {}
  /\ {RateCap, BusLimit, MaxAccepts} \subseteq Nat \ {0}
  /\ MaxProcesses \in Nat /\ MaxProcesses >= Cardinality(Events)
  /\ {MaxFailures, MaxFaults, MaxCrashes} \subseteq Nat

VARIABLES
  up,          \* whether the host process runs
  seen,        \* WebhookDedupStore.seen, the unexpired records
  dedupFile,   \* webhooks-dedup.jsonl, the unexpired records
  entries,     \* webhooks-ingest.jsonl: the last entry line of each event
  tombstones,  \* webhooks-ingest.jsonl: events with a tombstone line
  admitted,    \* requests in the hook's sliding window
  busCount,    \* events in the bus's window
  inflight,    \* deliveries under way, in the order of the dispatcher's mutex
  stage,       \* how far the first of them is
  toDrain,     \* deliveries the startup drain has still to process
  \* What happened so far, for the properties.
  accepted,    \* the events of the requests answered 202, oldest first
  fresh,       \* event -> acceptances since its dedup record last expired
  unstored,    \* events recorded as seen whose append to the queue failed
  forgotten,   \* events whose dedup record did not reach the disk
  executions,  \* acceptance -> times the automations ran for it
  succeeded,   \* acceptances whose automations all succeeded
  dropped,     \* acceptances the bus dropped
  redelivered, \* acceptances with a reason to run again
  failures, faults, crashes

file    == <<dedupFile, entries, tombstones>>
memory  == <<up, seen, admitted, busCount, inflight, stage, toDrain>>
answers == <<accepted, fresh, unstored, forgotten>>
outcome == <<executions, succeeded, dropped, redelivered>>
bounds  == <<failures, faults, crashes>>
vars    == <<file, memory, answers, outcome, bounds>>

\* Seeded fault: tombstones are not looked at.
PendingWithTombstone(e) == entries[e] # None

\* listPending: an event is pending unless a tombstone, wherever it is in the file, names it.
Pending(e) == entries[e] # None /\ e \notin tombstones
PendingEvents == {e \in Events : Pending(e)}

\* The deliveries of pending events, in some order, for the timer or the startup drain.
Deliveries(order, drain) ==
  [i \in 1 .. Len(order) |-> [event |-> order[i], n |-> entries[order[i]].n, drain |-> drain]]
Current == Head(inflight)

\* A delivery of this acceptance is under way, or the drain still holds it.
Claimed(n) == \E p \in ToSet(inflight) \cup ToSet(toDrain) : p.n = n

\* A file write that fails; `ok' says whether this one does not.
Writes(ok) == IF ok THEN UNCHANGED faults
                    ELSE faults < MaxFaults /\ faults' = faults + 1

Init ==
  /\ up = FALSE /\ seen = {} /\ dedupFile = {}
  /\ entries = [e \in Events |-> None] /\ tombstones = {}
  /\ admitted = 0 /\ busCount = 0
  /\ inflight = <<>> /\ stage = "waiting" /\ toDrain = <<>>
  /\ accepted = <<>> /\ fresh = [e \in Events |-> 0]
  /\ unstored = {} /\ forgotten = {}
  /\ executions = [n \in Acceptances |-> 0]
  /\ succeeded = {} /\ dropped = {} /\ redelivered = {}
  /\ failures = 0 /\ faults = 0 /\ crashes = 0

-----------------------------------------------------------------------------
(* A request: handle().  Idempotency, then the rate, then record, append,  *)
(* answer; the delivery itself is not awaited.                             *)

Duplicate(e) ==
  /\ up /\ e \in seen
  /\ UNCHANGED vars

OverRate(e) ==
  /\ up /\ e \notin seen /\ admitted >= RateCap

\* Seeded fault: the event is recorded before its rate is checked.
RateLimitedRecorded(e) ==
  /\ OverRate(e) /\ seen' = seen \cup {e} /\ dedupFile' = dedupFile \cup {e}
  /\ UNCHANGED <<entries, tombstones, up, admitted, busCount, inflight, stage, toDrain,
                 answers, outcome, bounds>>

RateLimited(e) == OverRate(e) /\ UNCHANGED vars

\* The request passes the checks and takes a slot of the rate window.
Admits(e) ==
  /\ up /\ e \notin seen /\ admitted < RateCap
  /\ admitted' = admitted + 1

\* WebhookDedupStore.record: its append may fail, which it swallows.
Record(e, ok) ==
  /\ seen' = seen \cup {e}
  /\ dedupFile' = IF ok THEN dedupFile \cup {e} ELSE dedupFile
  /\ forgotten' = IF ok THEN forgotten ELSE forgotten \cup {e}

Accept(e) == \E ok \in BOOLEAN :
  LET n == Len(accepted) + 1 IN
  /\ Admits(e) /\ n <= MaxAccepts /\ Len(inflight) < MaxProcesses
  /\ Record(e, ok) /\ Writes(ok)
  /\ entries' = [entries EXCEPT ![e] = [n |-> n, waiting |-> FALSE]]
  /\ inflight' = Append(inflight, [event |-> e, n |-> n, drain |-> FALSE])
  /\ accepted' = Append(accepted, e)
  /\ fresh' = [fresh EXCEPT ![e] = @ + 1]
  /\ UNCHANGED <<tombstones, up, busCount, stage, toDrain, unstored,
                 outcome, failures, crashes>>

\* The append to the queue throws, after a dedup record that was written or, as
\* on a full disk, was not: the provider gets a 5xx.
AcceptFails(e) == \E ok \in BOOLEAN :
  /\ Admits(e) /\ Record(e, ok) /\ Writes(FALSE)
  /\ unstored' = unstored \cup {e}
  /\ UNCHANGED <<entries, tombstones, up, busCount, inflight, stage, toDrain,
                 accepted, fresh, outcome, failures, crashes>>

-----------------------------------------------------------------------------
(* The dispatcher and the end of process().                                *)

\* The first delivery ends; the drain goes on to its next one unless its await threw.
NextToDrain(goesOn) == goesOn /\ Current.drain /\ toDrain # <<>>

Ends(goesOn) ==
  /\ inflight' = IF NextToDrain(goesOn) THEN Append(Tail(inflight), Head(toDrain))
                                        ELSE Tail(inflight)
  /\ toDrain' = IF NextToDrain(goesOn) THEN Tail(toDrain)
                ELSE IF Current.drain /\ ~goesOn THEN <<>> ELSE toDrain
  /\ stage' = "waiting"

\* The bus admits the event and the automations run.
Perform ==
  /\ inflight # <<>> /\ stage = "waiting" /\ busCount < BusLimit
  /\ stage' = "performed"
  /\ busCount' = busCount + 1
  /\ executions' = [executions EXCEPT ![Current.n] = @ + 1]
  /\ UNCHANGED <<file, up, seen, admitted, inflight, toDrain, answers,
                 succeeded, dropped, redelivered, bounds>>

\* Over its own limit the bus drops the event and emit() returns normally.
BusDrops ==
  /\ inflight # <<>> /\ stage = "waiting" /\ busCount >= BusLimit
  /\ stage' = "dropped"
  /\ dropped' = dropped \cup {Current.n}
  /\ UNCHANGED <<file, up, seen, admitted, busCount, inflight, toDrain, answers,
                 executions, succeeded, redelivered, bounds>>

\* Nothing failed: markComplete appends the tombstone, and swallows an error of its own.
Succeeds == \E ok \in BOOLEAN :
  /\ inflight # <<>> /\ stage \in {"performed", "dropped"}
  /\ Writes(ok)
  /\ tombstones' = IF ok THEN tombstones \cup {Current.event} ELSE tombstones
  /\ succeeded' = IF stage = "performed" THEN succeeded \cup {Current.n} ELSE succeeded
  /\ redelivered' = IF ok THEN redelivered ELSE redelivered \cup {Current.n}
  /\ Ends(TRUE)
  /\ UNCHANGED <<dedupFile, entries, up, seen, admitted, busCount, answers,
                 executions, dropped, failures, crashes>>

\* Seeded fault: markComplete stands in a finally block.
FailsComplete ==
  /\ inflight # <<>> /\ stage \in {"waiting", "performed"}
  /\ failures < MaxFailures /\ failures' = failures + 1
  /\ tombstones' = tombstones \cup {Current.event}
  /\ Ends(TRUE)
  /\ UNCHANGED <<dedupFile, entries, up, seen, admitted, busCount, answers, outcome,
                 faults, crashes>>

\* The dispatch rejects, before or after the automations ran: the entry is appended again with
\* a backoff.  When that append throws, process() rejects and ends the drain that awaits it.
Fails == \E ok \in BOOLEAN :
  /\ inflight # <<>> /\ stage \in {"waiting", "performed"}
  /\ failures < MaxFailures /\ failures' = failures + 1
  /\ Writes(ok)
  /\ entries' = IF ok THEN [entries EXCEPT ![Current.event] = [n |-> Current.n, waiting |-> TRUE]]
                      ELSE entries
  /\ redelivered' = IF stage = "performed" THEN redelivered \cup {Current.n} ELSE redelivered
  /\ Ends(ok)
  /\ UNCHANGED <<dedupFile, tombstones, up, seen, admitted, busCount, answers,
                 executions, succeeded, dropped, crashes>>

Dispatch == Perform \/ BusDrops \/ Succeeds \/ Fails

-----------------------------------------------------------------------------
(* The retry timer, restarts, and time.                                    *)

DueTooEarly == {e \in PendingEvents : entries[e].waiting}   \* seeded fault: > for <=
DueEvents == {e \in PendingEvents : ~entries[e].waiting}

\* startRetryTimer's callback: every due entry is processed, also one already under way.
TimerTick ==
  /\ up /\ DueEvents # {}
  /\ Len(inflight) + Cardinality(DueEvents) <= MaxProcesses
  /\ \E order \in SetToSeqs(DueEvents) : inflight' = inflight \o Deliveries(order, FALSE)
  /\ redelivered' = redelivered \cup
       {n \in {entries[e].n : e \in DueEvents} : Claimed(n)}
  /\ UNCHANGED <<file, up, seen, admitted, busCount, stage, toDrain, answers,
                 executions, succeeded, dropped, bounds>>

BackoffElapses(e) ==
  /\ Pending(e) /\ entries[e].waiting
  /\ entries' = [entries EXCEPT ![e].waiting = FALSE]
  /\ UNCHANGED <<dedupFile, tombstones, memory, answers, outcome, bounds>>

\* 24 hours after it was made, a dedup record no longer counts, in memory or on disk.
DedupExpires(e) ==
  /\ e \in seen \cup dedupFile
  /\ seen' = seen \ {e}
  /\ dedupFile' = dedupFile \ {e}
  /\ fresh' = [fresh EXCEPT ![e] = 0]
  /\ forgotten' = forgotten \ {e}
  /\ UNCHANGED <<entries, tombstones, up, admitted, busCount, inflight, stage, toDrain,
                 accepted, unstored, outcome, bounds>>

\* Seeded fault: a slot is freed in an empty window.
SlotFreesAlways ==
  /\ admitted' = admitted - 1
  /\ UNCHANGED <<file, up, seen, busCount, inflight, stage, toDrain, answers, outcome, bounds>>

\* The oldest request leaves the hook's sliding window.
SlotFrees ==
  /\ admitted > 0
  /\ admitted' = admitted - 1
  /\ UNCHANGED <<file, up, seen, busCount, inflight, stage, toDrain, answers, outcome, bounds>>

BusWindowTurns ==
  /\ busCount > 0
  /\ busCount' = 0
  /\ UNCHANGED <<file, up, seen, admitted, inflight, stage, toDrain, answers, outcome, bounds>>

Crash ==
  /\ up /\ crashes < MaxCrashes
  /\ crashes' = crashes + 1
  /\ up' = FALSE /\ seen' = {} /\ admitted' = 0 /\ busCount' = 0
  /\ inflight' = <<>> /\ stage' = "waiting" /\ toDrain' = <<>>
  /\ redelivered' = redelivered \cup
       {n \in {entries[e].n : e \in PendingEvents} : executions[n] > 0}
  /\ UNCHANGED <<file, answers, executions, succeeded, dropped, failures, faults>>

NothingLoaded == {}   \* seeded fault: the store is not read at startup
\* WebhookDedupStore.load.
LoadedDedup == dedupFile

\* initWebhooks with nothing pending: there is nothing to compact or to drain.
StartEmpty ==
  /\ ~up /\ PendingEvents = {}
  /\ up' = TRUE /\ seen' = LoadedDedup
  /\ UNCHANGED <<file, admitted, busCount, inflight, stage, toDrain, answers, outcome, bounds>>

\* drainPending lists what is pending, compacts the file (a failed rewrite is swallowed) and
\* processes the list one by one, whatever its backoff.
StartDraining ==
  /\ ~up /\ PendingEvents # {}
  /\ up' = TRUE /\ seen' = LoadedDedup
  /\ \E ok \in BOOLEAN :
       /\ Writes(ok)
       /\ entries' = IF ok THEN [e \in Events |-> IF e \in tombstones THEN None ELSE entries[e]]
                           ELSE entries
       /\ tombstones' = IF ok THEN {} ELSE tombstones
  /\ \E order \in SetToSeqs(PendingEvents) :
       /\ inflight' = <<Head(Deliveries(order, TRUE))>>
       /\ toDrain' = Tail(Deliveries(order, TRUE))
  /\ UNCHANGED <<dedupFile, admitted, busCount, stage, answers, outcome, failures, crashes>>

Start == StartEmpty \/ StartDraining

Request(e) == Duplicate(e) \/ RateLimited(e) \/ Accept(e) \/ AcceptFails(e)

Next ==
  \/ \E e \in Events : Request(e) \/ BackoffElapses(e) \/ DedupExpires(e)
  \/ Dispatch \/ TimerTick
  \/ SlotFrees \/ BusWindowTurns
  \/ Crash \/ Start

Spec == Init /\ [][Next]_vars

\* The host is restarted after a crash, its timer keeps firing, backoffs end, and the automations
\* a delivery starts come to an end.
FairSpec ==
  /\ Spec
  /\ WF_vars(Start) /\ WF_vars(TimerTick) /\ WF_vars(Dispatch)
  /\ \A e \in Events : WF_vars(BackoffElapses(e))
-----------------------------------------------------------------------------
(* Properties. *)

\* Every variable has its type.
IngestTypeOK ==
  /\ up \in BOOLEAN /\ seen \subseteq Events /\ dedupFile \subseteq Events
  /\ entries \in [Events -> Line \cup {None}] /\ tombstones \subseteq Events
  /\ admitted \in 0 .. RateCap /\ busCount \in 0 .. BusLimit
  /\ inflight \in Seq(Process) /\ toDrain \in Seq(Process)
  /\ stage \in {"waiting", "performed", "dropped"} /\ (inflight = <<>> => stage = "waiting")
  /\ accepted \in Seq(Events) /\ Len(accepted) <= MaxAccepts /\ fresh \in [Events -> Nat]
  /\ unstored \subseteq Events /\ forgotten \subseteq Events
  /\ executions \in [Acceptances -> Nat] /\ succeeded \subseteq Acceptances
  /\ dropped \subseteq Acceptances /\ redelivered \subseteq Acceptances
  /\ failures \in Nat /\ faults \in Nat /\ crashes \in Nat

\* Automations have run for some acceptance of the event, or the bus has dropped one.
Handled(e) == \E n \in succeeded \cup dropped : accepted[n] = e

\* What a provider was answered 202 for is not lost: until its automations have succeeded, or the
\* bus has dropped it, the queue file lists it as pending, across failures, failed writes,
\* compaction and crashes.
AcceptedIsKept == \A e \in ToSet(accepted) : Pending(e) \/ Handled(e)

\* A provider told {duplicate: true} stops sending: its event has been accepted before, or its
\* one append to the queue had failed.  A request refused for its rate is never such a duplicate.
DuplicateWasStored == \A e \in seen : e \in ToSet(accepted) \/ e \in unstored

\* Until its dedup record expires an event is accepted once, restarts included, unless that
\* record never reached the disk.
AcceptedOncePerTTL == \A e \in Events : fresh[e] <= 1 \/ e \in forgotten

\* The automations run once for an acceptance unless there is a reason to run them again: a
\* failure after some of them ran, a crash or a failed write before the tombstone, or a timer
\* tick while the delivery was still under way.
ExecutesOnce == \A n \in Acceptances : executions[n] > 1 => n \in redelivered

\* Every pending delivery is brought to an end, whatever failed or crashed on the way.
EventuallySettled == \A e \in Events : Pending(e) ~> ~Pending(e)

\* The last acceptance of an event is under way, pending, or handled.  The code breaks this: a
\* tombstone of an earlier acceptance hides the entry of a later one.
LatestAcceptanceIsKept == \A e \in ToSet(accepted) :
  LET n == SelectLastInSeq(accepted, LAMBDA a : a = e)
  IN  n \in succeeded \cup dropped \/ Claimed(n) \/ (Pending(e) /\ entries[e].n = n)

=============================================================================
