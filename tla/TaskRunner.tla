----------------------------- MODULE TaskRunner -----------------------------
(***************************************************************************)
(* One run of a task: a graph of nodes, each a child session, dispatched   *)
(* as their dependencies finish, retried, verified by the orchestrator     *)
(* session and repaired (packages/server-core/src/tasks/TaskRunner.ts).    *)
(*                                                                         *)
(* Handlers run to their first await, and end by scheduling what is ready: *)
(* Scheduled.  Between the awaits of a dispatch, of the check of a node's  *)
(* outcome and of the verdict, other completions arrive, the user pauses,  *)
(* resumes and stops the run, and the process dies; a resume then rebuilds *)
(* the run from its log and the nodes' output files.                       *)
(*                                                                         *)
(* A turn need not report its end: one that pauses for a plan or for an    *)
(* authentication completes without a completion event, and so may one     *)
(* whose session a person deletes.  Such a turn is silent; the run has no  *)
(* timeout, and goes on when a person's message to that session ends in a  *)
(* completion.                                                             *)
(*                                                                         *)
(* An output is known by the attempt that produced it.  The run has an     *)
(* orchestrator and asks it for a verdict; only the run talks to it and to *)
(* the children, which may be interrupted by others.  Which optional       *)
(* decision models are wired is left open, step by step.  Of the log,      *)
(* `disk' keeps what hydrate reads back; attempts are counted there and in *)
(* memory alike.                                                           *)
(***************************************************************************)
EXTENDS Naturals, FiniteSets

CONSTANTS
  Nodes,          \* 1 .. N in the order of the specification
  Deps,           \* edges: node -> the nodes it depends on
  MaxParallel,    \* max_parallel
  RetryLimit,     \* retry.limit of every node
  MaxRepairs,     \* max_iterations, clamped
  MaxReAsks,      \* MAX_UNPARSED_REASKS
  MaxNamed,       \* bound: nodes that a FAIL or the decision model names
  MaxTroubles     \* bound: pauses of the user, restarts, failed writes and turns
                  \* that fall silent; no budget is breached after the last of them

ASSUME TaskAssumption ==
  /\ Nodes \subseteq Nat \ {0} /\ IsFiniteSet(Nodes)
  /\ Deps \in [Nodes -> SUBSET Nodes]
  /\ \A n \in Nodes : \A d \in Deps[n] : d < n      \* the graph has no cycle
  /\ MaxParallel \in Nat \ {0}
  /\ {RetryLimit, MaxRepairs, MaxReAsks, MaxNamed, MaxTroubles} \subseteq Nat

VARIABLES
  status,    \* runStatus, or "down" while the process is
  state,     \* node -> its run state
  attempt,   \* node -> how often it was scheduled
  inFlight,
  stage,     \* node -> how far its dispatch, turn or outcome check is
  prompt,    \* node -> the outputs its last prompt was built from
  outputs,   \* node -> its output in memory, 0 for none
  ask,       \* what is awaited for a verdict
  repairsUsed, unparsedReAsks, lastRepairScoped,
  over,      \* isOverBudget
  disk,      \* the log and the output files
  basis,     \* node -> the outputs its own output was made from (for the properties)
  rejected,  \* node -> its newest output a verdict rejected (for the properties)
  redoLost,  \* whether a crash found the log behind the run (for the properties)
  unwritten, \* whether an output or a verdict could not be written (for the properties)
  troubles

verdicts == <<repairsUsed, unparsedReAsks, lastRepairScoped>>
ghosts   == <<basis, rejected, redoLost, unwritten>>
vars == <<status, state, attempt, inFlight, stage, prompt, outputs, ask, verdicts, over, disk, ghosts, troubles>>

Terminal == {"completed", "failed", "stopped"}

Named == {S \in SUBSET Nodes : Cardinality(S) <= MaxNamed}

\* What parseVerdict makes of a reply; a FAIL may name nodes.
Verdict == [result : {"pass", "unparsed"}, nodes : {{}}] \cup [result : {"fail"}, nodes : Named]

(***************************************************************************)
(* Scheduling.                                                             *)
(***************************************************************************)
Ready(s) == {n \in Nodes : s[n] = "pending" /\ \A d \in Deps[n] : s[d] = "done"}

ChosenOneMore(s, f) == {n \in Ready(s) : Cardinality({m \in Ready(s) : m < n}) + f <= MaxParallel}

\* The ready nodes there are slots for, in the order of the specification.
Chosen(s, f) == {n \in Ready(s) : Cardinality({m \in Ready(s) : m < n}) + f < MaxParallel}

CancelledIsGood(s) == \A n \in Nodes : s[n] \in {"done", "cancelled"}

AllGood(s) == \A n \in Nodes : s[n] = "done"

\* scheduleReady and maybeFinish, of a run whose handler left it with status
\* st, node states s, f of them in flight, stages g and outputs out.
Scheduled(st, s, f, g, out) ==
  LET go   == IF st = "running" /\ ~over' THEN Chosen(s, f) ELSE {}
      left == f + Cardinality(go)
  IN  /\ state' = [n \in Nodes |-> IF n \in go THEN "running" ELSE s[n]]
      /\ attempt' = [n \in Nodes |-> IF n \in go THEN attempt[n] + 1 ELSE attempt[n]]
      /\ stage' = [n \in Nodes |-> IF n \in go THEN "dispatching" ELSE g[n]]
      /\ prompt' = [n \in Nodes |-> IF n \in go THEN [d \in Deps[n] |-> out[d]] ELSE prompt[n]]
      /\ inFlight' = left
      /\ outputs' = out
      /\ status' = IF st = "running" /\ over' /\ Chosen(s, f) # {} THEN "paused"
                   ELSE IF st = "running" /\ left = 0 THEN IF AllGood(s) THEN "verifying" ELSE "failed"
                   ELSE st

Nothing(v) == [n \in Nodes |-> v]

Init ==
  LET go == Chosen(Nothing("pending"), 0)
  IN  /\ state = [n \in Nodes |-> IF n \in go THEN "running" ELSE "pending"]
      /\ attempt = [n \in Nodes |-> IF n \in go THEN 1 ELSE 0]
      /\ stage = [n \in Nodes |-> IF n \in go THEN "dispatching" ELSE "none"]
      /\ inFlight = Cardinality(go)
      /\ status = "running" /\ ask = "none" /\ over = FALSE
      /\ prompt = [n \in Nodes |-> [d \in Deps[n] |-> 0]]
      /\ outputs = Nothing(0)
      /\ repairsUsed = 0 /\ unparsedReAsks = 0 /\ lastRepairScoped = FALSE
      /\ disk = [ended |-> Nothing("none"), output |-> Nothing(0), fails |-> 0, unparsed |-> 0]
      /\ basis = prompt /\ rejected = Nothing(0) /\ redoLost = FALSE /\ unwritten = FALSE
      /\ troubles = 0

\* enterVerifying sends the outputs to the orchestrator.
Asked == ask' = IF status # "verifying" /\ status' = "verifying" THEN "asked" ELSE ask

Logged(n, end) == [disk EXCEPT !.ended[n] = end]

(***************************************************************************)
(* Nodes.                                                                  *)
(***************************************************************************)
Freed(n) == IF state[n] = "running" THEN inFlight - 1 ELSE inFlight

NodeStep == Asked /\ UNCHANGED <<verdicts, rejected, redoLost>>

\* markNodeDone of a run whose status is st.
MarkNodeDone(n, st) ==
  /\ disk' = [Logged(n, "done") EXCEPT !.output[n] = attempt[n]]
  /\ basis' = [basis EXCEPT ![n] = prompt[n]]
  /\ Scheduled(st, [state EXCEPT ![n] = "done"], Freed(n), [stage EXCEPT ![n] = "none"],
               [outputs EXCEPT ![n] = attempt[n]])
  /\ UNCHANGED <<unwritten, troubles>>

\* markNodeDone when the output cannot be written: what it threw is logged.
OutputNotWritten(n, st) ==
  /\ troubles < MaxTroubles
  /\ troubles' = troubles + 1 /\ unwritten' = TRUE
  /\ state' = [state EXCEPT ![n] = "done"]
  /\ outputs' = [outputs EXCEPT ![n] = attempt[n]]
  /\ basis' = [basis EXCEPT ![n] = prompt[n]]
  /\ inFlight' = Freed(n)
  /\ stage' = [stage EXCEPT ![n] = "none"]
  /\ status' = st
  /\ UNCHANGED <<attempt, prompt, disk>>

RetriesWithoutLimit(n) == RetryLimit > 0

RetriesLeft(n) == attempt[n] <= RetryLimit

\* failNode: another attempt while the node has one left.
FailNode(n, st) ==
  LET again == RetriesLeft(n)
  IN  /\ disk' = IF again THEN disk ELSE Logged(n, "failed")
      /\ Scheduled(st, [state EXCEPT ![n] = IF again THEN "pending" ELSE "failed"], Freed(n),
                   [stage EXCEPT ![n] = "none"], outputs)
      /\ UNCHANGED <<basis, unwritten, troubles>>

\* The session is created and logged, and sent its prompt.
TurnStarts(n) ==
  /\ stage[n] = "dispatching"
  /\ stage' = [stage EXCEPT ![n] = "turn"]
  /\ UNCHANGED <<status, state, attempt, inFlight, prompt, outputs, ask, verdicts, over, disk, ghosts, troubles>>

\* createSession, setKanbanColumn or sendMessage rejects, whatever became of
\* the run meanwhile.
DispatchFails(n) ==
  /\ stage[n] = "dispatching"
  /\ UNCHANGED over
  /\ FailNode(n, status)
  /\ NodeStep

\* The turn ends without a completion.
TurnFallsSilent(n) ==
  /\ stage[n] = "turn" /\ state[n] = "running" /\ troubles < MaxTroubles
  /\ stage' = [stage EXCEPT ![n] = "silent"] /\ troubles' = troubles + 1
  /\ UNCHANGED <<status, state, attempt, inFlight, prompt, outputs, ask, verdicts, over, disk, ghosts>>

\* Whether the tokens of a completion make the run stop at once.
StatusOnCompletion == IF over' /\ status = "running" /\ \E n \in Nodes : state[n] = "pending"
                      THEN "paused" ELSE status

\* The completion of a child's turn while its node is running; of a silent
\* one's session, after a person's message to it.
TurnEnds(n) ==
  /\ stage[n] \in {"turn", "silent"} /\ state[n] = "running"
  /\ over' \in IF troubles < MaxTroubles THEN {over, TRUE} ELSE {over}
  /\ \/ MarkNodeDone(n, StatusOnCompletion)
     \/ OutputNotWritten(n, StatusOnCompletion)
     \/ FailNode(n, StatusOnCompletion)        \* an error, or no output though one was declared
     \/ /\ stage' = [stage EXCEPT ![n] = "checking"]
        /\ status' = StatusOnCompletion
        /\ UNCHANGED <<state, attempt, inFlight, prompt, outputs, disk, basis, unwritten, troubles>>
     \/ /\ disk' = Logged(n, "cancelled")
        /\ Scheduled(StatusOnCompletion, [state EXCEPT ![n] = "cancelled"], Freed(n),
                     [stage EXCEPT ![n] = "none"], outputs)
        /\ UNCHANGED <<basis, unwritten, troubles>>
  /\ NodeStep

\* The decision model says how the turn ended.
Checked(n) ==
  /\ stage[n] = "checking" /\ state[n] = "running" /\ status \notin Terminal
  /\ UNCHANGED over
  /\ MarkNodeDone(n, status) \/ OutputNotWritten(n, status) \/ FailNode(n, status)
  /\ NodeStep

\* What arrives for a node that was cancelled by stop is dropped.
Dropped(n) ==
  /\ stage[n] \in {"turn", "silent", "checking"} /\ state[n] # "running"
  /\ stage' = [stage EXCEPT ![n] = "none"]
  /\ UNCHANGED <<status, state, attempt, inFlight, prompt, outputs, ask, verdicts, over, disk, ghosts, troubles>>

(***************************************************************************)
(* The verdict.                                                            *)
(***************************************************************************)

FrontierWithoutDependents(named) == IF named = {} THEN Nodes ELSE named

\* A node and all that depends on it: the least such set.
Dependents ==
  [m \in Nodes |-> {n \in Nodes : \A S \in SUBSET Nodes :
                     m \in S /\ (\A k \in Nodes : Deps[k] \cap S # {} => k \in S) => n \in S}]

\* What a repair runs again: the named nodes and all that depends on them.
Frontier(named) == IF named = {} THEN Nodes ELSE UNION {Dependents[m] : m \in named}

\* repairForVerdict.
Repair(named) ==
  /\ rejected' = [n \in Nodes |-> IF named = {} \/ n \in named THEN outputs[n] ELSE rejected[n]]
  /\ ask' = "none"
  /\ UNCHANGED over
  /\ Scheduled("running", [n \in Nodes |-> IF n \in Frontier(named) /\ state[n] = "done"
                                           THEN "pending" ELSE state[n]],
               inFlight, stage, outputs)

Answered(otherwise) ==
  /\ status' = otherwise
  /\ UNCHANGED <<state, attempt, inFlight, stage, prompt, outputs, over, rejected>>

\* The verdict line that is logged, which hydrate counts.
LoggedVerdict(v) ==
  CASE v.result = "pass" -> [disk EXCEPT !.unparsed = 0]
    [] v.result = "unparsed" -> [disk EXCEPT !.unparsed = @ + 1]
    [] v.result = "fail" -> [disk EXCEPT !.fails = @ + 1]

AskWithoutListener == "none"

\* reAskVerdict listens for the next turn of the orchestrator.
AskAgain == "asked"

\* applyVerdict.
Passed ==
  /\ unparsedReAsks' = 0 /\ ask' = "none"
  /\ Answered("completed")
  /\ UNCHANGED <<repairsUsed, lastRepairScoped>>

Unparsed ==
  /\ IF unparsedReAsks < MaxReAsks
     THEN unparsedReAsks' = unparsedReAsks + 1 /\ ask' = AskAgain /\ Answered("verifying")
     ELSE unparsedReAsks' = unparsedReAsks /\ ask' = "none" /\ Answered("failed")
  /\ UNCHANGED <<repairsUsed, lastRepairScoped>>

CanRepair == repairsUsed < MaxRepairs /\ ~over

Repairs ==
  /\ CanRepair
  /\ repairsUsed' = repairsUsed + 1 /\ lastRepairScoped' = FALSE
  /\ UNCHANGED unparsedReAsks

GivesUp ==
  /\ ~CanRepair
  /\ ask' = "none" /\ Answered("failed")
  /\ UNCHANGED <<repairsUsed, lastRepairScoped, unparsedReAsks>>

\* The decision model is to pick the nodes of a FAIL that names none.
AskedForScope(v) ==
  /\ v = [result |-> "fail", nodes |-> {}] /\ ~lastRepairScoped
  /\ Repairs
  /\ ask' = "scoping" /\ Answered("verifying")
  /\ disk' = LoggedVerdict(v)
  /\ UNCHANGED <<basis, redoLost, unwritten, troubles>>

Applied(v) ==
  /\ disk' = LoggedVerdict(v)
  /\ \/ v.result = "pass" /\ Passed
     \/ v.result = "unparsed" /\ Unparsed
     \/ v.result = "fail" /\ (GivesUp \/ (Repairs /\ Repair(v.nodes)))
  /\ UNCHANGED <<basis, redoLost, unwritten, troubles>>

\* The orchestrator's turn ends, with a reply or without one: the listener
\* reads the newest message there is, which may be an earlier turn's.
VerdictArrives ==
  /\ ask \in {"asked", "silent"} /\ status = "verifying"
  /\ \/ \E v \in Verdict : Applied(v) \/ AskedForScope(v)
     \/ /\ ask' = "classifying"             \* an unparsed reply
        /\ UNCHANGED <<status, state, attempt, inFlight, stage, prompt, outputs, over, disk, ghosts, troubles,
                       repairsUsed, unparsedReAsks, lastRepairScoped>>

\* The orchestrator's turn ends without a completion.
VerdictFallsSilent ==
  /\ ask = "asked" /\ status = "verifying" /\ troubles < MaxTroubles
  /\ ask' = "silent" /\ troubles' = troubles + 1
  /\ UNCHANGED <<status, state, attempt, inFlight, stage, prompt, outputs, verdicts, over, disk, ghosts>>

\* A reply of which the file or the log line cannot be written: what that
\* throws is logged, after the listener was taken off.
VerdictNotWritten ==
  /\ ask \in {"asked", "silent", "classifying"} /\ status = "verifying" /\ troubles < MaxTroubles
  /\ ask' = "none" /\ unwritten' = TRUE /\ troubles' = troubles + 1
  /\ UNCHANGED <<status, state, attempt, inFlight, stage, prompt, outputs, verdicts, over, disk,
                 basis, rejected, redoLost>>

Classified ==
  /\ ask = "classifying" /\ status = "verifying"
  /\ \E v \in Verdict : Applied(v)

\* The model's answer is nodes of the graph, or none at all: then all are redone.
Scoped ==
  /\ ask = "scoping" /\ status = "verifying"
  /\ \E named \in Named : Repair(named) /\ lastRepairScoped' = (named # {})
  /\ UNCHANGED <<repairsUsed, unparsedReAsks, disk, basis, redoLost, unwritten, troubles>>

\* sendMessage to the orchestrator rejects, whatever became of the run.
SendFails ==
  /\ ask = "asked"
  /\ status' = "failed" /\ ask' = "none"
  /\ UNCHANGED <<state, attempt, inFlight, stage, prompt, outputs, verdicts, over, disk, ghosts, troubles>>

(***************************************************************************)
(* Controls, and restarts of the process.                                  *)
(***************************************************************************)
Pause ==
  /\ status = "running" /\ troubles < MaxTroubles
  /\ status' = "paused" /\ troubles' = troubles + 1
  /\ UNCHANGED <<state, attempt, inFlight, stage, prompt, outputs, ask, verdicts, over, disk, ghosts>>

Resume ==
  /\ status = "paused"
  /\ UNCHANGED over
  /\ Scheduled("running", [n \in Nodes |-> IF state[n] = "cancelled" THEN "pending" ELSE state[n]],
               inFlight, stage, outputs)
  /\ Asked
  /\ UNCHANGED <<verdicts, disk, ghosts, troubles>>

Stop ==
  /\ status \notin Terminal \cup {"down"}
  /\ status' = "stopped"
  /\ state' = [n \in Nodes |-> IF state[n] = "running" THEN "cancelled" ELSE state[n]]
  /\ disk' = [disk EXCEPT !.ended = [n \in Nodes |-> IF state[n] = "running" THEN "cancelled" ELSE @[n]]]
  /\ inFlight' = 0
  /\ UNCHANGED <<attempt, stage, prompt, outputs, ask, verdicts, over, ghosts, troubles>>

\* What hydrate makes of the log and the files.
HydratedState == [n \in Nodes |-> IF disk.ended[n] \in {"done", "failed"} THEN disk.ended[n] ELSE "pending"]

HydratedOutput(files) == [n \in Nodes |-> IF disk.ended[n] = "done" THEN files[n] ELSE 0]

\* The output files a crash may leave: one may have been written with its
\* line missing from the log.
FilesLeft ==
  {disk.output} \cup {[disk.output EXCEPT ![n] = attempt[n]] :
                        n \in {m \in Nodes : state[m] = "running" /\ stage[m] # "dispatching"}}

\* The log tells of other outputs than memory in the middle of a repair, and
\* when an output could not be written.
Crash ==
  /\ status # "down" /\ troubles < MaxTroubles
  /\ status' = "down" /\ troubles' = troubles + 1
  /\ redoLost' = (redoLost \/ \E n \in Nodes : "done" \in {state[n], disk.ended[n]}
                                 /\ <<state[n], outputs[n]>> # <<disk.ended[n], disk.output[n]>>)
  /\ \E files \in FilesLeft : disk' = [disk EXCEPT !.output = files] /\ outputs' = HydratedOutput(files)
  /\ state' = HydratedState
  /\ inFlight' = 0 /\ over' = FALSE /\ ask' = "none"
  /\ stage' = Nothing("none")
  /\ repairsUsed' = disk.fails /\ unparsedReAsks' = disk.unparsed /\ lastRepairScoped' = FALSE
  /\ UNCHANGED <<attempt, prompt, basis, rejected, unwritten>>

\* resume of a run that is not in memory; what hydrate reads is Crash's.
Rehydrate ==
  /\ status = "down"
  /\ UNCHANGED over
  /\ Scheduled("running", state, 0, stage, outputs)
  /\ Asked
  /\ UNCHANGED <<verdicts, disk, ghosts, troubles>>

Next ==
  \/ \E n \in Nodes : TurnStarts(n) \/ DispatchFails(n) \/ TurnFallsSilent(n) \/ TurnEnds(n)
                     \/ Checked(n) \/ Dropped(n)
  \/ VerdictArrives \/ VerdictFallsSilent \/ VerdictNotWritten \/ Classified \/ Scoped \/ SendFails
  \/ Pause \/ Resume \/ Stop \/ Crash \/ Rehydrate

Spec == Init /\ [][Next]_vars

\* Children's turns and the orchestrator's that are not silent end in a
\* completion, and the decision models answer or their clients time out; the
\* user owes nothing, not even a message to a silent session.
FairSpec ==
  /\ Spec
  /\ \A n \in Nodes : WF_vars(TurnStarts(n)) /\ WF_vars(stage[n] = "turn" /\ TurnEnds(n)) /\ WF_vars(Checked(n))
  /\ WF_vars(ask = "asked" /\ VerdictArrives) /\ WF_vars(Classified) /\ WF_vars(Scoped)

(***************************************************************************)
(* Properties.                                                             *)
(***************************************************************************)

\* How often a node may be scheduled: its retries count the attempts of
\* repairs and resumes too.
AttemptLimit == 1 + RetryLimit + MaxRepairs + troubles

\* The variables have their types, and a node is dispatched a bounded number
\* of times: once, and again for a retry of its policy, a repair, a resume
\* after a pause and a restart.
TaskTypeOK ==
  /\ status \in {"running", "paused", "verifying", "down"} \cup Terminal
  /\ state \in [Nodes -> {"pending", "running", "done", "failed", "cancelled"}]
  /\ attempt \in [Nodes -> Nat] /\ \A n \in Nodes : attempt[n] <= AttemptLimit
  /\ inFlight \in Nat
  /\ stage \in [Nodes -> {"none", "dispatching", "turn", "silent", "checking"}]
  /\ outputs \in [Nodes -> Nat] /\ \A n \in Nodes : outputs[n] <= attempt[n]
  /\ ask \in {"none", "asked", "silent", "classifying", "scoping"}
  /\ {repairsUsed, unparsedReAsks, troubles} \subseteq Nat
  /\ {lastRepairScoped, over, redoLost, unwritten} \subseteq BOOLEAN
  /\ disk \in [ended : [Nodes -> {"none", "done", "failed", "cancelled"}], output : [Nodes -> Nat],
               fails : Nat, unparsed : Nat]
  /\ rejected \in [Nodes -> Nat]
  /\ \A n \in Nodes : {prompt[n], basis[n]} \subseteq [Deps[n] -> Nat]

RunningNodes == {n \in Nodes : state[n] = "running"}

\* inFlight counts the running nodes and never exceeds max_parallel; each of
\* them has exactly one dispatch, turn or outcome check that can give its
\* slot back, and none else has one; a run that ended has no running node.
SlotsMatchRunning ==
  /\ inFlight = Cardinality(RunningNodes) /\ inFlight <= MaxParallel
  /\ status \in Terminal => RunningNodes = {}
  /\ status \notin Terminal => RunningNodes = {n \in Nodes : stage[n] # "none"}

\* A node that is done was made from the outputs its dependencies have now: a
\* retry, a repair or a resume that replaces an output also runs what used it
\* again.  A restart in the middle of a repair breaks this (redoLost).
InputsCurrent ==
  redoLost \/ \A n \in Nodes : \A d \in Deps[n] :
    /\ state[n] = "done" => basis[n][d] = outputs[d]
    /\ state[n] = "running" => prompt[n][d] = outputs[d]

\* A run completes only with every node done, and with no output the
\* orchestrator rejected: every repair the verdicts asked for was made.
CompletedMeansAccepted ==
  status = "completed" =>
    \A n \in Nodes : state[n] = "done" /\ (redoLost \/ outputs[n] > rejected[n])

\* All that is under way is silent turns: of children, or the orchestrator's.
WaitsForPerson ==
  /\ ask = "silent" \/ \E n \in Nodes : stage[n] = "silent"
  /\ ask \in {"none", "silent"} /\ \A n \in Nodes : stage[n] \in {"none", "silent"}

\* A run that is running or awaits its verdict ends, is paused, or comes to
\* where nothing but silent turns is left for it to wait for, whatever fails or
\* is interrupted, unless the process dies or an output or a verdict could not
\* be written.  When a silent turn's session completes, it is owed again.
RunSettles ==
  status \in {"running", "verifying"} ~>
    (status \in Terminal \cup {"paused", "down"} \/ unwritten \/ WaitsForPerson)
=============================================================================
