--------------------------- MODULE TaskRunnerProofs ---------------------------
(***************************************************************************)
(* The slots of a run, the inputs of its nodes and its verdicts, for every *)
(* graph, every limit and every number of interruptions.                   *)
(***************************************************************************)
EXTENDS TaskRunner, FiniteSetTheorems, TLAPS

Statuses == {"running", "paused", "verifying", "down"} \cup Terminal

NodeStates == {"pending", "running", "done", "failed", "cancelled"}

StageNames == {"none", "dispatching", "turn", "silent", "checking"}

LEMMA Limits ==
  /\ MaxParallel \in Nat /\ MaxParallel > 0 /\ RetryLimit \in Nat /\ MaxRepairs \in Nat
  /\ MaxReAsks \in Nat /\ MaxTroubles \in Nat
  /\ IsFiniteSet(Nodes) /\ Nodes \subseteq Nat
  /\ \A n \in Nodes : Deps[n] \subseteq Nodes
BY TaskAssumption

----------------------------------------------------------------------------
(* Scheduling. *)

\* There are no more nodes chosen than there are slots: a chosen node is
\* known by how many ready ones come before it.
LEMMA ChosenFit ==
  ASSUME NEW s, NEW f \in Nat, f <= MaxParallel
  PROVE  /\ Chosen(s, f) \subseteq Ready(s) /\ Chosen(s, f) \subseteq Nodes
         /\ IsFiniteSet(Chosen(s, f)) /\ Cardinality(Chosen(s, f)) \in Nat
         /\ Cardinality(Chosen(s, f)) + f <= MaxParallel
<1> DEFINE Before(n) == {m \in Ready(s) : m < n}
           rank == [n \in Chosen(s, f) |-> Cardinality(Before(n))]
           ranks == 0 .. MaxParallel - f - 1
<1>1. Chosen(s, f) \subseteq Ready(s) /\ Ready(s) \subseteq Nodes
  BY DEF Chosen, Ready
<1>2. \A n \in Nodes : IsFiniteSet(Before(n)) /\ Cardinality(Before(n)) \in Nat
  <2> TAKE n \in Nodes
  <2>1. IsFiniteSet(Before(n))
    BY <1>1, Limits, FS_Subset
  <2> QED
    BY <2>1, FS_CardinalityType
<1>3. rank \in [Chosen(s, f) -> ranks]
  <2> SUFFICES ASSUME NEW n \in Chosen(s, f) PROVE Cardinality(Before(n)) \in ranks
    OBVIOUS
  <2>1. Cardinality(Before(n)) + f < MaxParallel
    BY DEF Chosen
  <2>2. Cardinality(Before(n)) \in Nat
    BY <1>1, <1>2
  <2> QED
    BY <2>1, <2>2, Limits
<1>4. \A n, m \in Chosen(s, f) : n < m => Cardinality(Before(n)) # Cardinality(Before(m))
  <2> SUFFICES ASSUME NEW n \in Chosen(s, f), NEW m \in Chosen(s, f), n < m,
                      Cardinality(Before(n)) = Cardinality(Before(m))
               PROVE  FALSE
    OBVIOUS
  <2>1. n \in Nat /\ m \in Nat /\ Ready(s) \subseteq Nat
    BY <1>1, Limits
  <2>2. Before(n) \in SUBSET Before(m) /\ n \in Before(m) /\ n \notin Before(n)
    BY <1>1, <2>1
  <2>3. IsFiniteSet(Before(m))
    BY <1>1, <1>2
  <2> QED
    BY <2>2, <2>3, FS_Subset
<1>5. rank \in Injection(Chosen(s, f), ranks)
  <2> SUFFICES ASSUME NEW n \in Chosen(s, f), NEW m \in Chosen(s, f), rank[n] = rank[m]
               PROVE  n = m
    BY <1>3 DEF Injection, IsInjective
  <2>1. n \in Nat /\ m \in Nat
    BY <1>1, Limits
  <2>2. Cardinality(Before(n)) = Cardinality(Before(m))
    OBVIOUS
  <2>3. ~(n < m) /\ ~(m < n)
    BY <1>4, <2>2
  <2> QED
    BY <2>1, <2>3
<1>6. IsFiniteSet(ranks) /\ Cardinality(ranks) = MaxParallel - f
  BY Limits, FS_Interval
<1> HIDE DEF rank, ranks
<1>7. IsFiniteSet(Chosen(s, f)) /\ Cardinality(Chosen(s, f)) <= Cardinality(ranks)
  BY <1>5, <1>6, FS_Injection
<1>8. Cardinality(Chosen(s, f)) \in Nat
  BY <1>7, FS_CardinalityType
<1> QED
  BY <1>1, <1>6, <1>7, <1>8, Limits

\* What the end of a handler dispatches and what becomes of the status.
LEMMA Dispatches ==
  ASSUME NEW st, NEW s, NEW f, NEW g, NEW out, Scheduled(st, s, f, g, out)
  PROVE  \E go \in {{}, Chosen(s, f)} :
           /\ go # {} => st = "running" /\ ~over'
           /\ state' = [n \in Nodes |-> IF n \in go THEN "running" ELSE s[n]]
           /\ attempt' = [n \in Nodes |-> IF n \in go THEN attempt[n] + 1 ELSE attempt[n]]
           /\ stage' = [n \in Nodes |-> IF n \in go THEN "dispatching" ELSE g[n]]
           /\ prompt' = [n \in Nodes |-> IF n \in go THEN [d \in Deps[n] |-> out[d]] ELSE prompt[n]]
           /\ inFlight' = f + Cardinality(go)
           /\ outputs' = out
           /\ \/ status' = st
              \/ st = "running" /\ over' /\ status' = "paused"
              \/ st = "running" /\ inFlight' = 0 /\ status' = "failed"
              \/ st = "running" /\ inFlight' = 0 /\ status' = "verifying" /\ AllGood(s)
<1> DEFINE go == IF st = "running" /\ ~over' THEN Chosen(s, f) ELSE {}
<1>1. go \in {{}, Chosen(s, f)} /\ (go # {} => st = "running" /\ ~over')
  OBVIOUS
<1>2. /\ inFlight' = f + Cardinality(go)
      /\ status' = IF st = "running" /\ over' /\ Chosen(s, f) # {} THEN "paused"
                   ELSE IF st = "running" /\ f + Cardinality(go) = 0
                        THEN IF AllGood(s) THEN "verifying" ELSE "failed"
                   ELSE st
  BY Zenon DEF Scheduled
<1>3. \/ status' = st
      \/ st = "running" /\ over' /\ status' = "paused"
      \/ st = "running" /\ inFlight' = 0 /\ status' = "failed"
      \/ st = "running" /\ inFlight' = 0 /\ status' = "verifying" /\ AllGood(s)
  <2> HIDE DEF go
  <2> QED
    BY <1>2, Zenon
<1>4. /\ state' = [n \in Nodes |-> IF n \in go THEN "running" ELSE s[n]]
      /\ attempt' = [n \in Nodes |-> IF n \in go THEN attempt[n] + 1 ELSE attempt[n]]
      /\ stage' = [n \in Nodes |-> IF n \in go THEN "dispatching" ELSE g[n]]
      /\ prompt' = [n \in Nodes |-> IF n \in go THEN [d \in Deps[n] |-> out[d]] ELSE prompt[n]]
      /\ outputs' = out
  BY Zenon DEF Scheduled
<1> HIDE DEF go
<1> QED
  BY <1>1, <1>2, <1>3, <1>4, Zenon

----------------------------------------------------------------------------
(* The parts of the invariant, as they speak of the run st, s, f, g, out   *)
(* that a handler hands to Scheduled and of the run that comes of it.      *)

Runners(s) == {n \in Nodes : s[n] = "running"}

\* A node is running exactly while something is under way for it, until the
\* run ends; a run that verifies or completed has only finished nodes.
Slots(st, s, f, g) ==
  /\ f = Cardinality(Runners(s)) /\ f <= MaxParallel
  /\ st \in Terminal \cup {"down"} => Runners(s) = {}
  /\ st \notin Terminal => \A n \in Nodes : s[n] = "running" <=> g[n] # "none"
  /\ \A n \in Nodes : g[n] # "none" => s[n] \in {"running", "cancelled"}
  /\ st \in {"verifying", "completed"} => \A n \in Nodes : s[n] = "done" /\ g[n] = "none"

\* What is done or running stands on finished nodes, and on what they gave.
Inputs(s, out, made, given) ==
  \A n \in Nodes : \A d \in Deps[n] :
    /\ s[n] \in {"done", "running"} => s[d] = "done"
    /\ s[n] = "done" => made[n][d] = out[d]
    /\ s[n] = "running" => given[n][d] = out[d]

\* A rejected output is of an attempt before the one that runs or finished.
Judged(s, out, att, rej, lost) ==
  \A n \in Nodes :
    /\ out[n] <= att[n] /\ rej[n] <= att[n]
    /\ s[n] = "running" => rej[n] < att[n]
    /\ s[n] = "done" /\ ~lost => rej[n] < out[n]

\* The attempts that retries, repairs and interruptions explain so far.
Budget(repairs, interruptions) ==
  RetryLimit + interruptions + (IF repairs <= MaxRepairs THEN repairs ELSE MaxRepairs)

\* A node that may be scheduled again has an attempt left.
Spare(st, s, att, limit, o) ==
  \A n \in Nodes :
    /\ att[n] <= 1 + limit
    /\ (s[n] = "pending" \/ st = "paused") /\ ~o => att[n] <= limit

Shape(st, s, f, g, out) ==
  /\ st \in Statuses
  /\ s \in [Nodes -> NodeStates]
  /\ f \in Nat
  /\ g \in [Nodes -> StageNames]
  /\ out \in [Nodes -> Nat]

LEMMA RunnersCount ==
  ASSUME NEW s
  PROVE  /\ IsFiniteSet(Runners(s)) /\ Cardinality(Runners(s)) \in Nat
         /\ Cardinality(Runners(s)) = 0 <=> Runners(s) = {}
<1>1. IsFiniteSet(Runners(s))
  BY Limits, FS_Subset DEF Runners
<1> QED
  BY <1>1, FS_CardinalityType, FS_EmptySet

LEMMA ShapeScheduled ==
  ASSUME NEW st, NEW s, NEW f, NEW g, NEW out, Scheduled(st, s, f, g, out),
         Shape(st, s, f, g, out), f <= MaxParallel,
         attempt \in [Nodes -> Nat], \A n \in Nodes : prompt[n] \in [Deps[n] -> Nat]
  PROVE  /\ Shape(status', state', inFlight', stage', outputs')
         /\ outputs' = out
         /\ attempt' \in [Nodes -> Nat] /\ \A n \in Nodes : attempt[n] <= attempt'[n]
         /\ \A n \in Nodes : prompt'[n] \in [Deps[n] -> Nat]
<1>1. PICK go \in {{}, Chosen(s, f)} :
           /\ state' = [n \in Nodes |-> IF n \in go THEN "running" ELSE s[n]]
           /\ attempt' = [n \in Nodes |-> IF n \in go THEN attempt[n] + 1 ELSE attempt[n]]
           /\ stage' = [n \in Nodes |-> IF n \in go THEN "dispatching" ELSE g[n]]
           /\ prompt' = [n \in Nodes |-> IF n \in go THEN [d \in Deps[n] |-> out[d]] ELSE prompt[n]]
           /\ inFlight' = f + Cardinality(go)
           /\ outputs' = out
           /\ status' \in {st, "paused", "failed", "verifying"}
  BY Dispatches
<1>2. f \in Nat /\ out \in [Nodes -> Nat] /\ st \in Statuses /\ s \in [Nodes -> NodeStates]
      /\ g \in [Nodes -> StageNames]
  BY DEF Shape
<1>3. Cardinality(go) \in Nat
  <2>1. Cardinality(Chosen(s, f)) \in Nat
    BY <1>2, ChosenFit
  <2>2. Cardinality({}) \in Nat
    BY FS_EmptySet
  <2> QED
    BY <2>1, <2>2, Zenon
<1>4. state' \in [Nodes -> NodeStates] /\ stage' \in [Nodes -> StageNames]
  BY <1>1, <1>2 DEF NodeStates, StageNames
<1>5. inFlight' \in Nat /\ outputs' \in [Nodes -> Nat] /\ status' \in Statuses
  BY <1>1, <1>2, <1>3 DEF Statuses, Terminal
<1>6. \A n \in Nodes : prompt'[n] \in [Deps[n] -> Nat]
  <2> SUFFICES ASSUME NEW n \in Nodes PROVE prompt'[n] \in [Deps[n] -> Nat]
    OBVIOUS
  <2>1. [d \in Deps[n] |-> out[d]] \in [Deps[n] -> Nat]
    BY <1>2, Limits
  <2> QED
    BY <1>1, <2>1
<1>7. attempt' \in [Nodes -> Nat] /\ \A n \in Nodes : attempt[n] <= attempt'[n]
  BY <1>1
<1> QED
  BY <1>1, <1>4, <1>5, <1>6, <1>7 DEF Shape

LEMMA SlotsScheduled ==
  ASSUME NEW st, NEW s, NEW f, NEW g, NEW out, Scheduled(st, s, f, g, out),
         Shape(st, s, f, g, out), Slots(st, s, f, g)
  PROVE  Slots(status', state', inFlight', stage')
<1>1. PICK go \in {{}, Chosen(s, f)} :
           /\ go # {} => st = "running"
           /\ state' = [n \in Nodes |-> IF n \in go THEN "running" ELSE s[n]]
           /\ stage' = [n \in Nodes |-> IF n \in go THEN "dispatching" ELSE g[n]]
           /\ inFlight' = f + Cardinality(go)
           /\ \/ status' = st
              \/ st = "running" /\ status' = "paused"
              \/ st = "running" /\ inFlight' = 0 /\ status' = "failed"
              \/ st = "running" /\ inFlight' = 0 /\ status' = "verifying" /\ AllGood(s)
  BY Dispatches
<1>2. f \in Nat /\ f <= MaxParallel /\ f = Cardinality(Runners(s))
  BY DEF Shape, Slots
<1>3. /\ go \subseteq Ready(s) /\ go \subseteq Nodes /\ IsFiniteSet(go) /\ Cardinality(go) \in Nat
      /\ Cardinality(go) + f <= MaxParallel
  BY <1>2, ChosenFit, FS_EmptySet, Limits
<1>4. Runners(state') = Runners(s) \cup go /\ Runners(s) \cap go = {}
  BY <1>1, <1>3 DEF Runners, Ready
<1>5. inFlight' = Cardinality(Runners(state')) /\ inFlight' <= MaxParallel
  <2>1. Cardinality(Runners(s) \cup go) = Cardinality(Runners(s)) + Cardinality(go)
    BY <1>2, <1>3, <1>4, RunnersCount, FS_Union, FS_EmptySet
  <2> QED
    BY <1>1, <1>2, <1>3, <1>4, <2>1, Limits
<1>6. inFlight' = 0 => go = {} /\ Runners(s) = {}
  BY <1>1, <1>2, <1>3, RunnersCount, FS_EmptySet
<1>7. status' \in Terminal \cup {"down"} => Runners(state') = {}
  BY <1>1, <1>4, <1>6 DEF Slots, Terminal
<1>8. \A n \in Nodes : n \in Runners(state') <=> state'[n] = "running"
  BY <1>1 DEF Runners
<1>9. ASSUME status' \notin Terminal, NEW n \in Nodes
      PROVE  state'[n] = "running" <=> stage'[n] # "none"
  BY <1>1, <1>9 DEF Slots, Terminal
<1>10. ASSUME status' \in {"verifying", "completed"}, NEW n \in Nodes
       PROVE  state'[n] = "done" /\ stage'[n] = "none"
  <2>1. CASE status' = st
    BY <1>1, <1>10, <2>1 DEF Slots
  <2>2. CASE st = "running" /\ inFlight' = 0 /\ status' = "verifying" /\ AllGood(s)
    BY <1>1, <1>6, <2>2 DEF Slots, AllGood, Terminal
  <2> QED
    BY <1>1, <1>10, <2>1, <2>2
<1>11. ASSUME NEW n \in Nodes, stage'[n] # "none"
       PROVE  state'[n] \in {"running", "cancelled"}
  BY <1>1, <1>11 DEF Slots
<1> QED
  BY <1>5, <1>7, <1>9, <1>10, <1>11 DEF Slots

LEMMA InputsScheduled ==
  ASSUME NEW st, NEW s, NEW f, NEW g, NEW out, Scheduled(st, s, f, g, out),
         Shape(st, s, f, g, out), f <= MaxParallel,
         NEW made, Inputs(s, out, made, prompt)
  PROVE  Inputs(state', outputs', made, prompt')
<1>1. PICK go \in {{}, Chosen(s, f)} :
           /\ state' = [n \in Nodes |-> IF n \in go THEN "running" ELSE s[n]]
           /\ prompt' = [n \in Nodes |-> IF n \in go THEN [d \in Deps[n] |-> out[d]] ELSE prompt[n]]
           /\ outputs' = out
  BY Dispatches
<1>2. go \subseteq Ready(s)
  BY ChosenFit DEF Shape
<1> SUFFICES ASSUME NEW n \in Nodes, NEW d \in Deps[n]
             PROVE  /\ state'[n] \in {"done", "running"} => state'[d] = "done"
                    /\ state'[n] = "done" => made[n][d] = outputs'[d]
                    /\ state'[n] = "running" => prompt'[n][d] = outputs'[d]
  BY DEF Inputs
<1>3. d \in Nodes
  BY Limits
<1>4. CASE n \in go
  BY <1>1, <1>2, <1>3, <1>4 DEF Ready
<1>5. CASE n \notin go
  <2>1. s[d] = "done" => d \notin go
    BY <1>2 DEF Ready
  <2> QED
    BY <1>1, <1>3, <1>5, <2>1 DEF Inputs
<1> QED
  BY <1>4, <1>5

LEMMA JudgedScheduled ==
  ASSUME NEW st, NEW s, NEW f, NEW g, NEW out, Scheduled(st, s, f, g, out),
         Shape(st, s, f, g, out), f <= MaxParallel, attempt \in [Nodes -> Nat],
         NEW rej \in [Nodes -> Nat], NEW lost, Judged(s, out, attempt, rej, lost)
  PROVE  Judged(state', outputs', attempt', rej, lost)
<1>1. PICK go \in {{}, Chosen(s, f)} :
           /\ state' = [n \in Nodes |-> IF n \in go THEN "running" ELSE s[n]]
           /\ attempt' = [n \in Nodes |-> IF n \in go THEN attempt[n] + 1 ELSE attempt[n]]
           /\ outputs' = out
  BY Dispatches
<1> SUFFICES ASSUME NEW n \in Nodes
             PROVE  /\ outputs'[n] <= attempt'[n] /\ rej[n] <= attempt'[n]
                    /\ state'[n] = "running" => rej[n] < attempt'[n]
                    /\ state'[n] = "done" /\ ~lost => rej[n] < outputs'[n]
  BY DEF Judged
<1>2. out[n] \in Nat /\ rej[n] \in Nat /\ attempt[n] \in Nat
  BY DEF Shape
<1> QED
  BY <1>1, <1>2 DEF Judged

LEMMA SpareScheduled ==
  ASSUME NEW st, NEW s, NEW f, NEW g, NEW out, Scheduled(st, s, f, g, out),
         Shape(st, s, f, g, out), f <= MaxParallel, attempt \in [Nodes -> Nat],
         NEW limit \in Nat, Spare(st, s, attempt, limit, over')
  PROVE  Spare(status', state', attempt', limit, over')
<1>1. PICK go \in {{}, Chosen(s, f)} :
           /\ go # {} => st = "running" /\ ~over'
           /\ state' = [n \in Nodes |-> IF n \in go THEN "running" ELSE s[n]]
           /\ attempt' = [n \in Nodes |-> IF n \in go THEN attempt[n] + 1 ELSE attempt[n]]
           /\ status' = "paused" => over' \/ st = "paused"
  BY Dispatches
<1>2. go \subseteq Ready(s)
  BY ChosenFit DEF Shape
<1> SUFFICES ASSUME NEW n \in Nodes
             PROVE  /\ attempt'[n] <= 1 + limit
                    /\ (state'[n] = "pending" \/ status' = "paused") /\ ~over' => attempt'[n] <= limit
  BY DEF Spare
<1>3. CASE n \in go
  <2>1. s[n] = "pending" /\ ~over' /\ st = "running"
    BY <1>1, <1>2, <1>3 DEF Ready
  <2>2. attempt[n] <= limit /\ attempt'[n] = attempt[n] + 1 /\ attempt[n] \in Nat /\ state'[n] = "running"
    BY <1>1, <1>3, <2>1 DEF Spare
  <2>3. status' # "paused"
    BY <1>1, <2>1
  <2> QED
    BY <2>2, <2>3
<1>4. CASE n \notin go
  BY <1>1, <1>4 DEF Spare
<1> QED
  BY <1>3, <1>4

\* The parts together, of a run whose attempts, prompts, bases, rejected
\* outputs and lost repairs are as given, with the attempts of limit explained.
Sound(st, s, f, g, out, att, given, made, rej, lost, limit, o) ==
  /\ Shape(st, s, f, g, out)
  /\ att \in [Nodes -> Nat] /\ rej \in [Nodes -> Nat] /\ limit \in Nat
  /\ \A n \in Nodes : given[n] \in [Deps[n] -> Nat]
  /\ Slots(st, s, f, g)
  /\ lost \/ Inputs(s, out, made, given)
  /\ Judged(s, out, att, rej, lost)
  /\ Spare(st, s, att, limit, o)

LEMMA SoundScheduled ==
  ASSUME NEW st, NEW s, NEW f, NEW g, NEW out, Scheduled(st, s, f, g, out),
         NEW made, NEW rej, NEW lost, NEW limit,
         Sound(st, s, f, g, out, attempt, prompt, made, rej, lost, limit, over')
  PROVE  /\ Sound(status', state', inFlight', stage', outputs', attempt', prompt', made, rej, lost, limit, over')
         /\ \A n \in Nodes : attempt[n] <= attempt'[n]
<1>1. /\ Shape(st, s, f, g, out) /\ attempt \in [Nodes -> Nat] /\ rej \in [Nodes -> Nat] /\ limit \in Nat
      /\ \A n \in Nodes : prompt[n] \in [Deps[n] -> Nat]
      /\ Slots(st, s, f, g) /\ f <= MaxParallel
  BY DEF Sound, Slots
<1>2. /\ Shape(status', state', inFlight', stage', outputs')
      /\ attempt' \in [Nodes -> Nat] /\ \A n \in Nodes : attempt[n] <= attempt'[n]
      /\ \A n \in Nodes : prompt'[n] \in [Deps[n] -> Nat]
  BY <1>1, ShapeScheduled
<1>3. Slots(status', state', inFlight', stage')
  BY <1>1, SlotsScheduled
<1>4. lost \/ Inputs(state', outputs', made, prompt')
  BY <1>1, InputsScheduled DEF Sound
<1>5. Judged(state', outputs', attempt', rej, lost)
  BY <1>1, JudgedScheduled DEF Sound
<1>6. Spare(status', state', attempt', limit, over')
  BY <1>1, SpareScheduled DEF Sound
<1> QED
  BY <1>1, <1>2, <1>3, <1>4, <1>5, <1>6 DEF Sound

DiskType == [ended : [Nodes -> {"none", "done", "failed", "cancelled"}], output : [Nodes -> Nat],
             fails : Nat, unparsed : Nat]

\* What is not part of a handler's run: the verdict is asked for while the run
\* verifies, the log counts at least the repairs of memory, and a repair that
\* waits for its scope has been granted its attempts.
Rest ==
  /\ ask \in {"none", "asked", "silent", "classifying", "scoping"}
  /\ repairsUsed \in Nat /\ unparsedReAsks \in Nat /\ troubles \in Nat
  /\ lastRepairScoped \in BOOLEAN /\ over \in BOOLEAN /\ redoLost \in BOOLEAN /\ unwritten \in BOOLEAN
  /\ disk \in DiskType
  /\ DOMAIN basis = Nodes /\ \A n \in Nodes : basis[n] \in [Deps[n] -> Nat]
  /\ \A n \in Nodes : disk.output[n] <= attempt[n]
  /\ repairsUsed <= disk.fails
  /\ ask # "none" => status \in {"verifying"} \cup Terminal
  /\ ask = "scoping" /\ status = "verifying" => \A n \in Nodes : attempt[n] <= Budget(repairsUsed, troubles)

SoundNow == Sound(status, state, inFlight, stage, outputs, attempt, prompt, basis, rejected, redoLost,
                  Budget(repairsUsed, troubles), over)

TaskInv == SoundNow /\ Rest

LEMMA BudgetGrows ==
  ASSUME NEW r \in Nat, NEW t \in Nat
  PROVE  /\ Budget(r, t) \in Nat /\ RetryLimit <= Budget(r, t)
         /\ \A r2, t2 \in Nat : r <= r2 /\ t <= t2 => Budget(r, t) <= Budget(r2, t2)
         /\ \A r2 \in Nat : r <= r2 => 1 + Budget(r, t) <= Budget(r2, t + 1)
         /\ r < MaxRepairs => 1 + Budget(r, t) <= Budget(r + 1, t)
         /\ Budget(r, t) <= RetryLimit + MaxRepairs + t
BY Limits DEF Budget

LEMMA SlotsInit == Init => SoundNow
<1> SUFFICES ASSUME Init PROVE SoundNow
  OBVIOUS
<1> DEFINE s == Nothing("pending")
           go == Chosen(s, 0)
           none == [n \in Nodes |-> [d \in Deps[n] |-> 0]]
<1>1. go \subseteq Ready(s) /\ go \subseteq Nodes /\ IsFiniteSet(go) /\ Cardinality(go) \in Nat
      /\ Cardinality(go) + 0 <= MaxParallel
  BY Limits, ChosenFit
<1>2. /\ state = [n \in Nodes |-> IF n \in go THEN "running" ELSE "pending"]
      /\ attempt = [n \in Nodes |-> IF n \in go THEN 1 ELSE 0]
      /\ stage = [n \in Nodes |-> IF n \in go THEN "dispatching" ELSE "none"]
      /\ inFlight = Cardinality(go)
      /\ status = "running" /\ over = FALSE
      /\ prompt = none /\ basis = none
      /\ outputs = Nothing(0) /\ rejected = Nothing(0)
      /\ repairsUsed = 0 /\ troubles = 0
  BY DEF Init
<1>3. \A n \in go : Deps[n] = {}
  BY <1>1, Limits DEF Ready, Nothing
<1> HIDE DEF s, go
<1>4. Shape(status, state, inFlight, stage, outputs)
  BY <1>1, <1>2 DEF Shape, Statuses, NodeStates, StageNames, Nothing
<1>5. attempt \in [Nodes -> Nat] /\ rejected \in [Nodes -> Nat] /\ Budget(repairsUsed, troubles) \in Nat
  BY <1>2, BudgetGrows DEF Nothing
<1>6. \A n \in Nodes : prompt[n] \in [Deps[n] -> Nat]
  BY <1>2
<1>7. Slots(status, state, inFlight, stage)
  <2>1. Runners(state) = go
    BY <1>1, <1>2 DEF Runners
  <2> QED
    BY <1>1, <1>2, <2>1 DEF Slots, Terminal
<1>8. Inputs(state, outputs, basis, prompt)
  BY <1>2, <1>3 DEF Inputs, Nothing
<1>9. Judged(state, outputs, attempt, rejected, redoLost)
  BY <1>2 DEF Judged, Nothing
<1>10. Spare(status, state, attempt, Budget(repairsUsed, troubles), over)
  BY <1>2, <1>5 DEF Spare
<1> QED
  BY <1>4, <1>5, <1>6, <1>7, <1>8, <1>9, <1>10 DEF SoundNow, Sound

LEMMA TaskInit == Init => TaskInv
<1> SUFFICES ASSUME Init PROVE TaskInv
  OBVIOUS
<1>1. SoundNow
  BY SlotsInit
<1>2. attempt \in [Nodes -> Nat]
  BY <1>1 DEF SoundNow, Sound
<1>3. disk = [ended |-> Nothing("none"), output |-> Nothing(0), fails |-> 0, unparsed |-> 0]
      /\ basis = [n \in Nodes |-> [d \in Deps[n] |-> 0]] /\ repairsUsed = 0 /\ unparsedReAsks = 0 /\ troubles = 0
      /\ ask = "none" /\ over = FALSE /\ redoLost = FALSE /\ unwritten = FALSE /\ lastRepairScoped = FALSE
  BY DEF Init
<1>4. disk \in DiskType
  BY <1>3 DEF DiskType, Nothing
<1>5. repairsUsed <= disk.fails /\ \A n \in Nodes : disk.output[n] <= attempt[n]
  BY <1>2, <1>3 DEF Nothing
<1>6. DOMAIN basis = Nodes /\ \A n \in Nodes : basis[n] \in [Deps[n] -> Nat]
  BY <1>3
<1>7. Rest
  BY <1>3, <1>4, <1>5, <1>6 DEF Rest
<1> QED
  BY <1>1, <1>7 DEF TaskInv

----------------------------------------------------------------------------
(* A node whose dispatch, turn or check ends. *)

LEMMA SpareGrows ==
  ASSUME NEW st, NEW s, NEW att \in [Nodes -> Nat], NEW limit \in Nat, NEW o, Spare(st, s, att, limit, o),
         NEW st2, NEW limit2 \in Nat, limit <= limit2, NEW o2, o => o2,
         st2 = "paused" => st = "paused" \/ o2
  PROVE  Spare(st2, s, att, limit2, o2)
BY DEF Spare

\* A node under way belongs to a run that is neither verifying nor completed,
\* and is running until the run ends.
LEMMA Underway ==
  ASSUME TaskInv, NEW n \in Nodes, stage[n] # "none"
  PROVE  /\ status \notin {"verifying", "completed"}
         /\ state[n] \in {"running", "cancelled"}
         /\ status \notin Terminal => state[n] = "running"
         /\ status \notin Terminal => ask = "none"
         /\ ask # "none" => status \in Terminal
BY DEF TaskInv, SoundNow, Sound, Slots, Rest

\* The node's slot is given back, if it was not before.
LEMMA SlotFreed ==
  ASSUME TaskInv, NEW n \in Nodes, stage[n] # "none",
         NEW st, st = status \/ (status = "running" /\ st = "paused"),
         NEW e \in NodeStates \ {"running"}
  PROVE  /\ Slots(st, [state EXCEPT ![n] = e], Freed(n), [stage EXCEPT ![n] = "none"])
         /\ Freed(n) \in Nat
<1> DEFINE s == [state EXCEPT ![n] = e]
           g == [stage EXCEPT ![n] = "none"]
<1>1. /\ state \in [Nodes -> NodeStates] /\ stage \in [Nodes -> StageNames] /\ inFlight \in Nat
      /\ Slots(status, state, inFlight, stage)
  BY DEF TaskInv, SoundNow, Sound, Shape
<1>2. status \notin {"verifying", "completed"} /\ st \notin {"verifying", "completed"}
  BY Underway
<1>3. Runners(s) = Runners(state) \ {n} /\ (n \in Runners(state) <=> state[n] = "running")
  BY <1>1 DEF Runners
<1>4. /\ IsFiniteSet(Runners(state)) /\ Cardinality(Runners(state)) \in Nat
      /\ Cardinality(Runners(s)) \in Nat
      /\ Cardinality(Runners(state) \ {n}) = IF n \in Runners(state) THEN Cardinality(Runners(state)) - 1
                                             ELSE Cardinality(Runners(state))
  BY RunnersCount, FS_RemoveElement
<1>5. inFlight = Cardinality(Runners(state)) /\ inFlight <= MaxParallel
  BY <1>1 DEF Slots
<1>6. Freed(n) = Cardinality(Runners(s)) /\ Freed(n) <= MaxParallel /\ Freed(n) \in Nat
  <2>1. CASE state[n] = "running"
    <3>1. Freed(n) = inFlight - 1 /\ Cardinality(Runners(s)) = Cardinality(Runners(state)) - 1
      BY <1>3, <1>4, <2>1 DEF Freed
    <3> HIDE DEF s
    <3> QED
      BY <1>4, <1>5, <3>1, Limits
  <2>2. CASE state[n] # "running"
    <3>1. Freed(n) = inFlight /\ Cardinality(Runners(s)) = Cardinality(Runners(state))
      BY <1>3, <1>4, <2>2 DEF Freed
    <3> HIDE DEF s
    <3> QED
      BY <1>1, <1>5, <3>1
  <2> QED
    BY <2>1, <2>2
<1>7. st \in Terminal \cup {"down"} => Runners(s) = {}
  BY <1>1, <1>3 DEF Slots, Terminal
<1>8. ASSUME NEW m \in Nodes
      PROVE  /\ st \notin Terminal => (s[m] = "running" <=> g[m] # "none")
             /\ g[m] # "none" => s[m] \in {"running", "cancelled"}
  <2>1. CASE m = n
    BY <1>1, <2>1
  <2>2. CASE m # n
    BY <1>1, <2>2 DEF Slots, Terminal
  <2> QED
    BY <2>1, <2>2
<1> HIDE DEF s, g
<1>9. Slots(st, s, Freed(n), g)
  BY <1>2, <1>6, <1>7, <1>8 DEF Slots
<1> QED
  BY <1>6, <1>9 DEF s, g

\* It goes without an output, back to pending only while a retry is left.
LEMMA NodeLeaves ==
  ASSUME TaskInv, NEW n \in Nodes, stage[n] # "none", over' \in {over, TRUE},
         NEW st, st = status \/ (status = "running" /\ st = "paused" /\ over'),
         NEW e \in {"pending", "failed", "cancelled"}, e = "pending" => RetriesLeft(n)
  PROVE  Sound(st, [state EXCEPT ![n] = e], Freed(n), [stage EXCEPT ![n] = "none"], outputs, attempt, prompt,
               basis, rejected, redoLost, Budget(repairsUsed, troubles), over')
<1> DEFINE s == [state EXCEPT ![n] = e]
           g == [stage EXCEPT ![n] = "none"]
           limit == Budget(repairsUsed, troubles)
<1>1. /\ Shape(status, state, inFlight, stage, outputs) /\ attempt \in [Nodes -> Nat]
      /\ rejected \in [Nodes -> Nat] /\ limit \in Nat /\ RetryLimit <= limit /\ over \in BOOLEAN
      /\ \A m \in Nodes : prompt[m] \in [Deps[m] -> Nat]
  BY BudgetGrows DEF TaskInv, SoundNow, Sound, Rest
<1>2. state \in [Nodes -> NodeStates] /\ stage \in [Nodes -> StageNames] /\ outputs \in [Nodes -> Nat]
      /\ status \in Statuses
  BY <1>1 DEF Shape
<1>3. state[n] # "done" /\ e # "running" /\ e # "done" /\ e \in NodeStates
  BY Underway DEF NodeStates
<1>4. Slots(st, s, Freed(n), g) /\ Freed(n) \in Nat
  BY <1>3, SlotFreed
<1>5. Shape(st, s, Freed(n), g, outputs)
  BY <1>2, <1>3, <1>4 DEF Shape, Statuses, StageNames
<1>6. redoLost \/ Inputs(s, outputs, basis, prompt)
  <2> SUFFICES ASSUME Inputs(state, outputs, basis, prompt) PROVE Inputs(s, outputs, basis, prompt)
    BY DEF TaskInv, SoundNow, Sound
  <2> QED
    BY <1>2, <1>3, Limits DEF Inputs
<1>7. Judged(s, outputs, attempt, rejected, redoLost)
  <2>1. Judged(state, outputs, attempt, rejected, redoLost)
    BY DEF TaskInv, SoundNow, Sound
  <2> QED
    BY <1>2, <1>3, <2>1 DEF Judged
<1>8. Spare(st, s, attempt, limit, over')
  <2>1. Spare(status, state, attempt, limit, over)
    BY DEF TaskInv, SoundNow, Sound
  <2>2. e = "pending" => attempt[n] <= limit
    BY <1>1, Limits DEF RetriesLeft
  <2>3. over => over'
    OBVIOUS
  <2> HIDE DEF limit
  <2>4. ASSUME NEW m \in Nodes
        PROVE  /\ attempt[m] <= 1 + limit
               /\ (s[m] = "pending" \/ st = "paused") /\ ~over' => attempt[m] <= limit
    <3>1. s[m] = IF m = n THEN e ELSE state[m]
      BY <1>2
    <3>2. /\ attempt[m] <= 1 + limit
          /\ (state[m] = "pending" \/ status = "paused") /\ ~over => attempt[m] <= limit
      BY <2>1 DEF Spare
    <3> QED
      BY <2>2, <2>3, <3>1, <3>2
  <2> QED
    BY <2>4 DEF Spare
<1> HIDE DEF s, g, limit
<1>9. Sound(st, s, Freed(n), g, outputs, attempt, prompt, basis, rejected, redoLost, limit, over')
  BY <1>1, <1>4, <1>5, <1>6, <1>7, <1>8 DEF Sound
<1> QED
  BY <1>9 DEF s, g, limit

\* It finishes with an output of its newest attempt.
LEMMA NodeFinishes ==
  ASSUME TaskInv, NEW n \in Nodes, stage[n] # "none", state[n] = "running", over' \in {over, TRUE},
         NEW st, st = status \/ (status = "running" /\ st = "paused" /\ over'),
         NEW limit \in Nat, Budget(repairsUsed, troubles) <= limit
  PROVE  Sound(st, [state EXCEPT ![n] = "done"], Freed(n), [stage EXCEPT ![n] = "none"],
               [outputs EXCEPT ![n] = attempt[n]], attempt, prompt, [basis EXCEPT ![n] = prompt[n]],
               rejected, redoLost, limit, over')
<1> DEFINE s == [state EXCEPT ![n] = "done"]
           g == [stage EXCEPT ![n] = "none"]
           out == [outputs EXCEPT ![n] = attempt[n]]
           made == [basis EXCEPT ![n] = prompt[n]]
<1>1. /\ Shape(status, state, inFlight, stage, outputs) /\ attempt \in [Nodes -> Nat]
      /\ rejected \in [Nodes -> Nat] /\ Budget(repairsUsed, troubles) \in Nat
      /\ over \in BOOLEAN
      /\ \A m \in Nodes : prompt[m] \in [Deps[m] -> Nat]
  BY BudgetGrows DEF TaskInv, SoundNow, Sound, Rest
<1>2. state \in [Nodes -> NodeStates] /\ stage \in [Nodes -> StageNames] /\ outputs \in [Nodes -> Nat]
      /\ status \in Statuses /\ DOMAIN basis = Nodes
  BY <1>1 DEF Shape, TaskInv, Rest
<1>3. Slots(st, s, Freed(n), g) /\ Freed(n) \in Nat
  BY SlotFreed DEF NodeStates
<1>4. Shape(st, s, Freed(n), g, out)
  BY <1>1, <1>2, <1>3 DEF Shape, Statuses, StageNames, NodeStates
<1>5. redoLost \/ Inputs(s, out, made, prompt)
  <2> SUFFICES ASSUME Inputs(state, outputs, basis, prompt), NEW m \in Nodes, NEW d \in Deps[m]
               PROVE  /\ s[m] \in {"done", "running"} => s[d] = "done"
                      /\ s[m] = "done" => made[m][d] = out[d]
                      /\ s[m] = "running" => prompt[m][d] = out[d]
    BY DEF TaskInv, SoundNow, Sound, Inputs
  <2>1. d \in Nodes /\ d # m
    BY Limits, TaskAssumption
  <2>2. /\ s[m] = (IF m = n THEN "done" ELSE state[m]) /\ s[d] = (IF d = n THEN "done" ELSE state[d])
        /\ out[d] = (IF d = n THEN attempt[n] ELSE outputs[d])
        /\ made[m] = (IF m = n THEN prompt[n] ELSE basis[m])
    BY <1>2, <2>1
  <2>3. /\ state[m] \in {"done", "running"} => state[d] = "done"
        /\ state[m] = "done" => basis[m][d] = outputs[d]
        /\ state[m] = "running" => prompt[m][d] = outputs[d]
    BY DEF Inputs
  <2> HIDE DEF s, out, made
  <2>4. CASE m = n
    BY <2>1, <2>2, <2>3, <2>4
  <2>5. CASE m # n
    BY <2>1, <2>2, <2>3, <2>5
  <2> QED
    BY <2>4, <2>5
<1>6. Judged(s, out, attempt, rejected, redoLost)
  <2>1. Judged(state, outputs, attempt, rejected, redoLost)
    BY DEF TaskInv, SoundNow, Sound
  <2> QED
    BY <1>1, <1>2, <2>1 DEF Judged
<1>7. Spare(st, s, attempt, limit, over')
  <2>1. Spare(status, state, attempt, Budget(repairsUsed, troubles), over)
    BY DEF TaskInv, SoundNow, Sound
  <2>2. over => over'
    OBVIOUS
  <2>3. Spare(st, state, attempt, limit, over')
    BY <1>1, <2>1, <2>2, SpareGrows
  <2> QED
    BY <1>2, <2>3 DEF Spare
<1> HIDE DEF s, g, out, made
<1>8. Sound(st, s, Freed(n), g, out, attempt, prompt, made, rejected, redoLost, limit, over')
  BY <1>1, <1>3, <1>4, <1>5, <1>6, <1>7 DEF Sound
<1> QED
  BY <1>8 DEF s, g, out, made

\* The rest of the state in such a step.
LEMMA RestOfNodeStep ==
  ASSUME TaskInv, NodeStep, NEW n \in Nodes, stage[n] # "none", over' \in {over, TRUE},
         status \in Terminal => status' = status,
         attempt' \in [Nodes -> Nat], \A m \in Nodes : attempt[m] <= attempt'[m],
         unwritten' \in BOOLEAN, troubles' \in Nat,
         basis' \in {basis, [basis EXCEPT ![n] = prompt[n]]},
         disk' = disk \/ (\E end \in {"done", "failed", "cancelled"} :
            disk' \in {Logged(n, end), [Logged(n, end) EXCEPT !.output[n] = attempt[n]]})
  PROVE  Rest'
<1>1. /\ attempt \in [Nodes -> Nat] /\ \A m \in Nodes : prompt[m] \in [Deps[m] -> Nat]
  BY DEF TaskInv, SoundNow, Sound
<1>2. /\ ask \in {"none", "asked", "silent", "classifying", "scoping"}
      /\ disk \in DiskType /\ repairsUsed <= disk.fails
      /\ DOMAIN basis = Nodes /\ \A m \in Nodes : basis[m] \in [Deps[m] -> Nat]
      /\ \A m \in Nodes : disk.output[m] <= attempt[m]
  BY DEF TaskInv, Rest
<1>3. /\ disk.ended \in [Nodes -> {"none", "done", "failed", "cancelled"}]
      /\ disk.output \in [Nodes -> Nat] /\ disk.fails \in Nat /\ disk.unparsed \in Nat
      /\ disk = [ended |-> disk.ended, output |-> disk.output, fails |-> disk.fails, unparsed |-> disk.unparsed]
  BY <1>2 DEF DiskType
<1>4. ASSUME NEW end \in {"done", "failed", "cancelled"}
      PROVE  /\ Logged(n, end) = [ended |-> [disk.ended EXCEPT ![n] = end], output |-> disk.output,
                                  fails |-> disk.fails, unparsed |-> disk.unparsed]
             /\ [Logged(n, end) EXCEPT !.output[n] = attempt[n]]
                  = [ended |-> [disk.ended EXCEPT ![n] = end], output |-> [disk.output EXCEPT ![n] = attempt[n]],
                     fails |-> disk.fails, unparsed |-> disk.unparsed]
             /\ [disk.ended EXCEPT ![n] = end] \in [Nodes -> {"none", "done", "failed", "cancelled"}]
             /\ [disk.output EXCEPT ![n] = attempt[n]] \in [Nodes -> Nat]
  <2> DEFINE ended == [disk.ended EXCEPT ![n] = end]
             output == [disk.output EXCEPT ![n] = attempt[n]]
             one == Logged(n, end)
  <2>1. /\ ended \in [Nodes -> {"none", "done", "failed", "cancelled"}]
        /\ output \in [Nodes -> Nat]
    BY <1>1, <1>3
  <2>2. one = [disk EXCEPT !.ended = ended]
    BY DEF Logged
  <2> HIDE DEF ended
  <2>3. one = [ended |-> ended, output |-> disk.output, fails |-> disk.fails, unparsed |-> disk.unparsed]
    BY <1>3, <2>2
  <2>4. [one EXCEPT !.output[n] = attempt[n]] = [one EXCEPT !.output = [one.output EXCEPT ![n] = attempt[n]]]
    OBVIOUS
  <2>5. [one.output EXCEPT ![n] = attempt[n]] = output
    BY <2>3
  <2> HIDE DEF output, one
  <2>6. [one EXCEPT !.output[n] = attempt[n]]
          = [ended |-> ended, output |-> output, fails |-> disk.fails, unparsed |-> disk.unparsed]
    BY <2>3, <2>4, <2>5
  <2> QED
    BY <2>1, <2>3, <2>6 DEF ended, output, one
<1> DEFINE Kept == /\ disk' \in DiskType /\ disk'.fails = disk.fails
                   /\ \A m \in Nodes : disk'.output[m] \in {disk.output[m], attempt[m]}
<1>5. Kept
  <2>1. CASE disk' = disk
    BY <1>2, <2>1
  <2>2. ASSUME NEW end \in {"done", "failed", "cancelled"}, disk' = Logged(n, end)
        PROVE  Kept
    BY <1>3, <1>4, <2>2 DEF DiskType
  <2>3. ASSUME NEW end \in {"done", "failed", "cancelled"},
               disk' = [Logged(n, end) EXCEPT !.output[n] = attempt[n]]
        PROVE  Kept
    <3> DEFINE output == [disk.output EXCEPT ![n] = attempt[n]]
               ended == [disk.ended EXCEPT ![n] = end]
    <3>1. /\ disk' = [ended |-> ended, output |-> output, fails |-> disk.fails, unparsed |-> disk.unparsed]
          /\ ended \in [Nodes -> {"none", "done", "failed", "cancelled"}] /\ output \in [Nodes -> Nat]
      BY <1>4, <2>3
    <3>2. \A m \in Nodes : output[m] \in {disk.output[m], attempt[m]}
      BY <1>1, <1>3
    <3> HIDE DEF ended, output
    <3> QED
      BY <1>3, <3>1, <3>2 DEF DiskType
  <2> QED
    BY <2>1, <2>2, <2>3
<1>6. \A m \in Nodes : disk'.output[m] <= attempt'[m]
  BY <1>1, <1>2, <1>3, <1>5
<1>7. DOMAIN basis' = Nodes /\ \A m \in Nodes : basis'[m] \in [Deps[m] -> Nat]
  BY <1>1, <1>2
<1>8. /\ ask' \in {"none", "asked", "silent", "classifying", "scoping"}
      /\ ask' # "none" => status' \in {"verifying"} \cup Terminal
      /\ ~(ask' = "scoping" /\ status' = "verifying")
  BY <1>2, Underway DEF NodeStep, Asked, Terminal
<1>9. over' \in BOOLEAN
  BY DEF TaskInv, Rest
<1> QED
  BY <1>2, <1>3, <1>5, <1>6, <1>7, <1>8, <1>9 DEF Rest, NodeStep, verdicts, TaskInv

LEMMA StatusScheduled ==
  ASSUME NEW st, NEW s, NEW f, NEW g, NEW out, Scheduled(st, s, f, g, out), st # "running"
  PROVE  status' = st
BY Dispatches

LEMMA NodeDoneKeeps ==
  ASSUME TaskInv, NodeStep, NEW n \in Nodes, stage[n] # "none", state[n] = "running", over' \in {over, TRUE},
         NEW st, st = status \/ (status = "running" /\ st = "paused" /\ over'),
         MarkNodeDone(n, st)
  PROVE  TaskInv'
<1> DEFINE s == [state EXCEPT ![n] = "done"]
           g == [stage EXCEPT ![n] = "none"]
           out == [outputs EXCEPT ![n] = attempt[n]]
           made == [basis EXCEPT ![n] = prompt[n]]
           limit == Budget(repairsUsed, troubles)
<1>1. /\ Scheduled(st, s, Freed(n), g, out) /\ basis' = made /\ UNCHANGED <<unwritten, troubles>>
      /\ disk' = [Logged(n, "done") EXCEPT !.output[n] = attempt[n]]
  BY DEF MarkNodeDone
<1>2. limit \in Nat /\ Budget(repairsUsed, troubles) <= limit
  <2>1. limit \in Nat
    BY BudgetGrows DEF TaskInv, Rest
  <2>2. limit = Budget(repairsUsed, troubles)
    OBVIOUS
  <2> HIDE DEF limit
  <2> QED
    BY <2>1, <2>2
<1>3. Sound(st, s, Freed(n), g, out, attempt, prompt, made, rejected, redoLost, limit, over')
  BY <1>2, NodeFinishes
<1> HIDE DEF s, g, out, made, limit
<1>4. /\ Sound(status', state', inFlight', stage', outputs', attempt', prompt', made, rejected, redoLost, limit, over')
      /\ \A m \in Nodes : attempt[m] <= attempt'[m]
  BY <1>1, <1>3, SoundScheduled
<1>5. limit = Budget(repairsUsed', troubles') /\ rejected' = rejected /\ redoLost' = redoLost
  BY <1>1 DEF limit, NodeStep, verdicts
<1>6. SoundNow'
  BY <1>1, <1>4, <1>5 DEF SoundNow
<1>7. status \in Terminal => status' = status
  BY <1>1, StatusScheduled DEF Terminal
<1>8. attempt' \in [Nodes -> Nat] /\ unwritten' \in BOOLEAN /\ troubles' \in Nat
  BY <1>1, <1>4 DEF Sound, TaskInv, Rest
<1>9. Rest'
  BY <1>1, <1>4, <1>7, <1>8, RestOfNodeStep DEF made
<1> QED
  BY <1>6, <1>9 DEF TaskInv

LEMMA NodeEndsKeeps ==
  ASSUME TaskInv, NodeStep, NEW n \in Nodes, stage[n] # "none", over' \in {over, TRUE},
         NEW st, st = status \/ (status = "running" /\ st = "paused" /\ over'),
         NEW e \in {"pending", "failed", "cancelled"}, e = "pending" => RetriesLeft(n),
         Scheduled(st, [state EXCEPT ![n] = e], Freed(n), [stage EXCEPT ![n] = "none"], outputs),
         disk' = disk \/ (\E end \in {"done", "failed", "cancelled"} : disk' = Logged(n, end)),
         UNCHANGED <<basis, unwritten, troubles>>
  PROVE  TaskInv'
<1> DEFINE s == [state EXCEPT ![n] = e]
           g == [stage EXCEPT ![n] = "none"]
           limit == Budget(repairsUsed, troubles)
<1>1. Sound(st, s, Freed(n), g, outputs, attempt, prompt, basis, rejected, redoLost, limit, over')
  BY NodeLeaves
<1>2. Scheduled(st, s, Freed(n), g, outputs)
  OBVIOUS
<1> HIDE DEF s, g, limit
<1>3. /\ Sound(status', state', inFlight', stage', outputs', attempt', prompt', basis, rejected, redoLost, limit, over')
      /\ \A m \in Nodes : attempt[m] <= attempt'[m]
  BY <1>1, <1>2, SoundScheduled
<1>4. limit = Budget(repairsUsed', troubles') /\ rejected' = rejected /\ redoLost' = redoLost
  BY DEF limit, NodeStep, verdicts
<1>5. SoundNow'
  BY <1>3, <1>4 DEF SoundNow
<1>6. status \in Terminal => status' = status
  BY <1>2, StatusScheduled DEF Terminal
<1>7. attempt' \in [Nodes -> Nat] /\ unwritten' \in BOOLEAN /\ troubles' \in Nat
  BY <1>3 DEF Sound, TaskInv, Rest
<1>8. Rest'
  BY <1>3, <1>6, <1>7, RestOfNodeStep
<1> QED
  BY <1>5, <1>8 DEF TaskInv

LEMMA FailNodeKeeps ==
  ASSUME TaskInv, NodeStep, NEW n \in Nodes, stage[n] # "none", over' \in {over, TRUE},
         NEW st, st = status \/ (status = "running" /\ st = "paused" /\ over'),
         FailNode(n, st)
  PROVE  TaskInv'
<1>1. CASE RetriesLeft(n)
  <2>1. /\ Scheduled(st, [state EXCEPT ![n] = "pending"], Freed(n), [stage EXCEPT ![n] = "none"], outputs)
        /\ disk' = disk /\ UNCHANGED <<basis, unwritten, troubles>>
    BY <1>1 DEF FailNode
  <2> QED
    BY <1>1, <2>1, NodeEndsKeeps
<1>2. CASE ~RetriesLeft(n)
  <2>1. /\ Scheduled(st, [state EXCEPT ![n] = "failed"], Freed(n), [stage EXCEPT ![n] = "none"], outputs)
        /\ disk' = Logged(n, "failed") /\ UNCHANGED <<basis, unwritten, troubles>>
    BY <1>2 DEF FailNode
  <2> QED
    BY <2>1, NodeEndsKeeps
<1> QED
  BY <1>1, <1>2

LEMMA OutputNotWrittenKeeps ==
  ASSUME TaskInv, NodeStep, NEW n \in Nodes, stage[n] # "none", state[n] = "running", over' \in {over, TRUE},
         NEW st, st = status \/ (status = "running" /\ st = "paused" /\ over'),
         OutputNotWritten(n, st)
  PROVE  TaskInv'
<1> DEFINE limit == Budget(repairsUsed', troubles')
<1>1. /\ troubles' = troubles + 1 /\ unwritten' = TRUE
      /\ state' = [state EXCEPT ![n] = "done"] /\ stage' = [stage EXCEPT ![n] = "none"]
      /\ outputs' = [outputs EXCEPT ![n] = attempt[n]] /\ basis' = [basis EXCEPT ![n] = prompt[n]]
      /\ inFlight' = Freed(n) /\ status' = st /\ UNCHANGED <<attempt, prompt, disk>>
  BY DEF OutputNotWritten
<1>2. repairsUsed \in Nat /\ troubles \in Nat /\ attempt \in [Nodes -> Nat]
  BY DEF TaskInv, SoundNow, Sound, Rest
<1>3. repairsUsed' = repairsUsed /\ rejected' = rejected /\ redoLost' = redoLost
  BY DEF NodeStep, verdicts
<1>4. limit \in Nat /\ Budget(repairsUsed, troubles) <= limit
  <2>1. limit = Budget(repairsUsed, troubles + 1)
    BY <1>1, <1>3
  <2>2. troubles + 1 \in Nat /\ troubles <= troubles + 1 /\ repairsUsed <= repairsUsed
    BY <1>2
  <2>3. Budget(repairsUsed, troubles + 1) \in Nat
    BY <1>2, <2>2, BudgetGrows
  <2>4. Budget(repairsUsed, troubles) <= Budget(repairsUsed, troubles + 1)
    BY <1>2, <2>2, BudgetGrows
  <2> QED
    BY <2>1, <2>3, <2>4
<1> HIDE DEF limit
<1>5. Sound(status', state', inFlight', stage', outputs', attempt, prompt, basis', rejected, redoLost, limit, over')
  BY <1>1, <1>4, NodeFinishes
<1>6. SoundNow'
  BY <1>1, <1>3, <1>5 DEF SoundNow, limit
<1>7. status \in Terminal => status' = status
  BY <1>1 DEF Terminal
<1>8. attempt' \in [Nodes -> Nat] /\ \A m \in Nodes : attempt[m] <= attempt'[m]
  BY <1>1, <1>2
<1>9. unwritten' \in BOOLEAN /\ troubles' \in Nat
  BY <1>1, <1>2
<1>10. Rest'
  BY <1>1, <1>7, <1>8, <1>9, RestOfNodeStep
<1> QED
  BY <1>6, <1>10 DEF TaskInv

\* An interruption takes none of the attempts that are granted.
LEMMA GrantsKept ==
  ASSUME TaskInv, repairsUsed' = repairsUsed, troubles' \in {troubles, troubles + 1}
  PROVE  /\ Budget(repairsUsed', troubles') \in Nat
         /\ Budget(repairsUsed, troubles) <= Budget(repairsUsed', troubles')
<1>1. repairsUsed \in Nat /\ troubles \in Nat /\ troubles' \in Nat /\ troubles <= troubles'
  BY DEF TaskInv, Rest
<1>2. repairsUsed <= repairsUsed
  BY <1>1
<1>3. Budget(repairsUsed, troubles') \in Nat /\ Budget(repairsUsed, troubles) <= Budget(repairsUsed, troubles')
  BY <1>1, <1>2, BudgetGrows
<1> QED
  BY <1>3

\* The node's next await, the silence of its turn, or the end of it when stop
\* has cancelled the node.
LEMMA StageMoves ==
  ASSUME TaskInv, NEW n \in Nodes, stage[n] # "none", NEW to \in StageNames,
         stage' = [stage EXCEPT ![n] = to], to = "none" => state[n] # "running",
         over' \in {over, TRUE}, status' = status \/ (status = "running" /\ status' = "paused" /\ over'),
         troubles' \in {troubles, troubles + 1},
         UNCHANGED <<state, attempt, inFlight, prompt, outputs, basis, rejected, redoLost, repairsUsed>>
  PROVE  SoundNow'
<1>1. /\ Shape(status, state, inFlight, stage, outputs) /\ attempt \in [Nodes -> Nat]
      /\ rejected \in [Nodes -> Nat] /\ Budget(repairsUsed, troubles) \in Nat
      /\ \A m \in Nodes : prompt[m] \in [Deps[m] -> Nat]
      /\ Slots(status, state, inFlight, stage)
      /\ redoLost \/ Inputs(state, outputs, basis, prompt)
      /\ Judged(state, outputs, attempt, rejected, redoLost)
      /\ Spare(status, state, attempt, Budget(repairsUsed, troubles), over)
  BY DEF TaskInv, SoundNow, Sound
<1>2. Shape(status', state', inFlight', stage', outputs')
  BY <1>1 DEF Shape, Statuses
<1>3. Slots(status', state', inFlight', stage')
  <2>1. status \notin {"verifying", "completed"} /\ (to = "none" => status \in Terminal)
    BY Underway
  <2>2. stage \in [Nodes -> StageNames]
    BY <1>1 DEF Shape
  <2>3. \A m \in Nodes : stage'[m] # "none" => stage[m] # "none"
    BY <2>2
  <2>4. to # "none" => \A m \in Nodes : stage'[m] # "none" <=> stage[m] # "none"
    BY <2>2
  <2> QED
    BY <1>1, <2>1, <2>3, <2>4 DEF Slots, Terminal
<1>4. /\ Budget(repairsUsed', troubles') \in Nat
      /\ Budget(repairsUsed, troubles) <= Budget(repairsUsed', troubles')
  BY GrantsKept
<1>5. Spare(status', state', attempt', Budget(repairsUsed', troubles'), over')
  <2>1. over => over'
    BY DEF TaskInv, Rest
  <2>2. Spare(status', state, attempt, Budget(repairsUsed', troubles'), over')
    BY <1>1, <1>4, <2>1, SpareGrows
  <2> QED
    BY <2>2
<1> QED
  BY <1>1, <1>2, <1>3, <1>4, <1>5 DEF SoundNow, Sound

LEMMA RestUnchanged ==
  ASSUME Rest, UNCHANGED <<status, attempt, ask, verdicts, over, disk, basis, redoLost, unwritten, troubles>>
  PROVE  Rest'
BY DEF Rest, verdicts

LEMMA NodeActions ==
  ASSUME TaskInv, NEW n \in Nodes,
         \/ TurnStarts(n) \/ DispatchFails(n) \/ TurnFallsSilent(n) \/ TurnEnds(n)
         \/ Checked(n) \/ Dropped(n)
  PROVE  TaskInv'
<1>1. CASE TurnStarts(n)
  <2>1. SoundNow'
    BY <1>1, StageMoves DEF TurnStarts, verdicts, ghosts, StageNames
  <2>2. Rest'
    BY <1>1, RestUnchanged DEF TurnStarts, TaskInv, ghosts
  <2> QED
    BY <2>1, <2>2 DEF TaskInv
<1>2. CASE DispatchFails(n)
  BY <1>2, FailNodeKeeps DEF DispatchFails
<1>3. CASE TurnEnds(n)
  <2> DEFINE st == StatusOnCompletion
  <2>1. /\ stage[n] # "none" /\ state[n] = "running" /\ NodeStep /\ over' \in {over, TRUE}
        /\ st = status \/ (status = "running" /\ st = "paused" /\ over')
    BY <1>3 DEF TurnEnds, StatusOnCompletion
  <2>2. \/ MarkNodeDone(n, st) \/ OutputNotWritten(n, st) \/ FailNode(n, st)
        \/ /\ stage' = [stage EXCEPT ![n] = "checking"] /\ status' = st
           /\ UNCHANGED <<state, attempt, inFlight, prompt, outputs, disk, basis, unwritten, troubles>>
        \/ /\ disk' = Logged(n, "cancelled")
           /\ Scheduled(st, [state EXCEPT ![n] = "cancelled"], Freed(n), [stage EXCEPT ![n] = "none"], outputs)
           /\ UNCHANGED <<basis, unwritten, troubles>>
    BY <1>3 DEF TurnEnds
  <2> HIDE DEF st
  <2>3. CASE MarkNodeDone(n, st)
    BY <2>1, <2>3, NodeDoneKeeps
  <2>4. CASE OutputNotWritten(n, st)
    BY <2>1, <2>4, OutputNotWrittenKeeps
  <2>5. CASE FailNode(n, st)
    BY <2>1, <2>5, FailNodeKeeps
  <2>6. CASE /\ stage' = [stage EXCEPT ![n] = "checking"] /\ status' = st
             /\ UNCHANGED <<state, attempt, inFlight, prompt, outputs, disk, basis, unwritten, troubles>>
    <3>1. SoundNow'
      BY <2>1, <2>6, StageMoves DEF NodeStep, verdicts, StageNames
    <3>2. status \in Terminal => status' = status
      BY <2>1, <2>6 DEF Terminal
    <3>3. attempt \in [Nodes -> Nat] /\ unwritten \in BOOLEAN /\ troubles \in Nat
      BY DEF TaskInv, SoundNow, Sound, Rest
    <3>4. /\ attempt' \in [Nodes -> Nat] /\ \A m \in Nodes : attempt[m] <= attempt'[m]
          /\ unwritten' \in BOOLEAN /\ troubles' \in Nat /\ disk' = disk /\ basis' = basis
      BY <2>6, <3>3
    <3>5. Rest'
      BY <2>1, <3>2, <3>4, RestOfNodeStep
    <3> QED
      BY <3>1, <3>5 DEF TaskInv
  <2>7. CASE /\ disk' = Logged(n, "cancelled")
             /\ Scheduled(st, [state EXCEPT ![n] = "cancelled"], Freed(n), [stage EXCEPT ![n] = "none"], outputs)
             /\ UNCHANGED <<basis, unwritten, troubles>>
    BY <2>1, <2>7, NodeEndsKeeps
  <2> QED
    BY <2>2, <2>3, <2>4, <2>5, <2>6, <2>7
<1>4. CASE Checked(n)
  <2>1. /\ stage[n] # "none" /\ state[n] = "running" /\ NodeStep /\ over' \in {over, TRUE}
        /\ MarkNodeDone(n, status) \/ OutputNotWritten(n, status) \/ FailNode(n, status)
    BY <1>4 DEF Checked
  <2> QED
    BY <2>1, NodeDoneKeeps, OutputNotWrittenKeeps, FailNodeKeeps
<1>5. CASE Dropped(n)
  <2>1. SoundNow'
    BY <1>5, StageMoves DEF Dropped, verdicts, ghosts, StageNames
  <2>2. Rest'
    BY <1>5, RestUnchanged DEF Dropped, TaskInv, ghosts
  <2> QED
    BY <2>1, <2>2 DEF TaskInv
<1>6. CASE TurnFallsSilent(n)
  <2>1. SoundNow'
    BY <1>6, StageMoves DEF TurnFallsSilent, verdicts, ghosts, StageNames
  <2>2. troubles \in Nat /\ troubles + 1 \in Nat /\ status \notin {"verifying"}
    BY <1>6, Underway DEF TurnFallsSilent, TaskInv, Rest
  <2>3. Rest'
    BY <1>6, <2>2 DEF TurnFallsSilent, TaskInv, Rest, verdicts, ghosts
  <2> QED
    BY <2>1, <2>3 DEF TaskInv
<1> QED
  BY <1>1, <1>2, <1>3, <1>4, <1>5, <1>6

----------------------------------------------------------------------------
(* Verdicts and repairs. *)

LEMMA FrontierClosed ==
  ASSUME NEW named \in SUBSET Nodes
  PROVE  /\ named = {} => Frontier(named) = Nodes
         /\ named \subseteq Frontier(named)
         /\ \A n \in Nodes : \A d \in Deps[n] : d \in Frontier(named) => n \in Frontier(named)
<1>1. CASE named = {}
  BY <1>1 DEF Frontier
<1>2. CASE named # {}
  <2>1. Frontier(named) = UNION {Dependents[m] : m \in named}
    BY <1>2 DEF Frontier
  <2>2. ASSUME NEW m \in named PROVE m \in Dependents[m]
    BY DEF Dependents
  <2>3. ASSUME NEW m \in named, NEW n \in Nodes, NEW d \in Deps[n], d \in Dependents[m]
        PROVE  n \in Dependents[m]
    <3> DEFINE Closed(S) == \A k \in Nodes : Deps[k] \cap S # {} => k \in S
    <3>1. Dependents[m] = {k \in Nodes : \A S \in SUBSET Nodes : m \in S /\ Closed(S) => k \in S}
      BY DEF Dependents
    <3>2. ASSUME NEW S \in SUBSET Nodes, m \in S, Closed(S) PROVE n \in S
      <4>1. d \in S
        BY <2>3, <3>1, <3>2
      <4> QED
        BY <3>2, <4>1
    <3> QED
      BY <3>1, <3>2
  <2> QED
    BY <1>2, <2>1, <2>2, <2>3
<1> QED
  BY <1>1, <1>2

\* A verdict finds every node done, and a repair with attempts granted to all
\* leaves the finished nodes on finished ones that no verdict rejected.
LEMMA RepairSound ==
  ASSUME TaskInv, status = "verifying", NEW named \in SUBSET Nodes, Repair(named),
         UNCHANGED <<basis, redoLost>>, Budget(repairsUsed', troubles') \in Nat,
         \A n \in Nodes : attempt[n] <= Budget(repairsUsed', troubles')
  PROVE  /\ SoundNow' /\ ask' = "none" /\ over' = over
         /\ attempt' \in [Nodes -> Nat] /\ \A n \in Nodes : attempt[n] <= attempt'[n]
<1> DEFINE s == [n \in Nodes |-> IF n \in Frontier(named) /\ state[n] = "done" THEN "pending" ELSE state[n]]
           limit == Budget(repairsUsed', troubles')
<1>1. /\ Shape(status, state, inFlight, stage, outputs) /\ attempt \in [Nodes -> Nat]
      /\ rejected \in [Nodes -> Nat]
      /\ \A m \in Nodes : prompt[m] \in [Deps[m] -> Nat]
      /\ Slots(status, state, inFlight, stage)
      /\ redoLost \/ Inputs(state, outputs, basis, prompt)
      /\ Judged(state, outputs, attempt, rejected, redoLost)
  BY DEF TaskInv, SoundNow, Sound
<1>2. /\ inFlight \in Nat /\ stage \in [Nodes -> StageNames] /\ outputs \in [Nodes -> Nat]
      /\ \A n \in Nodes : state[n] = "done" /\ stage[n] = "none"
      /\ Runners(state) = {}
  BY <1>1 DEF Shape, Slots, Runners
<1>3. /\ Scheduled("running", s, inFlight, stage, outputs) /\ ask' = "none" /\ over' = over
      /\ rejected' = [n \in Nodes |-> IF named = {} \/ n \in named THEN outputs[n] ELSE rejected[n]]
  BY DEF Repair
<1>4. \A n \in Nodes : s[n] = IF n \in Frontier(named) THEN "pending" ELSE "done"
  BY <1>2
<1>5. DOMAIN s = Nodes /\ s \in [Nodes -> NodeStates]
  BY <1>2 DEF NodeStates
<1> HIDE DEF s, limit
<1>6. Shape("running", s, inFlight, stage, outputs)
  BY <1>2, <1>5 DEF Shape, Statuses
<1>7. Slots("running", s, inFlight, stage)
  <2>1. Runners(s) = {}
    BY <1>4 DEF Runners
  <2> QED
    BY <1>1, <1>2, <1>4, <2>1 DEF Slots, Terminal
<1>8. redoLost \/ Inputs(s, outputs, basis, prompt)
  <2> SUFFICES ASSUME Inputs(state, outputs, basis, prompt) PROVE Inputs(s, outputs, basis, prompt)
    BY <1>1
  <2> SUFFICES ASSUME NEW n \in Nodes, NEW d \in Deps[n]
               PROVE  /\ s[n] \in {"done", "running"} => s[d] = "done"
                      /\ s[n] = "done" => basis[n][d] = outputs[d]
                      /\ s[n] = "running" => prompt[n][d] = outputs[d]
    BY DEF Inputs
  <2>1. d \in Nodes /\ (d \in Frontier(named) => n \in Frontier(named))
    BY Limits, FrontierClosed
  <2> QED
    BY <1>2, <1>4, <2>1 DEF Inputs
<1>9. rejected' \in [Nodes -> Nat] /\ Judged(s, outputs, attempt, rejected', redoLost)
  <2>1. rejected' \in [Nodes -> Nat]
    BY <1>1, <1>2, <1>3
  <2>2. ASSUME NEW n \in Nodes
        PROVE  /\ outputs[n] <= attempt[n] /\ rejected'[n] <= attempt[n]
               /\ s[n] # "running"
               /\ s[n] = "done" /\ ~redoLost => rejected'[n] < outputs[n]
    <3>1. /\ outputs[n] <= attempt[n] /\ rejected[n] <= attempt[n]
          /\ ~redoLost => rejected[n] < outputs[n]
      BY <1>1, <1>2 DEF Judged
    <3>2. s[n] = "done" => rejected'[n] = rejected[n]
      BY <1>3, <1>4, FrontierClosed
    <3>3. rejected'[n] \in {outputs[n], rejected[n]}
      BY <1>3
    <3> QED
      BY <1>4, <3>1, <3>2, <3>3
  <2> QED
    BY <2>1, <2>2 DEF Judged
<1>10. Spare("running", s, attempt, limit, over')
  BY <1>1 DEF Spare, limit
<1>11. Sound("running", s, inFlight, stage, outputs, attempt, prompt, basis, rejected', redoLost, limit, over')
  BY <1>1, <1>6, <1>7, <1>8, <1>9, <1>10 DEF Sound, limit
<1>12. /\ Sound(status', state', inFlight', stage', outputs', attempt', prompt', basis, rejected', redoLost, limit, over')
       /\ \A n \in Nodes : attempt[n] <= attempt'[n]
  BY <1>3, <1>11, SoundScheduled
<1> QED
  BY <1>3, <1>12 DEF SoundNow, Sound, limit

\* The run waits for another answer, completes or fails.
LEMMA AnsweredSound ==
  ASSUME TaskInv, status = "verifying", status' \in {"completed", "verifying", "failed"},
         UNCHANGED <<state, attempt, inFlight, stage, prompt, outputs, over, rejected, basis, redoLost>>,
         Budget(repairsUsed', troubles') \in Nat, Budget(repairsUsed, troubles) <= Budget(repairsUsed', troubles')
  PROVE  SoundNow'
<1>1. /\ Shape(status, state, inFlight, stage, outputs) /\ attempt \in [Nodes -> Nat]
      /\ rejected \in [Nodes -> Nat] /\ Budget(repairsUsed, troubles) \in Nat
      /\ \A m \in Nodes : prompt[m] \in [Deps[m] -> Nat]
      /\ Slots(status, state, inFlight, stage)
      /\ redoLost \/ Inputs(state, outputs, basis, prompt)
      /\ Judged(state, outputs, attempt, rejected, redoLost)
      /\ Spare(status, state, attempt, Budget(repairsUsed, troubles), over)
  BY DEF TaskInv, SoundNow, Sound
<1>2. Shape(status', state', inFlight', stage', outputs')
  BY <1>1 DEF Shape, Statuses, Terminal
<1>3. Slots(status', state', inFlight', stage')
  BY <1>1 DEF Slots, Runners
<1>4. Spare(status', state', attempt', Budget(repairsUsed', troubles'), over')
  BY <1>1, SpareGrows
<1> QED
  BY <1>1, <1>2, <1>3, <1>4 DEF SoundNow, Sound

LEMMA VerdictLogged ==
  ASSUME disk \in DiskType, NEW v \in Verdict
  PROVE  /\ LoggedVerdict(v) \in DiskType
         /\ LoggedVerdict(v).output = disk.output
         /\ disk.fails <= LoggedVerdict(v).fails
         /\ v.result = "fail" => LoggedVerdict(v).fails = disk.fails + 1
<1>1. \/ v.result = "pass" /\ LoggedVerdict(v) = [disk EXCEPT !.unparsed = 0]
      \/ v.result = "unparsed" /\ LoggedVerdict(v) = [disk EXCEPT !.unparsed = @ + 1]
      \/ v.result = "fail" /\ LoggedVerdict(v) = [disk EXCEPT !.fails = @ + 1]
  BY DEF LoggedVerdict, Verdict
<1> QED
  BY <1>1 DEF DiskType

LEMMA RestOfVerdict ==
  ASSUME TaskInv, disk' \in DiskType, disk'.output = disk.output,
         repairsUsed' \in Nat, repairsUsed' <= disk'.fails, unparsedReAsks' \in Nat,
         lastRepairScoped' \in BOOLEAN, ask' \in {"none", "asked", "silent", "classifying", "scoping"},
         attempt' \in [Nodes -> Nat], \A n \in Nodes : attempt[n] <= attempt'[n],
         UNCHANGED <<over, basis, redoLost, unwritten, troubles>>,
         ask' # "none" => status' \in {"verifying"} \cup Terminal,
         ask' = "scoping" => \A n \in Nodes : attempt'[n] <= Budget(repairsUsed', troubles)
  PROVE  Rest'
<1>1. disk.output \in [Nodes -> Nat] /\ attempt \in [Nodes -> Nat]
      /\ \A n \in Nodes : disk.output[n] <= attempt[n]
  BY DEF TaskInv, Rest, SoundNow, Sound, DiskType
<1>2. \A n \in Nodes : disk'.output[n] <= attempt'[n]
  BY <1>1
<1> QED
  BY <1>2 DEF TaskInv, Rest

LEMMA Granted ==
  ASSUME TaskInv, CanRepair
  PROVE  /\ Budget(repairsUsed + 1, troubles) \in Nat
         /\ Budget(repairsUsed, troubles) <= Budget(repairsUsed + 1, troubles)
         /\ \A n \in Nodes : attempt[n] <= Budget(repairsUsed + 1, troubles)
<1>1. /\ repairsUsed \in Nat /\ troubles \in Nat /\ repairsUsed < MaxRepairs
      /\ attempt \in [Nodes -> Nat]
      /\ \A n \in Nodes : attempt[n] <= 1 + Budget(repairsUsed, troubles)
  BY DEF TaskInv, SoundNow, Sound, Spare, Rest, CanRepair
<1>2. /\ Budget(repairsUsed, troubles) \in Nat /\ Budget(repairsUsed + 1, troubles) \in Nat
      /\ 1 + Budget(repairsUsed, troubles) <= Budget(repairsUsed + 1, troubles)
  <2>1. repairsUsed + 1 \in Nat
    BY <1>1
  <2>2. Budget(repairsUsed + 1, troubles) \in Nat
    BY <1>1, <2>1, BudgetGrows
  <2> QED
    BY <1>1, <2>2, BudgetGrows
<1> QED
  BY <1>1, <1>2

LEMMA AppliedKeeps ==
  ASSUME TaskInv, status = "verifying", NEW v \in Verdict, Applied(v) \/ AskedForScope(v)
  PROVE  TaskInv'
<1>1. /\ disk' = LoggedVerdict(v) /\ UNCHANGED <<basis, redoLost, unwritten, troubles>>
      /\ \/ v.result = "pass" /\ Passed
         \/ v.result = "unparsed" /\ Unparsed
         \/ v.result = "fail" /\ (GivesUp \/ (Repairs /\ Repair(v.nodes)))
         \/ v.result = "fail" /\ Repairs /\ ask' = "scoping" /\ Answered("verifying")
  BY DEF Applied, AskedForScope
<1>2. /\ disk \in DiskType /\ repairsUsed \in Nat /\ troubles \in Nat /\ unparsedReAsks \in Nat
      /\ lastRepairScoped \in BOOLEAN /\ repairsUsed <= disk.fails /\ disk.fails \in Nat
      /\ attempt \in [Nodes -> Nat]
      /\ Budget(repairsUsed, troubles) \in Nat
  BY DEF TaskInv, Rest, SoundNow, Sound, DiskType
<1>3. /\ disk' \in DiskType /\ disk'.output = disk.output /\ disk.fails <= disk'.fails
      /\ v.result = "fail" => disk'.fails = disk.fails + 1
      /\ disk'.fails \in Nat
  BY <1>1, <1>2, VerdictLogged DEF DiskType
<1>4. ASSUME repairsUsed' = repairsUsed, unparsedReAsks' \in Nat, lastRepairScoped' = lastRepairScoped,
             NEW otherwise \in {"completed", "verifying", "failed"}, Answered(otherwise),
             ask' \in {"none", "asked"}, ask' # "none" => otherwise = "verifying"
      PROVE  TaskInv'
  <2>1. /\ status' = otherwise
        /\ UNCHANGED <<state, attempt, inFlight, stage, prompt, outputs, over, rejected>>
    BY <1>4 DEF Answered
  <2>2. Budget(repairsUsed', troubles') = Budget(repairsUsed, troubles)
    BY <1>1, <1>4
  <2>3. SoundNow'
    BY <1>1, <1>2, <2>1, <2>2, AnsweredSound
  <2>4. /\ attempt' \in [Nodes -> Nat] /\ \A n \in Nodes : attempt[n] <= attempt'[n]
        /\ repairsUsed' \in Nat /\ repairsUsed' <= disk'.fails
    BY <1>2, <1>3, <1>4, <2>1
  <2>5. Rest'
    BY <1>1, <1>2, <1>3, <1>4, <2>1, <2>4, RestOfVerdict
  <2> QED
    BY <2>3, <2>5 DEF TaskInv
<1>5. CASE v.result = "pass" /\ Passed
  BY <1>4, <1>5 DEF Passed
<1>6. CASE v.result = "unparsed" /\ Unparsed
  <2>1. CASE unparsedReAsks < MaxReAsks
    BY <1>2, <1>4, <1>6, <2>1 DEF Unparsed, AskAgain
  <2>2. CASE ~(unparsedReAsks < MaxReAsks)
    BY <1>2, <1>4, <1>6, <2>2 DEF Unparsed
  <2> QED
    BY <2>1, <2>2
<1>7. CASE v.result = "fail" /\ GivesUp
  BY <1>2, <1>4, <1>7 DEF GivesUp
<1>8. ASSUME v.result = "fail", Repairs
      PROVE  /\ repairsUsed' = repairsUsed + 1 /\ lastRepairScoped' \in BOOLEAN /\ unparsedReAsks' \in Nat
             /\ repairsUsed' \in Nat /\ repairsUsed' <= disk'.fails
             /\ Budget(repairsUsed', troubles') \in Nat
             /\ Budget(repairsUsed, troubles) <= Budget(repairsUsed', troubles')
             /\ \A n \in Nodes : attempt[n] <= Budget(repairsUsed', troubles')
  <2>1. /\ CanRepair /\ repairsUsed' = repairsUsed + 1 /\ lastRepairScoped' = FALSE
        /\ unparsedReAsks' = unparsedReAsks /\ troubles' = troubles
    BY <1>1, <1>8 DEF Repairs
  <2>2. Budget(repairsUsed', troubles') = Budget(repairsUsed + 1, troubles)
    BY <2>1
  <2>3. repairsUsed' \in Nat /\ repairsUsed' <= disk'.fails
    BY <1>2, <1>3, <1>8, <2>1
  <2>4. /\ Budget(repairsUsed', troubles') \in Nat
        /\ Budget(repairsUsed, troubles) <= Budget(repairsUsed', troubles')
        /\ \A n \in Nodes : attempt[n] <= Budget(repairsUsed', troubles')
    BY <2>1, <2>2, Granted
  <2> QED
    BY <1>2, <2>1, <2>3, <2>4
<1>9. CASE v.result = "fail" /\ Repairs /\ Repair(v.nodes)
  <2>1. v.nodes \in SUBSET Nodes
    BY DEF Verdict, Named
  <2>2. /\ SoundNow' /\ ask' = "none" /\ over' = over
        /\ attempt' \in [Nodes -> Nat] /\ \A n \in Nodes : attempt[n] <= attempt'[n]
    BY <1>1, <1>8, <1>9, <2>1, RepairSound
  <2>3. Rest'
    BY <1>1, <1>3, <1>8, <1>9, <2>2, RestOfVerdict
  <2> QED
    BY <2>2, <2>3 DEF TaskInv
<1>10. CASE v.result = "fail" /\ Repairs /\ ask' = "scoping" /\ Answered("verifying")
  <2>1. /\ status' = "verifying"
        /\ UNCHANGED <<state, attempt, inFlight, stage, prompt, outputs, over, rejected>>
    BY <1>10 DEF Answered
  <2>2. SoundNow'
    BY <1>1, <1>8, <1>10, <2>1, AnsweredSound
  <2>3. /\ attempt' \in [Nodes -> Nat] /\ \A n \in Nodes : attempt[n] <= attempt'[n]
        /\ \A n \in Nodes : attempt'[n] <= Budget(repairsUsed', troubles)
    BY <1>1, <1>2, <1>8, <1>10, <2>1
  <2>4. Rest'
    BY <1>1, <1>3, <1>8, <1>10, <2>1, <2>3, RestOfVerdict
  <2> QED
    BY <2>2, <2>4 DEF TaskInv
<1> QED
  BY <1>1, <1>5, <1>6, <1>7, <1>9, <1>10

LEMMA ScopedKeeps == TaskInv /\ Scoped => TaskInv'
<1> SUFFICES ASSUME TaskInv, Scoped PROVE TaskInv'
  OBVIOUS
<1>1. PICK named \in Named : Repair(named) /\ lastRepairScoped' = (named # {})
  BY DEF Scoped
<1>2. /\ status = "verifying" /\ ask = "scoping"
      /\ UNCHANGED <<repairsUsed, unparsedReAsks, disk, basis, redoLost, unwritten, troubles>>
  BY DEF Scoped
<1>3. /\ repairsUsed \in Nat /\ unparsedReAsks \in Nat /\ disk \in DiskType /\ repairsUsed <= disk.fails
      /\ Budget(repairsUsed, troubles) \in Nat
      /\ \A n \in Nodes : attempt[n] <= Budget(repairsUsed, troubles)
  BY <1>2 DEF TaskInv, Rest, SoundNow, Sound
<1>4. Budget(repairsUsed', troubles') = Budget(repairsUsed, troubles)
  BY <1>2
<1>5. named \in SUBSET Nodes
  BY DEF Named
<1>6. /\ SoundNow' /\ ask' = "none" /\ over' = over
      /\ attempt' \in [Nodes -> Nat] /\ \A n \in Nodes : attempt[n] <= attempt'[n]
  BY <1>1, <1>2, <1>3, <1>4, <1>5, RepairSound
<1>7. Rest'
  BY <1>1, <1>2, <1>3, <1>6, RestOfVerdict
<1> QED
  BY <1>6, <1>7 DEF TaskInv

LEMMA VerdictActions ==
  ASSUME TaskInv, VerdictArrives \/ VerdictFallsSilent \/ VerdictNotWritten \/ Classified \/ SendFails
  PROVE  TaskInv'
<1>1. CASE VerdictArrives
  <2>1. status = "verifying"
    BY <1>1 DEF VerdictArrives
  <2>2. ASSUME NEW v \in Verdict, Applied(v) \/ AskedForScope(v) PROVE TaskInv'
    BY <2>1, <2>2, AppliedKeeps
  <2>3. CASE /\ ask' = "classifying"
             /\ UNCHANGED <<status, state, attempt, inFlight, stage, prompt, outputs, over, disk, ghosts, troubles,
                            repairsUsed, unparsedReAsks, lastRepairScoped>>
    <3>1. SoundNow'
      BY <2>3 DEF TaskInv, SoundNow, ghosts
    <3>2. Rest'
      BY <2>1, <2>3 DEF TaskInv, Rest, ghosts
    <3> QED
      BY <3>1, <3>2 DEF TaskInv
  <2> QED
    BY <1>1, <2>2, <2>3 DEF VerdictArrives
<1>2. CASE Classified
  <2>1. PICK v \in Verdict : Applied(v)
    BY <1>2 DEF Classified
  <2> QED
    BY <1>2, <2>1, AppliedKeeps DEF Classified
<1>3. CASE SendFails
  <2>1. /\ ask = "asked" /\ status' = "failed" /\ ask' = "none"
        /\ UNCHANGED <<state, attempt, inFlight, stage, prompt, outputs, verdicts, over, disk, ghosts, troubles>>
    BY <1>3 DEF SendFails
  <2>2. status \in {"verifying"} \cup Terminal
    BY <2>1 DEF TaskInv, Rest
  <2>3. Slots(status', state', inFlight', stage')
    BY <2>1, <2>2 DEF TaskInv, SoundNow, Sound, Slots, Runners, Terminal
  <2>4. SoundNow'
    BY <2>1, <2>3 DEF TaskInv, SoundNow, Sound, Shape, Spare, Statuses, Terminal, verdicts, ghosts
  <2>5. Rest'
    BY <2>1 DEF TaskInv, Rest, verdicts, ghosts
  <2> QED
    BY <2>4, <2>5 DEF TaskInv
<1>4. CASE VerdictFallsSilent \/ VerdictNotWritten
  <2>1. /\ status = "verifying" /\ ask' \in {"none", "silent"} /\ unwritten' \in {unwritten, TRUE}
        /\ troubles' = troubles + 1
        /\ UNCHANGED <<status, state, attempt, inFlight, stage, prompt, outputs, verdicts, over, disk,
                       basis, rejected, redoLost>>
    BY <1>4 DEF VerdictFallsSilent, VerdictNotWritten, ghosts
  <2>2. repairsUsed' = repairsUsed /\ unparsedReAsks' = unparsedReAsks /\ lastRepairScoped' = lastRepairScoped
    BY <2>1 DEF verdicts
  <2>3. SoundNow'
    BY <2>1, <2>2, GrantsKept, AnsweredSound
  <2>4. troubles' \in Nat
    BY <2>1 DEF TaskInv, Rest
  <2>5. Rest'
    BY <2>1, <2>2, <2>4 DEF TaskInv, Rest
  <2> QED
    BY <2>3, <2>5 DEF TaskInv
<1> QED
  BY <1>1, <1>2, <1>3, <1>4

----------------------------------------------------------------------------
(* Controls and restarts. *)

LEMMA TroubleGranted ==
  ASSUME TaskInv, NEW r \in Nat, repairsUsed <= r
  PROVE  /\ Budget(r, troubles + 1) \in Nat
         /\ \A n \in Nodes : attempt[n] <= Budget(r, troubles + 1)
<1>1. /\ repairsUsed \in Nat /\ troubles \in Nat /\ attempt \in [Nodes -> Nat]
      /\ \A n \in Nodes : attempt[n] <= 1 + Budget(repairsUsed, troubles)
  BY DEF TaskInv, SoundNow, Sound, Spare, Rest
<1>2. /\ Budget(repairsUsed, troubles) \in Nat /\ Budget(r, troubles + 1) \in Nat
      /\ 1 + Budget(repairsUsed, troubles) <= Budget(r, troubles + 1)
  BY <1>1, BudgetGrows
<1> QED
  BY <1>1, <1>2

LEMMA PauseKeeps == TaskInv /\ Pause => TaskInv'
<1> SUFFICES ASSUME TaskInv, Pause PROVE TaskInv'
  OBVIOUS
<1>1. /\ status = "running" /\ status' = "paused" /\ troubles' = troubles + 1
      /\ UNCHANGED <<state, attempt, inFlight, stage, prompt, outputs, ask, verdicts, over, disk, ghosts>>
  BY DEF Pause
<1>2. repairsUsed' = repairsUsed /\ repairsUsed \in Nat /\ repairsUsed <= repairsUsed /\ troubles \in Nat
  BY <1>1 DEF verdicts, TaskInv, Rest
<1>3. Budget(repairsUsed', troubles') = Budget(repairsUsed, troubles + 1)
  BY <1>1, <1>2
<1>4. /\ Budget(repairsUsed', troubles') \in Nat
      /\ \A n \in Nodes : attempt[n] <= Budget(repairsUsed', troubles')
  BY <1>2, <1>3, TroubleGranted
<1>5. attempt \in [Nodes -> Nat] /\ Slots(status, state, inFlight, stage)
  BY DEF TaskInv, SoundNow, Sound
<1>6. Slots(status', state', inFlight', stage')
  BY <1>1, <1>5 DEF Slots, Terminal
<1>7. Spare(status', state', attempt', Budget(repairsUsed', troubles'), over')
  BY <1>1, <1>4, <1>5 DEF Spare
<1>8. Shape(status', state', inFlight', stage', outputs')
  BY <1>1 DEF TaskInv, SoundNow, Sound, Shape, Statuses
<1>9. SoundNow'
  BY <1>1, <1>4, <1>6, <1>7, <1>8 DEF TaskInv, SoundNow, Sound, ghosts
<1>10. ask = "none"
  BY <1>1 DEF TaskInv, Rest, Terminal
<1>11. Rest'
  BY <1>1, <1>2, <1>10 DEF TaskInv, Rest, verdicts, ghosts
<1> QED
  BY <1>9, <1>11 DEF TaskInv

\* A paused or restarted run goes on.
LEMMA RunsAgain ==
  ASSUME TaskInv, status \in {"paused", "down"}, UNCHANGED over, Asked, UNCHANGED <<verdicts, disk, ghosts, troubles>>,
         NEW s \in [Nodes -> NodeStates],
         \A n \in Nodes : s[n] = state[n] \/ (status = "paused" /\ state[n] = "cancelled" /\ s[n] = "pending"),
         NEW f, f = inFlight,
         Scheduled("running", s, f, stage, outputs)
  PROVE  TaskInv'
<1> DEFINE limit == Budget(repairsUsed, troubles)
<1>1. /\ Shape(status, state, inFlight, stage, outputs) /\ attempt \in [Nodes -> Nat]
      /\ rejected \in [Nodes -> Nat] /\ limit \in Nat
      /\ \A m \in Nodes : prompt[m] \in [Deps[m] -> Nat]
      /\ Slots(status, state, inFlight, stage)
      /\ redoLost \/ Inputs(state, outputs, basis, prompt)
      /\ Judged(state, outputs, attempt, rejected, redoLost)
      /\ Spare(status, state, attempt, limit, over)
  BY DEF TaskInv, SoundNow, Sound
<1>2. Shape("running", s, f, stage, outputs)
  BY <1>1 DEF Shape, Statuses
<1>3. Slots("running", s, f, stage)
  <2>1. Runners(s) = Runners(state)
    BY DEF Runners
  <2>2. \A n \in Nodes : state[n] = "running" <=> stage[n] # "none"
    BY <1>1 DEF Slots, Terminal
  <2>3. \A n \in Nodes : s[n] = "running" <=> state[n] = "running"
    OBVIOUS
  <2> QED
    BY <1>1, <2>1, <2>2, <2>3 DEF Slots, Terminal
<1>4. redoLost \/ Inputs(s, outputs, basis, prompt)
  <2> SUFFICES ASSUME Inputs(state, outputs, basis, prompt), NEW n \in Nodes, NEW d \in Deps[n]
               PROVE  /\ s[n] \in {"done", "running"} => s[d] = "done"
                      /\ s[n] = "done" => basis[n][d] = outputs[d]
                      /\ s[n] = "running" => prompt[n][d] = outputs[d]
    BY <1>1 DEF Inputs
  <2>1. d \in Nodes
    BY Limits
  <2> QED
    BY <2>1 DEF Inputs
<1>5. Judged(s, outputs, attempt, rejected, redoLost)
  BY <1>1 DEF Judged
<1>6. Spare("running", s, attempt, limit, over')
  BY <1>1 DEF Spare
<1> HIDE DEF limit
<1>7. Sound("running", s, f, stage, outputs, attempt, prompt, basis, rejected, redoLost, limit, over')
  BY <1>1, <1>2, <1>3, <1>4, <1>5, <1>6 DEF Sound, Slots
<1>8. /\ Sound(status', state', inFlight', stage', outputs', attempt', prompt', basis, rejected, redoLost, limit, over')
      /\ \A n \in Nodes : attempt[n] <= attempt'[n]
  BY <1>7, SoundScheduled
<1>9. /\ limit = Budget(repairsUsed', troubles') /\ rejected' = rejected /\ redoLost' = redoLost /\ basis' = basis
      /\ repairsUsed' = repairsUsed /\ unparsedReAsks' = unparsedReAsks /\ lastRepairScoped' = lastRepairScoped
      /\ disk' = disk /\ unwritten' = unwritten /\ troubles' = troubles /\ over' = over
  BY DEF limit, verdicts, ghosts
<1>10. SoundNow'
  BY <1>8, <1>9 DEF SoundNow
<1>11. /\ ask = "none" /\ ask' \in {"none", "asked"}
       /\ ask' # "none" => status' = "verifying"
  BY DEF TaskInv, Rest, Asked, Terminal
<1>12. attempt' \in [Nodes -> Nat]
  BY <1>8 DEF Sound
<1>13. Rest'
  BY <1>8, <1>9, <1>11, <1>12, RestOfVerdict DEF TaskInv, Rest
<1> QED
  BY <1>10, <1>13 DEF TaskInv

LEMMA ResumeKeeps == TaskInv /\ (Resume \/ Rehydrate) => TaskInv'
<1> SUFFICES ASSUME TaskInv, Resume \/ Rehydrate PROVE TaskInv'
  OBVIOUS
<1>1. state \in [Nodes -> NodeStates] /\ Slots(status, state, inFlight, stage)
  BY DEF TaskInv, SoundNow, Sound, Shape
<1>2. CASE Resume
  <2> DEFINE s == [n \in Nodes |-> IF state[n] = "cancelled" THEN "pending" ELSE state[n]]
  <2>1. /\ status = "paused" /\ UNCHANGED over /\ Asked /\ UNCHANGED <<verdicts, disk, ghosts, troubles>>
        /\ Scheduled("running", s, inFlight, stage, outputs)
    BY <1>2 DEF Resume
  <2>2. /\ s \in [Nodes -> NodeStates]
        /\ \A n \in Nodes : s[n] = state[n] \/ (state[n] = "cancelled" /\ s[n] = "pending")
    BY <1>1 DEF NodeStates
  <2> HIDE DEF s
  <2> QED
    BY <2>1, <2>2, RunsAgain
<1>3. CASE Rehydrate
  <2>1. /\ status = "down" /\ UNCHANGED over /\ Asked /\ UNCHANGED <<verdicts, disk, ghosts, troubles>>
        /\ Scheduled("running", state, 0, stage, outputs)
    BY <1>3 DEF Rehydrate
  <2>2. inFlight = 0
    BY <1>1, <2>1, RunnersCount DEF Slots
  <2>3. \A n \in Nodes : state[n] = state[n]
    OBVIOUS
  <2> QED
    BY <1>1, <2>1, <2>2, <2>3, RunsAgain
<1> QED
  BY <1>2, <1>3

LEMMA StopKeeps == TaskInv /\ Stop => TaskInv'
<1> SUFFICES ASSUME TaskInv, Stop PROVE TaskInv'
  OBVIOUS
<1>1. /\ status \notin Terminal \cup {"down"} /\ status' = "stopped"
      /\ state' = [n \in Nodes |-> IF state[n] = "running" THEN "cancelled" ELSE state[n]]
      /\ disk' = [disk EXCEPT !.ended = [n \in Nodes |-> IF state[n] = "running" THEN "cancelled" ELSE @[n]]]
      /\ inFlight' = 0
      /\ UNCHANGED <<attempt, stage, prompt, outputs, ask, verdicts, over, ghosts, troubles>>
  BY DEF Stop
<1>2. /\ Shape(status, state, inFlight, stage, outputs) /\ attempt \in [Nodes -> Nat]
      /\ rejected \in [Nodes -> Nat] /\ Budget(repairsUsed, troubles) \in Nat
      /\ \A m \in Nodes : prompt[m] \in [Deps[m] -> Nat]
      /\ Slots(status, state, inFlight, stage)
      /\ redoLost \/ Inputs(state, outputs, basis, prompt)
      /\ Judged(state, outputs, attempt, rejected, redoLost)
      /\ Spare(status, state, attempt, Budget(repairsUsed, troubles), over)
  BY DEF TaskInv, SoundNow, Sound
<1>3. state \in [Nodes -> NodeStates]
  BY <1>2 DEF Shape
<1>4. Shape(status', state', inFlight', stage', outputs')
  BY <1>1, <1>2 DEF Shape, Statuses, Terminal, NodeStates
<1>5. Slots(status', state', inFlight', stage')
  <2>1. Runners(state') = {}
    BY <1>1 DEF Runners
  <2>2. Cardinality(Runners(state')) = 0
    BY <2>1, FS_EmptySet
  <2>3. \A n \in Nodes : stage'[n] # "none" => state'[n] \in {"running", "cancelled"}
    BY <1>1, <1>2 DEF Slots
  <2> QED
    BY <1>1, <2>1, <2>2, <2>3, Limits DEF Slots, Terminal
<1>6. redoLost' \/ Inputs(state', outputs', basis', prompt')
  <2>1. redoLost' = redoLost /\ outputs' = outputs /\ basis' = basis /\ prompt' = prompt
    BY <1>1 DEF ghosts
  <2> SUFFICES ASSUME Inputs(state, outputs, basis, prompt), NEW n \in Nodes, NEW d \in Deps[n]
               PROVE  /\ state'[n] \in {"done", "running"} => state'[d] = "done"
                      /\ state'[n] = "done" => basis[n][d] = outputs[d]
                      /\ state'[n] = "running" => prompt[n][d] = outputs[d]
    BY <1>2, <2>1 DEF Inputs
  <2>2. d \in Nodes
    BY Limits
  <2> QED
    BY <1>1, <2>2 DEF Inputs
<1>7. Judged(state', outputs', attempt', rejected', redoLost')
  BY <1>1, <1>2 DEF Judged, ghosts
<1>8. Spare(status', state', attempt', Budget(repairsUsed', troubles'), over')
  <2>1. Budget(repairsUsed', troubles') = Budget(repairsUsed, troubles) /\ over' = over /\ attempt' = attempt
    BY <1>1 DEF verdicts
  <2> QED
    BY <1>1, <1>2, <2>1 DEF Spare
<1>9. SoundNow'
  BY <1>1, <1>2, <1>4, <1>5, <1>6, <1>7, <1>8 DEF SoundNow, Sound, verdicts, ghosts
<1>10. disk' \in DiskType /\ disk'.output = disk.output /\ disk'.fails = disk.fails
  <2>1. disk \in DiskType
    BY DEF TaskInv, Rest
  <2> DEFINE ended == [n \in Nodes |-> IF state[n] = "running" THEN "cancelled" ELSE disk.ended[n]]
  <2>2. ended \in [Nodes -> {"none", "done", "failed", "cancelled"}]
    BY <2>1 DEF DiskType
  <2>3. disk' = [disk EXCEPT !.ended = ended]
    BY <1>1
  <2> HIDE DEF ended
  <2> QED
    BY <2>1, <2>2, <2>3 DEF DiskType
<1>11. Rest'
  BY <1>1, <1>10 DEF TaskInv, Rest, verdicts, ghosts, Terminal
<1> QED
  BY <1>9, <1>11 DEF TaskInv

\* What comes back from the log: of an undisturbed run, exactly what was done.
LEMMA CrashKeeps == TaskInv /\ Crash => TaskInv'
<1> SUFFICES ASSUME TaskInv, Crash PROVE TaskInv'
  OBVIOUS
<1>1. /\ status' = "down" /\ troubles' = troubles + 1
      /\ state' = HydratedState
      /\ inFlight' = 0 /\ over' = FALSE /\ ask' = "none"
      /\ stage' = Nothing("none")
      /\ repairsUsed' = disk.fails /\ unparsedReAsks' = disk.unparsed /\ lastRepairScoped' = FALSE
      /\ UNCHANGED <<attempt, prompt, basis, rejected, unwritten>>
  BY DEF Crash
<1>2. /\ attempt \in [Nodes -> Nat] /\ rejected \in [Nodes -> Nat]
      /\ \A m \in Nodes : prompt[m] \in [Deps[m] -> Nat]
      /\ redoLost \/ Inputs(state, outputs, basis, prompt)
      /\ Judged(state, outputs, attempt, rejected, redoLost)
  BY DEF TaskInv, SoundNow, Sound
<1>3. /\ disk \in DiskType /\ disk.output \in [Nodes -> Nat] /\ disk.fails \in Nat /\ disk.unparsed \in Nat
      /\ repairsUsed <= disk.fails /\ \A n \in Nodes : disk.output[n] <= attempt[n]
      /\ troubles \in Nat /\ unwritten \in BOOLEAN
      /\ DOMAIN basis = Nodes /\ \A n \in Nodes : basis[n] \in [Deps[n] -> Nat]
  BY DEF TaskInv, Rest, DiskType
<1> DEFINE files == disk'.output
<1>4. PICK left \in FilesLeft : disk' = [disk EXCEPT !.output = left] /\ outputs' = HydratedOutput(left)
  BY DEF Crash
<1>5. /\ left \in [Nodes -> Nat]
      /\ \A n \in Nodes : left[n] = disk.output[n] \/ (state[n] = "running" /\ left[n] = attempt[n])
  <2>1. CASE left = disk.output
    BY <1>3, <2>1
  <2>2. ASSUME NEW m \in Nodes, state[m] = "running", left = [disk.output EXCEPT ![m] = attempt[m]]
        PROVE  /\ left \in [Nodes -> Nat]
               /\ \A n \in Nodes : left[n] = disk.output[n] \/ (state[n] = "running" /\ left[n] = attempt[n])
    <3>1. attempt[m] \in Nat /\ disk.output \in [Nodes -> Nat]
      BY <1>2, <1>3
    <3>2. \A n \in Nodes : left[n] = IF n = m THEN attempt[m] ELSE disk.output[n]
      BY <2>2, <3>1
    <3> QED
      BY <2>2, <3>1, <3>2
  <2> QED
    BY <2>1, <2>2 DEF FilesLeft
<1>6. /\ disk' = [ended |-> disk.ended, output |-> left, fails |-> disk.fails, unparsed |-> disk.unparsed]
      /\ files = left
  BY <1>3, <1>4 DEF DiskType
<1>7. disk' \in DiskType /\ disk'.fails = disk.fails
  BY <1>3, <1>5, <1>6 DEF DiskType
<1>8. \A n \in Nodes : files[n] \in Nat /\ files[n] <= attempt[n]
  BY <1>2, <1>3, <1>5, <1>6
<1>9. /\ state' = [n \in Nodes |-> IF disk.ended[n] \in {"done", "failed"} THEN disk.ended[n] ELSE "pending"]
      /\ outputs' = [n \in Nodes |-> IF disk.ended[n] = "done" THEN files[n] ELSE 0]
  BY <1>1, <1>4, <1>6 DEF HydratedState, HydratedOutput
<1>10. \/ redoLost'
      \/ /\ ~redoLost /\ redoLost' = FALSE
         /\ \A n \in Nodes : state[n] = "done" \/ disk.ended[n] = "done"
              => state[n] = disk.ended[n] /\ outputs[n] = files[n]
  <2>1. \/ redoLost'
        \/ /\ ~redoLost /\ redoLost' = FALSE
           /\ \A n \in Nodes : state[n] = "done" \/ disk.ended[n] = "done"
                => state[n] = disk.ended[n] /\ outputs[n] = disk.output[n]
    BY DEF Crash, TaskInv, Rest
  <2>2. \A n \in Nodes : state[n] = "done" => files[n] = disk.output[n]
    BY <1>5, <1>6
  <2> HIDE DEF files
  <2> QED
    BY <2>1, <2>2
<1> HIDE DEF files
<1>11. Shape(status', state', inFlight', stage', outputs')
  BY <1>1, <1>3, <1>9, <1>8 DEF Shape, Statuses, NodeStates, StageNames, Nothing
<1>12. Slots(status', state', inFlight', stage')
  <2>1. Runners(state') = {}
    BY <1>9 DEF Runners
  <2>2. Cardinality(Runners(state')) = 0
    BY <2>1, FS_EmptySet
  <2> QED
    BY <1>1, <1>9, <2>1, <2>2, Limits DEF Slots, Terminal, Nothing
<1>13. redoLost' \/ Inputs(state', outputs', basis', prompt')
  <2> SUFFICES ASSUME ~redoLost', NEW n \in Nodes, NEW d \in Deps[n]
               PROVE  /\ state'[n] \in {"done", "running"} => state'[d] = "done"
                      /\ state'[n] = "done" => basis'[n][d] = outputs'[d]
                      /\ state'[n] = "running" => prompt'[n][d] = outputs'[d]
    BY DEF Inputs
  <2>1. d \in Nodes
    BY Limits
  <2>2. /\ state[n] = "done" => state[d] = "done"
        /\ state[n] = "done" => basis[n][d] = outputs[d]
    BY <1>2, <1>10 DEF Inputs
  <2>3. state'[n] # "running" /\ (state'[n] = "done" <=> disk.ended[n] = "done")
    BY <1>9
  <2>4. disk.ended[n] = "done" => state[n] = "done"
    BY <1>10
  <2>5. state[d] = "done" => disk.ended[d] = "done" /\ outputs[d] = files[d]
    BY <1>10, <2>1
  <2> QED
    BY <1>1, <1>9, <2>1, <2>2, <2>3, <2>4, <2>5
<1>14. Judged(state', outputs', attempt', rejected', redoLost')
  <2> SUFFICES ASSUME NEW n \in Nodes
               PROVE  /\ outputs'[n] <= attempt[n] /\ rejected[n] <= attempt[n]
                      /\ state'[n] # "running"
                      /\ state'[n] = "done" /\ ~redoLost' => rejected[n] < outputs'[n]
    BY <1>1 DEF Judged
  <2>1. /\ rejected[n] <= attempt[n]
        /\ state[n] = "done" /\ ~redoLost => rejected[n] < outputs[n]
    BY <1>2 DEF Judged
  <2> QED
    BY <1>2, <1>3, <1>9, <1>10, <1>8, <2>1
<1>15. Budget(repairsUsed', troubles') = Budget(disk.fails, troubles + 1)
  BY <1>1
<1>16. /\ Budget(repairsUsed', troubles') \in Nat
       /\ \A n \in Nodes : attempt[n] <= Budget(repairsUsed', troubles')
  BY <1>3, <1>15, TroubleGranted
<1>17. Spare(status', state', attempt', Budget(repairsUsed', troubles'), over')
  BY <1>1, <1>2, <1>16 DEF Spare
<1>18. SoundNow'
  BY <1>1, <1>2, <1>11, <1>12, <1>13, <1>14, <1>16, <1>17 DEF SoundNow, Sound
<1>19. redoLost' \in BOOLEAN
  BY DEF Crash, TaskInv, Rest
<1>20. /\ repairsUsed' \in Nat /\ unparsedReAsks' \in Nat /\ troubles' \in Nat /\ repairsUsed' <= disk'.fails
       /\ \A n \in Nodes : disk'.output[n] <= attempt'[n]
  BY <1>1, <1>3, <1>7, <1>8 DEF files
<1>21. DOMAIN basis' = Nodes /\ \A n \in Nodes : basis'[n] \in [Deps[n] -> Nat]
  BY <1>1, <1>3
<1>22. Rest'
  BY <1>1, <1>3, <1>19, <1>20, <1>21, <1>7 DEF Rest
<1> QED
  BY <1>18, <1>22 DEF TaskInv

LEMMA TaskStutters == TaskInv /\ UNCHANGED vars => TaskInv'
BY DEF TaskInv, SoundNow, Rest, vars, verdicts, ghosts

LEMMA TaskNext == TaskInv /\ [Next]_vars => TaskInv'
<1> SUFFICES ASSUME TaskInv, [Next]_vars PROVE TaskInv'
  OBVIOUS
<1>1. ASSUME NEW n \in Nodes,
             \/ TurnStarts(n) \/ DispatchFails(n) \/ TurnFallsSilent(n) \/ TurnEnds(n)
             \/ Checked(n) \/ Dropped(n)
      PROVE  TaskInv'
  BY <1>1, NodeActions
<1>2. CASE VerdictArrives \/ VerdictFallsSilent \/ VerdictNotWritten \/ Classified \/ SendFails
  BY <1>2, VerdictActions
<1>3. CASE Scoped
  BY <1>3, ScopedKeeps
<1>4. CASE Pause
  BY <1>4, PauseKeeps
<1>5. CASE Resume \/ Rehydrate
  BY <1>5, ResumeKeeps
<1>6. CASE Stop
  BY <1>6, StopKeeps
<1>7. CASE Crash
  BY <1>7, CrashKeeps
<1>8. CASE UNCHANGED vars
  BY <1>8, TaskStutters
<1> QED
  BY <1>1, <1>2, <1>3, <1>4, <1>5, <1>6, <1>7, <1>8 DEF Next

LEMMA TaskInvariant == Spec => []TaskInv
<1>1. Init => TaskInv
  BY TaskInit
<1>2. TaskInv /\ [Next]_vars => TaskInv'
  BY TaskNext
<1> QED
  BY <1>1, <1>2, PTL DEF Spec

----------------------------------------------------------------------------
(* The theorems. *)

\* The variables have their types, and no node is dispatched more often than
\* its retries, the repairs and the interruptions allow, whatever fails.
THEOREM TaskTypeCorrectness == Spec => []TaskTypeOK
<1>1. TaskInv => TaskTypeOK
  <2> SUFFICES ASSUME TaskInv PROVE TaskTypeOK
    OBVIOUS
  <2>1. /\ attempt \in [Nodes -> Nat] /\ rejected \in [Nodes -> Nat]
        /\ \A n \in Nodes : prompt[n] \in [Deps[n] -> Nat]
        /\ \A n \in Nodes : outputs[n] <= attempt[n]
    BY DEF TaskInv, SoundNow, Sound, Judged
  <2>2. /\ status \in {"running", "paused", "verifying", "down"} \cup Terminal
        /\ state \in [Nodes -> {"pending", "running", "done", "failed", "cancelled"}]
        /\ inFlight \in Nat
        /\ stage \in [Nodes -> {"none", "dispatching", "turn", "silent", "checking"}]
        /\ outputs \in [Nodes -> Nat]
    BY DEF TaskInv, SoundNow, Sound, Shape, Statuses, NodeStates, StageNames
  <2>3. \A n \in Nodes : attempt[n] <= AttemptLimit
    <3>1. /\ repairsUsed \in Nat /\ troubles \in Nat
          /\ \A n \in Nodes : attempt[n] <= 1 + Budget(repairsUsed, troubles)
      BY DEF TaskInv, SoundNow, Sound, Spare, Rest
    <3>2. Budget(repairsUsed, troubles) \in Nat /\ Budget(repairsUsed, troubles) <= RetryLimit + MaxRepairs + troubles
      BY <3>1, BudgetGrows
    <3> QED
      BY <2>1, <3>1, <3>2, Limits DEF AttemptLimit
  <2>4. /\ ask \in {"none", "asked", "silent", "classifying", "scoping"}
        /\ {repairsUsed, unparsedReAsks, troubles} \subseteq Nat
        /\ {lastRepairScoped, over, redoLost, unwritten} \subseteq BOOLEAN
        /\ disk \in DiskType
        /\ \A n \in Nodes : basis[n] \in [Deps[n] -> Nat]
    BY DEF TaskInv, Rest
  <2> QED
    BY <2>1, <2>2, <2>3, <2>4 DEF TaskTypeOK, DiskType
<1> QED
  BY <1>1, TaskInvariant, PTL

\* The count of nodes in flight is right in every run and never above
\* max_parallel: no completion, failure, stop or restart frees a slot twice or
\* keeps one.
THEOREM SlotsAreKept == Spec => []SlotsMatchRunning
<1>1. TaskInv => SlotsMatchRunning
  BY DEF TaskInv, SoundNow, Sound, Slots, Runners, SlotsMatchRunning, RunningNodes
<1> QED
  BY <1>1, TaskInvariant, PTL

\* A finished node was made from its dependencies' present outputs, unless a
\* restart found the log behind the run.
THEOREM InputsAreCurrent == Spec => []InputsCurrent
<1>1. TaskInv => InputsCurrent
  BY DEF TaskInv, SoundNow, Sound, Inputs, InputsCurrent
<1> QED
  BY <1>1, TaskInvariant, PTL

\* No run completes with an unfinished node or on an output that a verdict
\* rejected.
THEOREM CompletedIsAccepted == Spec => []CompletedMeansAccepted
<1>1. TaskInv => CompletedMeansAccepted
  <2> SUFFICES ASSUME TaskInv, status = "completed", NEW n \in Nodes
               PROVE  state[n] = "done" /\ (redoLost \/ outputs[n] > rejected[n])
    BY DEF CompletedMeansAccepted
  <2>1. /\ Slots(status, state, inFlight, stage) /\ Judged(state, outputs, attempt, rejected, redoLost)
        /\ outputs[n] \in Nat /\ rejected[n] \in Nat
    BY DEF TaskInv, SoundNow, Sound, Shape
  <2>2. state[n] = "done"
    BY <2>1 DEF Slots
  <2>3. redoLost \/ rejected[n] < outputs[n]
    BY <2>1, <2>2 DEF Judged
  <2> QED
    BY <2>1, <2>2, <2>3
<1> QED
  BY <1>1, TaskInvariant, PTL
=============================================================================
