------------------------ MODULE WebhookIngestProofs ------------------------
(***************************************************************************)
(* What a provider was answered 202 for is kept until it is handled, what  *)
(* it is told of a duplicate is true, and its automations run once, for    *)
(* every number of events, acceptances, failures, failed writes and        *)
(* crashes.                                                                *)
(***************************************************************************)
EXTENDS WebhookIngest, FiniteSetTheorems, SequenceTheorems, TLAPS

----------------------------------------------------------------------------
(* Types. *)

LEMMA OrderIsSeq ==
  ASSUME NEW E \in SUBSET Events, NEW order \in SetToSeqs(E)
  PROVE  /\ order \in Seq(E) /\ Len(order) = Cardinality(E) /\ Cardinality(E) \in Nat
         /\ (E # {} => order # <<>>)
<1>1. IsFiniteSet(E) /\ Cardinality(E) \in Nat
  BY FS_Subset, FS_CardinalityType, IngestAssumption
<1>2. order \in [1 .. Cardinality(E) -> E]
  BY DEF SetToSeqs
<1>3. order \in Seq(E) /\ Len(order) = Cardinality(E)
  BY <1>1, <1>2
<1>4. E # {} => Cardinality(E) # 0
  BY <1>1, FS_EmptySet
<1> QED
  BY <1>1, <1>3, <1>4

LEMMA DeliveriesType ==
  ASSUME IngestTypeOK, NEW E \in SUBSET PendingEvents, NEW order \in SetToSeqs(E),
         NEW drain \in BOOLEAN
  PROVE  /\ Deliveries(order, drain) \in Seq(Process)
         /\ Len(Deliveries(order, drain)) = Len(order)
         /\ (E # {} => Deliveries(order, drain) # <<>>)
<1>1. order \in Seq(E) /\ Len(order) \in Nat /\ (E # {} => order # <<>>)
  BY OrderIsSeq, LenProperties DEF PendingEvents
<1>2. ASSUME NEW i \in 1 .. Len(order)
      PROVE  [event |-> order[i], n |-> entries[order[i]].n, drain |-> drain] \in Process
  <2>1. order[i] \in E
    BY <1>1, ElementOfSeq
  <2>2. order[i] \in Events /\ entries[order[i]] \in Line
    BY <2>1 DEF PendingEvents, Pending, IngestTypeOK
  <2> QED
    BY <2>2 DEF Process, Line
<1>3. Deliveries(order, drain) \in [1 .. Len(order) -> Process]
  BY <1>2 DEF Deliveries
<1>4. Deliveries(order, drain) \in Seq(Process) /\ Len(Deliveries(order, drain)) = Len(order)
  BY <1>1, <1>3
<1> QED
  BY <1>1, <1>4, EmptySeq, LenProperties

LEMMA Bounds == RateCap \in Nat /\ BusLimit \in Nat /\ MaxAccepts \in Nat
BY IngestAssumption

LEMMA IngestInitType == Init => IngestTypeOK
<1> SUFFICES ASSUME Init PROVE IngestTypeOK
  OBVIOUS
<1>1. inflight \in Seq(Process) /\ toDrain \in Seq(Process) /\ accepted \in Seq(Events)
  BY EmptySeq DEF Init
<1>2. admitted \in 0 .. RateCap /\ busCount \in 0 .. BusLimit /\ Len(accepted) <= MaxAccepts
  BY EmptySeq, Bounds DEF Init
<1>3. /\ entries \in [Events -> Line \cup {None}] /\ fresh \in [Events -> Nat]
      /\ executions \in [Acceptances -> Nat]
  BY DEF Init
<1> QED
  BY <1>1, <1>2, <1>3 DEF Init, IngestTypeOK

LEMMA WritesType ==
  ASSUME IngestTypeOK, NEW ok \in BOOLEAN, Writes(ok)
  PROVE  faults' \in Nat
BY DEF Writes, IngestTypeOK

LEMMA AdmitsType ==
  ASSUME IngestTypeOK, NEW e \in Events, Admits(e)
  PROVE  admitted' \in 0 .. RateCap
BY Bounds DEF Admits, IngestTypeOK

LEMMA RecordType ==
  ASSUME IngestTypeOK, NEW e \in Events, NEW ok \in BOOLEAN, Record(e, ok)
  PROVE  seen' \subseteq Events /\ dedupFile' \subseteq Events /\ forgotten' \subseteq Events
BY DEF Record, IngestTypeOK

LEMMA RequestType ==
  ASSUME IngestTypeOK, NEW e \in Events, Request(e)
  PROVE  IngestTypeOK'
<1>1. CASE Duplicate(e)
  BY <1>1 DEF Duplicate, vars, file, memory, answers, outcome, bounds, IngestTypeOK
<1>2. CASE RateLimited(e)
  BY <1>2 DEF RateLimited, vars, file, memory, answers, outcome, bounds, IngestTypeOK
<1>3. CASE Accept(e)
  <2>1. PICK ok \in BOOLEAN :
          /\ Len(accepted) + 1 <= MaxAccepts
          /\ Record(e, ok) /\ Writes(ok)
          /\ entries' = [entries EXCEPT ![e] = [n |-> Len(accepted) + 1, waiting |-> FALSE]]
          /\ inflight' = Append(inflight, [event |-> e, n |-> Len(accepted) + 1, drain |-> FALSE])
          /\ accepted' = Append(accepted, e)
          /\ fresh' = [fresh EXCEPT ![e] = @ + 1]
    BY <1>3 DEF Accept
  <2>2. Len(accepted) + 1 \in Acceptances
    BY <2>1, LenProperties, IngestAssumption DEF IngestTypeOK, Acceptances
  <2>3. entries' \in [Events -> Line \cup {None}]
    BY <2>1, <2>2 DEF IngestTypeOK, Line
  <2>4. inflight' \in Seq(Process) /\ inflight' # <<>>
    <3> DEFINE p == [event |-> e, n |-> Len(accepted) + 1, drain |-> FALSE]
    <3>1. p \in Process
      BY <2>2 DEF Process
    <3>2. inflight \in Seq(Process)
      BY DEF IngestTypeOK
    <3>3. inflight' = Append(inflight, p)
      BY <2>1
    <3> HIDE DEF p
    <3> QED
      BY <3>1, <3>2, <3>3, AppendProperties
  <2>5. accepted' \in Seq(Events) /\ Len(accepted') <= MaxAccepts
    BY <2>1, AppendProperties DEF IngestTypeOK
  <2>6. seen' \subseteq Events /\ dedupFile' \subseteq Events /\ forgotten' \subseteq Events
    BY <2>1, RecordType
  <2>7. faults' \in Nat /\ admitted' \in 0 .. RateCap
    BY <1>3, <2>1, WritesType, AdmitsType DEF Accept
  <2>8. fresh' \in [Events -> Nat]
    BY <2>1 DEF IngestTypeOK
  <2> QED
    BY <1>3, <2>3, <2>4, <2>5, <2>6, <2>7, <2>8
    DEF Accept, IngestTypeOK, outcome
<1>4. CASE AcceptFails(e)
  <2>1. faults' \in Nat /\ admitted' \in 0 .. RateCap
    BY <1>4, WritesType, AdmitsType DEF AcceptFails
  <2>2. seen' \subseteq Events /\ dedupFile' \subseteq Events /\ forgotten' \subseteq Events
    BY <1>4, RecordType DEF AcceptFails
  <2> QED
    BY <1>4, <2>1, <2>2 DEF AcceptFails, outcome, IngestTypeOK
<1> QED
  BY <1>1, <1>2, <1>3, <1>4 DEF Request

LEMMA EndsType ==
  ASSUME IngestTypeOK, inflight # <<>>, NEW goesOn \in BOOLEAN, Ends(goesOn)
  PROVE  /\ inflight' \in Seq(Process) /\ toDrain' \in Seq(Process) /\ stage' = "waiting"
         /\ Current \in Process
<1>1. Tail(inflight) \in Seq(Process) /\ Current \in Process
  BY HeadTailProperties DEF IngestTypeOK, Current
<1>2. toDrain # <<>> => Head(toDrain) \in Process /\ Tail(toDrain) \in Seq(Process)
  BY HeadTailProperties DEF IngestTypeOK
<1>3. inflight' \in Seq(Process)
  BY <1>1, <1>2, AppendProperties DEF Ends, NextToDrain
<1>4. toDrain' \in Seq(Process)
  BY <1>2, EmptySeq DEF Ends, NextToDrain, IngestTypeOK
<1> QED
  BY <1>1, <1>3, <1>4 DEF Ends

LEMMA DispatchType ==
  ASSUME IngestTypeOK, Dispatch
  PROVE  IngestTypeOK'
<1>1. inflight # <<>> /\ Current \in Process /\ Current.event \in Events /\ Current.n \in Acceptances
  <2>1. inflight # <<>> /\ inflight \in Seq(Process)
    BY DEF Dispatch, Perform, BusDrops, Succeeds, Fails, IngestTypeOK
  <2>2. Current \in Process
    BY <2>1, HeadTailProperties DEF Current
  <2> QED
    BY <2>1, <2>2 DEF Process
<1>2. CASE Perform
  <2>1. busCount' \in 0 .. BusLimit
    BY <1>2, Bounds DEF Perform, IngestTypeOK
  <2>2. executions' \in [Acceptances -> Nat]
    BY <1>1, <1>2 DEF Perform, IngestTypeOK
  <2> QED
    BY <1>2, <2>1, <2>2 DEF Perform, file, answers, bounds, IngestTypeOK
<1>3. CASE BusDrops
  BY <1>1, <1>3 DEF BusDrops, file, answers, bounds, IngestTypeOK
<1>4. CASE Succeeds
  <2>1. PICK ok \in BOOLEAN :
          /\ Writes(ok)
          /\ tombstones' = IF ok THEN tombstones \cup {Current.event} ELSE tombstones
          /\ succeeded' = IF stage = "performed" THEN succeeded \cup {Current.n} ELSE succeeded
          /\ redelivered' = IF ok THEN redelivered ELSE redelivered \cup {Current.n}
          /\ Ends(TRUE)
    BY <1>4 DEF Succeeds
  <2>2. inflight' \in Seq(Process) /\ toDrain' \in Seq(Process) /\ stage' = "waiting"
    BY <1>1, <2>1, EndsType
  <2>3. faults' \in Nat
    BY <2>1, WritesType
  <2>4. tombstones' \subseteq Events /\ succeeded' \subseteq Acceptances /\ redelivered' \subseteq Acceptances
    BY <1>1, <2>1 DEF IngestTypeOK
  <2> QED
    BY <1>4, <2>2, <2>3, <2>4 DEF Succeeds, answers, IngestTypeOK
<1>5. CASE Fails
  <2>1. PICK ok \in BOOLEAN :
          /\ Writes(ok)
          /\ entries' = IF ok THEN [entries EXCEPT ![Current.event] = [n |-> Current.n, waiting |-> TRUE]]
                              ELSE entries
          /\ Ends(ok)
    BY <1>5 DEF Fails
  <2>2. inflight' \in Seq(Process) /\ toDrain' \in Seq(Process) /\ stage' = "waiting"
    BY <1>1, <2>1, EndsType
  <2>3. faults' \in Nat /\ failures' \in Nat
    BY <1>5, <2>1, WritesType DEF Fails, IngestTypeOK
  <2>4. entries' \in [Events -> Line \cup {None}]
    BY <1>1, <2>1 DEF IngestTypeOK, Line
  <2>5. redelivered' \subseteq Acceptances
    BY <1>1, <1>5 DEF Fails, IngestTypeOK
  <2> QED
    BY <1>5, <2>2, <2>3, <2>4, <2>5 DEF Fails, answers, IngestTypeOK
<1> QED
  BY <1>2, <1>3, <1>4, <1>5 DEF Dispatch

LEMMA TickType ==
  ASSUME IngestTypeOK, TimerTick
  PROVE  IngestTypeOK'
<1>1. PICK order \in SetToSeqs(DueEvents) : inflight' = inflight \o Deliveries(order, FALSE)
  BY DEF TimerTick
<1>2. DueEvents \in SUBSET PendingEvents /\ DueEvents # {}
  BY DEF DueEvents, TimerTick
<1>3. Deliveries(order, FALSE) \in Seq(Process) /\ Len(Deliveries(order, FALSE)) # 0
  BY <1>2, DeliveriesType, EmptySeq, LenProperties
<1>4. inflight' \in Seq(Process) /\ inflight' # <<>>
  <2> DEFINE ds == Deliveries(order, FALSE)
  <2>1. inflight \in Seq(Process) /\ ds \in Seq(Process) /\ Len(ds) # 0 /\ inflight' = inflight \o ds
    BY <1>1, <1>3 DEF IngestTypeOK
  <2> HIDE DEF ds
  <2>2. inflight' \in Seq(Process) /\ Len(inflight') = Len(inflight) + Len(ds)
    BY <2>1, ConcatProperties
  <2> QED
    BY <2>1, <2>2, LenProperties, EmptySeq
<1>5. redelivered' \subseteq Acceptances
  BY DEF TimerTick, DueEvents, PendingEvents, Pending, IngestTypeOK, Line
<1> QED
  BY <1>4, <1>5 DEF TimerTick, file, answers, bounds, IngestTypeOK

LEMMA StartType ==
  ASSUME IngestTypeOK, Start
  PROVE  IngestTypeOK'
<1>1. CASE StartEmpty
  BY <1>1 DEF StartEmpty, LoadedDedup, file, answers, outcome, bounds, IngestTypeOK
<1>2. CASE StartDraining
  <2>1. PICK order \in SetToSeqs(PendingEvents) :
          /\ inflight' = <<Head(Deliveries(order, TRUE))>>
          /\ toDrain' = Tail(Deliveries(order, TRUE))
    BY <1>2 DEF StartDraining
  <2>2. Deliveries(order, TRUE) \in Seq(Process) /\ Deliveries(order, TRUE) # <<>>
    BY <1>2, <2>1, DeliveriesType DEF StartDraining
  <2>3. inflight' \in Seq(Process) /\ inflight' # <<>> /\ toDrain' \in Seq(Process)
    <3> DEFINE all == Deliveries(order, TRUE)
    <3>1. all \in Seq(Process) /\ all # <<>> /\ inflight' = <<Head(all)>> /\ toDrain' = Tail(all)
      BY <2>1, <2>2
    <3> HIDE DEF all
    <3>2. Head(all) \in Process /\ Tail(all) \in Seq(Process)
      BY <3>1, HeadTailProperties
    <3> QED
      BY <3>1, <3>2
  <2>4. faults' \in Nat /\ entries' \in [Events -> Line \cup {None}] /\ tombstones' \subseteq Events
    BY <1>2 DEF StartDraining, Writes, IngestTypeOK
  <2> QED
    BY <1>2, <2>3, <2>4 DEF StartDraining, LoadedDedup, answers, outcome, IngestTypeOK
<1> QED
  BY <1>1, <1>2 DEF Start

LEMMA TimeType ==
  ASSUME IngestTypeOK,
         \/ \E e \in Events : BackoffElapses(e) \/ DedupExpires(e)
         \/ SlotFrees \/ BusWindowTurns \/ Crash \/ UNCHANGED vars
  PROVE  IngestTypeOK'
<1>1. ASSUME NEW e \in Events, BackoffElapses(e) PROVE IngestTypeOK'
  <2>1. entries' \in [Events -> Line \cup {None}]
    BY <1>1 DEF BackoffElapses, Pending, IngestTypeOK, Line
  <2> QED
    BY <1>1, <2>1 DEF BackoffElapses, memory, answers, outcome, bounds, IngestTypeOK
<1>2. ASSUME NEW e \in Events, DedupExpires(e) PROVE IngestTypeOK'
  BY <1>2 DEF DedupExpires, outcome, bounds, IngestTypeOK
<1>3. CASE SlotFrees
  BY <1>3, Bounds DEF SlotFrees, file, answers, outcome, bounds, IngestTypeOK
<1>4. CASE BusWindowTurns
  BY <1>4, Bounds DEF BusWindowTurns, file, answers, outcome, bounds, IngestTypeOK
<1>5. CASE Crash
  <2>1. redelivered' \subseteq Acceptances
    BY <1>5 DEF Crash, PendingEvents, Pending, IngestTypeOK, Line
  <2>2. inflight' \in Seq(Process) /\ toDrain' \in Seq(Process)
    BY <1>5, EmptySeq DEF Crash
  <2>3. admitted' \in 0 .. RateCap /\ busCount' \in 0 .. BusLimit
    BY <1>5, Bounds DEF Crash
  <2>4. up' \in BOOLEAN /\ seen' \subseteq Events /\ stage' = "waiting" /\ crashes' \in Nat
    <3>1. up' = FALSE
      BY <1>5 DEF Crash
    <3>2. seen' \subseteq Events /\ stage' = "waiting" /\ crashes' \in Nat
      BY <1>5 DEF Crash, IngestTypeOK
    <3> QED
      BY <3>1, <3>2
  <2>5. UNCHANGED <<dedupFile, entries, tombstones, accepted, fresh, unstored, forgotten,
                    executions, succeeded, dropped, failures, faults>>
    BY <1>5 DEF Crash, file, answers
  <2> QED
    BY <2>1, <2>2, <2>3, <2>4, <2>5 DEF IngestTypeOK
<1>6. CASE UNCHANGED vars
  BY <1>6 DEF vars, file, memory, answers, outcome, bounds, IngestTypeOK
<1> QED
  BY <1>1, <1>2, <1>3, <1>4, <1>5, <1>6

LEMMA IngestNextType ==
  ASSUME IngestTypeOK, [Next]_vars
  PROVE  IngestTypeOK'
BY RequestType, DispatchType, TickType, StartType, TimeType DEF Next

\* Every reachable state of the webhook receiver is well typed, whatever is sent, fails or crashes.
THEOREM IngestTypeCorrectness == Spec => []IngestTypeOK
BY IngestInitType, IngestNextType, PTL DEF Spec

----------------------------------------------------------------------------
(* Kept until handled.  AcceptedIsKept is not inductive: a tombstone must mean *)
(* that its event was handled, and so must the end of a dispatch, whose event  *)
(* is therefore the one its acceptance was made for.                           *)

KnownProcess ==
  {p \in Process : p.n \in 1 .. Len(accepted) /\ accepted[p.n] = p.event}

KnownEntries ==
  \A e \in Events : entries[e] # None =>
    entries[e].n \in 1 .. Len(accepted) /\ accepted[entries[e].n] = e

HandledEvents == {accepted[n] : n \in succeeded \cup dropped}

KeptInv ==
  /\ (inflight # <<>> => up)
  /\ inflight \in Seq(KnownProcess) /\ toDrain \in Seq(KnownProcess)
  /\ KnownEntries
  /\ succeeded \cup dropped \subseteq 1 .. Len(accepted)
  /\ (stage = "dropped" => Current.n \in dropped)
  /\ tombstones \subseteq HandledEvents
  /\ \A e \in ToSet(accepted) : entries[e] # None \/ e \in HandledEvents

LEMMA KeptImplies ==
  ASSUME KeptInv
  PROVE  AcceptedIsKept
<1>1. ASSUME NEW e \in HandledEvents PROVE Handled(e)
  BY DEF HandledEvents, Handled
<1>2. ASSUME NEW e \in ToSet(accepted) PROVE Pending(e) \/ Handled(e)
  BY <1>1 DEF KeptInv, Pending
<1> QED
  BY <1>2 DEF AcceptedIsKept

LEMMA KeptInit == Init => KeptInv
<1> SUFFICES ASSUME Init PROVE KeptInv
  OBVIOUS
<1>1. Len(accepted) = 0 /\ inflight \in Seq(KnownProcess) /\ toDrain \in Seq(KnownProcess)
  BY EmptySeq DEF Init
<1>2. ToSet(accepted) = {}
  BY <1>1 DEF ToSet
<1> QED
  BY <1>1, <1>2 DEF Init, KeptInv, KnownEntries

\* A step that accepts nothing keeps the invariant if its deliveries and its entries are known,
\* no tombstone comes before its event is handled, and no entry goes before its tombstone.
LEMMA KeptStep ==
  ASSUME KeptInv, accepted' = accepted,
         (inflight # <<>> => up)',
         inflight' \in Seq(KnownProcess), toDrain' \in Seq(KnownProcess),
         KnownEntries',
         succeeded \subseteq succeeded', dropped \subseteq dropped',
         succeeded' \cup dropped' \subseteq 1 .. Len(accepted),
         (stage = "dropped" => Current.n \in dropped)',
         tombstones' \subseteq tombstones \cup HandledEvents',
         \A e \in ToSet(accepted) : entries[e] # None => entries'[e] # None \/ e \in tombstones
  PROVE  KeptInv'
<1>1. KnownProcess' = KnownProcess /\ ToSet(accepted)' = ToSet(accepted)
  BY DEF KnownProcess, ToSet
<1>2. HandledEvents \subseteq HandledEvents'
  BY DEF HandledEvents
<1>3. tombstones' \subseteq HandledEvents'
  BY <1>2 DEF KeptInv
<1>4. (\A e \in ToSet(accepted) : entries[e] # None \/ e \in HandledEvents)'
  BY <1>1, <1>2 DEF KeptInv
<1> QED
  BY <1>1, <1>3, <1>4 DEF KeptInv

LEMMA KeptAccept ==
  ASSUME IngestTypeOK, KeptInv, NEW e \in Events, Accept(e)
  PROVE  KeptInv'
<1> DEFINE k == Len(accepted) + 1
<1> DEFINE p == [event |-> e, n |-> k, drain |-> FALSE]
<1>1. /\ entries' = [entries EXCEPT ![e] = [n |-> k, waiting |-> FALSE]]
      /\ inflight' = Append(inflight, p)
      /\ accepted' = Append(accepted, e)
      /\ k <= MaxAccepts
      /\ UNCHANGED <<tombstones, stage, toDrain, succeeded, dropped>>
  BY DEF Accept, outcome
<1>2. Len(accepted) \in Nat /\ k \in Acceptances
  BY <1>1, LenProperties, Bounds DEF IngestTypeOK, Acceptances
<1>3. /\ Len(accepted') = k /\ accepted'[k] = e
      /\ \A m \in 1 .. Len(accepted) : accepted'[m] = accepted[m]
  BY <1>1, AppendProperties DEF IngestTypeOK
<1>4. KnownProcess \subseteq KnownProcess'
  BY <1>2, <1>3 DEF KnownProcess
<1>5. inflight \in Seq(KnownProcess') /\ toDrain \in Seq(KnownProcess')
  BY <1>4 DEF KeptInv
<1>6. p \in KnownProcess'
  BY <1>2, <1>3 DEF KnownProcess, Process
<1>7. inflight' \in Seq(KnownProcess') /\ toDrain' \in Seq(KnownProcess')
  <2> HIDE DEF p
  <2>1. Append(inflight, p) \in Seq(KnownProcess')
    BY <1>5, <1>6, AppendProperties
  <2> QED
    BY <1>1, <1>5, <2>1
<1>8. entries'[e] # None /\ entries'[e].n = k
  <2>1. [n |-> k, waiting |-> FALSE] \in Line
    BY <1>2 DEF Line
  <2>2. entries'[e] = [n |-> k, waiting |-> FALSE]
    BY <1>1 DEF IngestTypeOK
  <2>3. [n |-> k, waiting |-> FALSE] # None
    BY <2>1, IngestAssumption
  <2> QED
    BY <2>2, <2>3
<1>9. \A x \in Events : x # e => entries'[x] = entries[x]
  BY <1>1 DEF IngestTypeOK
<1> HIDE DEF p
<1>10. KnownEntries'
  <2> SUFFICES ASSUME NEW x \in Events, entries'[x] # None
               PROVE  entries'[x].n \in 1 .. Len(accepted') /\ accepted'[entries'[x].n] = x
    BY DEF KnownEntries
  <2>1. CASE x = e
    BY <1>2, <1>3, <1>8, <2>1
  <2>2. CASE x # e
    BY <1>2, <1>3, <1>9, <2>2 DEF KeptInv, KnownEntries
  <2> QED
    BY <2>1, <2>2
<1>11. succeeded' \cup dropped' \subseteq 1 .. Len(accepted')
  BY <1>1, <1>2, <1>3 DEF KeptInv
<1>12. HandledEvents \subseteq HandledEvents'
  <2> SUFFICES ASSUME NEW m \in succeeded \cup dropped PROVE accepted[m] \in HandledEvents'
    BY DEF HandledEvents
  <2>1. accepted[m] = accepted'[m]
    BY <1>3 DEF KeptInv
  <2> QED
    BY <1>1, <2>1 DEF HandledEvents
<1>13. (stage = "dropped" => Current.n \in dropped)'
  <2> SUFFICES ASSUME stage = "dropped" PROVE (Current.n \in dropped)'
    BY <1>1
  <2>1. inflight # <<>> /\ inflight \in Seq(KnownProcess')
    BY <1>5 DEF IngestTypeOK
  <2>2. Head(inflight') = Head(inflight)
    BY <1>1, <1>6, <2>1, AppendProperties, LenProperties, EmptySeq
  <2> QED
    BY <1>1, <2>2 DEF Current, KeptInv
<1>14. tombstones' \subseteq HandledEvents' /\ up'
  <2>1. up'
    BY DEF Accept, Admits
  <2> QED
    BY <1>1, <1>12, <2>1 DEF KeptInv
<1>15. (\A x \in ToSet(accepted) : entries[x] # None \/ x \in HandledEvents)'
  <2> SUFFICES ASSUME NEW x \in ToSet(accepted)'
               PROVE  entries'[x] # None \/ x \in HandledEvents'
    OBVIOUS
  <2>1. x = e \/ x \in ToSet(accepted)
    <3>1. PICK m \in DOMAIN accepted' : accepted'[m] = x
      BY DEF ToSet
    <3>2. DOMAIN accepted' = 1 .. k /\ DOMAIN accepted = 1 .. Len(accepted)
      BY <1>1, <1>3, AppendProperties DEF IngestTypeOK
    <3> QED
      BY <1>2, <1>3, <3>1, <3>2 DEF ToSet
  <2>2. x \in ToSet(accepted) => x \in Events
    BY DEF ToSet, IngestTypeOK
  <2> QED
    BY <1>8, <1>9, <1>12, <2>1, <2>2 DEF KeptInv
<1> QED
  BY <1>7, <1>10, <1>11, <1>13, <1>14, <1>15 DEF KeptInv

LEMMA EndsKept ==
  ASSUME KeptInv, inflight # <<>>, NEW goesOn \in BOOLEAN, Ends(goesOn)
  PROVE  /\ inflight' \in Seq(KnownProcess) /\ toDrain' \in Seq(KnownProcess) /\ stage' = "waiting"
         /\ Current \in KnownProcess
<1>1. Tail(inflight) \in Seq(KnownProcess) /\ Current \in KnownProcess
  BY HeadTailProperties DEF KeptInv, Current
<1>2. toDrain # <<>> => Head(toDrain) \in KnownProcess /\ Tail(toDrain) \in Seq(KnownProcess)
  BY HeadTailProperties DEF KeptInv
<1>3. inflight' \in Seq(KnownProcess)
  BY <1>1, <1>2, AppendProperties DEF Ends, NextToDrain
<1>4. toDrain' \in Seq(KnownProcess)
  BY <1>2, EmptySeq DEF Ends, NextToDrain, KeptInv
<1> QED
  BY <1>1, <1>3, <1>4 DEF Ends

\* The deliveries made from pending entries are for the events their acceptances were made for.
LEMMA DeliveriesKept ==
  ASSUME IngestTypeOK, KeptInv, NEW E \in SUBSET PendingEvents, NEW order \in SetToSeqs(E),
         NEW drain \in BOOLEAN
  PROVE  Deliveries(order, drain) \in Seq(KnownProcess)
<1>1. order \in Seq(E) /\ Len(order) \in Nat
  BY OrderIsSeq, LenProperties DEF PendingEvents
<1>2. ASSUME NEW i \in 1 .. Len(order)
      PROVE  [event |-> order[i], n |-> entries[order[i]].n, drain |-> drain] \in KnownProcess
  <2>1. order[i] \in E
    BY <1>1, ElementOfSeq
  <2>2. order[i] \in Events /\ entries[order[i]] \in Line /\ entries[order[i]] # None
    BY <2>1 DEF PendingEvents, Pending, IngestTypeOK
  <2> QED
    BY <2>2 DEF KnownProcess, KeptInv, KnownEntries, Process, Line
<1> QED
  BY <1>1, <1>2 DEF Deliveries

\* Nothing that the invariant speaks of changes.
LEMMA KeptUnchanged ==
  ASSUME KeptInv, up => up', UNCHANGED <<entries, tombstones, inflight, stage, toDrain, accepted,
                              succeeded, dropped>>
  PROVE  KeptInv'
BY DEF KeptInv, KnownEntries, KnownProcess, HandledEvents, Current, ToSet

LEMMA RequestKept ==
  ASSUME IngestTypeOK, KeptInv, NEW e \in Events, Request(e)
  PROVE  KeptInv'
<1>1. CASE Duplicate(e) \/ RateLimited(e)
  BY <1>1, KeptUnchanged DEF Duplicate, RateLimited, vars, file, memory, answers, outcome
<1>2. CASE AcceptFails(e)
  BY <1>2, KeptUnchanged DEF AcceptFails, outcome
<1> QED
  BY <1>1, <1>2, KeptAccept DEF Request

LEMMA DispatchKept ==
  ASSUME IngestTypeOK, KeptInv, Dispatch
  PROVE  KeptInv'
<1>1. /\ inflight # <<>> /\ Current \in KnownProcess
      /\ Current.event \in Events /\ Current.n \in 1 .. Len(accepted)
      /\ accepted[Current.n] = Current.event
  <2>1. inflight # <<>> /\ inflight \in Seq(KnownProcess)
    BY DEF Dispatch, Perform, BusDrops, Succeeds, Fails, KeptInv
  <2>2. Current \in KnownProcess
    BY <2>1, HeadTailProperties DEF Current
  <2> QED
    BY <2>1, <2>2 DEF KnownProcess, Process
<1>2. accepted' = accepted /\ up'
  <2>1. accepted' = accepted /\ up' = up
    BY DEF Dispatch, Perform, BusDrops, Succeeds, Fails, answers
  <2>2. up
    BY <1>1 DEF KeptInv
  <2> QED
    BY <2>1, <2>2
<1>3. CASE Perform
  <2>1. /\ UNCHANGED <<entries, tombstones, inflight, toDrain, accepted, succeeded, dropped>>
        /\ stage' = "performed"
    BY <1>3 DEF Perform, file, answers
  <2> QED
    BY <1>2, <2>1, KeptStep DEF KeptInv, KnownEntries
<1>4. CASE BusDrops
  <2>1. /\ UNCHANGED <<entries, tombstones, inflight, toDrain, accepted, succeeded>>
        /\ dropped' = dropped \cup {Current.n}
    BY <1>4 DEF BusDrops, file, answers
  <2>2. (Current.n \in dropped)'
    BY <2>1 DEF Current
  <2> QED
    BY <1>1, <1>2, <2>1, <2>2, KeptStep DEF KeptInv, KnownEntries
<1>5. CASE Succeeds
  <2>1. PICK ok \in BOOLEAN :
          /\ tombstones' = IF ok THEN tombstones \cup {Current.event} ELSE tombstones
          /\ succeeded' = IF stage = "performed" THEN succeeded \cup {Current.n} ELSE succeeded
          /\ stage \in {"performed", "dropped"}
          /\ Ends(TRUE)
          /\ UNCHANGED <<entries, dropped>>
    BY <1>5 DEF Succeeds
  <2>2. inflight' \in Seq(KnownProcess) /\ toDrain' \in Seq(KnownProcess) /\ stage' = "waiting"
    BY <1>1, <2>1, EndsKept
  <2>3. Current.n \in succeeded' \cup dropped'
    BY <2>1 DEF KeptInv
  <2>4. Current.event \in HandledEvents'
    BY <1>1, <1>2, <2>3 DEF HandledEvents
  <2>5. succeeded \subseteq succeeded' /\ dropped \subseteq dropped'
        /\ succeeded' \cup dropped' \subseteq 1 .. Len(accepted)
    BY <1>1, <2>1 DEF KeptInv
  <2>6. tombstones' \subseteq tombstones \cup HandledEvents'
    BY <2>1, <2>4
  <2>7. KnownEntries'
    BY <1>2, <2>1 DEF KeptInv, KnownEntries
  <2> QED
    BY <1>2, <2>1, <2>2, <2>5, <2>6, <2>7, KeptStep
<1>6. CASE Fails
  <2> DEFINE line == [n |-> Current.n, waiting |-> TRUE]
  <2>1. PICK ok \in BOOLEAN :
          /\ entries' = IF ok THEN [entries EXCEPT ![Current.event] = line] ELSE entries
          /\ Ends(ok)
          /\ UNCHANGED <<tombstones, succeeded, dropped>>
    BY <1>6 DEF Fails
  <2>2. inflight' \in Seq(KnownProcess) /\ toDrain' \in Seq(KnownProcess) /\ stage' = "waiting"
    BY <1>1, <2>1, EndsKept
  <2>3. line \in Line /\ line.n = Current.n
    BY <1>1 DEF Line, KnownProcess, Process
  <2>4. line # None
    BY <2>3, IngestAssumption
  <2> HIDE DEF line
  <2>5. \A e \in Events : entries'[e] = entries[e] \/ (e = Current.event /\ entries'[e] = line)
    BY <2>1 DEF IngestTypeOK
  <2>6. KnownEntries'
    BY <1>1, <1>2, <2>3, <2>5 DEF KeptInv, KnownEntries
  <2>7. \A e \in ToSet(accepted) : entries[e] # None => entries'[e] # None
    BY <2>4, <2>5 DEF ToSet, IngestTypeOK
  <2> QED
    BY <1>2, <2>1, <2>2, <2>6, <2>7, KeptStep DEF KeptInv
<1> QED
  BY <1>3, <1>4, <1>5, <1>6 DEF Dispatch

LEMMA TickKept ==
  ASSUME IngestTypeOK, KeptInv, TimerTick
  PROVE  KeptInv'
<1>1. PICK order \in SetToSeqs(DueEvents) : inflight' = inflight \o Deliveries(order, FALSE)
  BY DEF TimerTick
<1> DEFINE ds == Deliveries(order, FALSE)
<1>2. ds \in Seq(KnownProcess) /\ inflight \in Seq(KnownProcess) /\ inflight' = inflight \o ds
  BY <1>1, DeliveriesKept DEF DueEvents, KeptInv
<1> HIDE DEF ds
<1>3. inflight' \in Seq(KnownProcess)
  BY <1>2, ConcatProperties
<1>4. UNCHANGED <<entries, tombstones, stage, toDrain, accepted, succeeded, dropped>>
  BY DEF TimerTick, file, answers
<1>5. up'
  BY DEF TimerTick
<1>6. (stage = "dropped" => Current.n \in dropped)'
  <2> SUFFICES ASSUME stage = "dropped" PROVE (Current.n \in dropped)'
    BY <1>4
  <2>1. inflight # <<>>
    BY DEF IngestTypeOK
  <2>2. Head(inflight') = Head(inflight)
    BY <1>2, <2>1, ConcatProperties, LenProperties, EmptySeq
  <2> QED
    BY <1>4, <2>2 DEF Current, KeptInv
<1> QED
  BY <1>3, <1>4, <1>5, <1>6, KeptStep DEF KeptInv, KnownEntries

LEMMA StartKept ==
  ASSUME IngestTypeOK, KeptInv, Start
  PROVE  KeptInv'
<1>1. CASE StartEmpty
  BY <1>1, KeptUnchanged DEF StartEmpty, file, answers, outcome
<1>2. CASE StartDraining
  <2>1. PICK order \in SetToSeqs(PendingEvents) :
          /\ inflight' = <<Head(Deliveries(order, TRUE))>>
          /\ toDrain' = Tail(Deliveries(order, TRUE))
    BY <1>2 DEF StartDraining
  <2>2. inflight' \in Seq(KnownProcess) /\ toDrain' \in Seq(KnownProcess)
    <3> DEFINE all == Deliveries(order, TRUE)
    <3>1. all \in Seq(KnownProcess) /\ inflight' = <<Head(all)>> /\ toDrain' = Tail(all)
      BY <2>1, DeliveriesKept
    <3>2. all # <<>>
      BY <1>2, DeliveriesType DEF StartDraining
    <3> HIDE DEF all
    <3>3. Head(all) \in KnownProcess /\ Tail(all) \in Seq(KnownProcess)
      BY <3>1, <3>2, HeadTailProperties
    <3> QED
      BY <3>1, <3>3
  <2>3. PICK ok \in BOOLEAN :
          /\ entries' = IF ok THEN [e \in Events |-> IF e \in tombstones THEN None ELSE entries[e]]
                              ELSE entries
          /\ tombstones' = IF ok THEN {} ELSE tombstones
    BY <1>2 DEF StartDraining
  <2>4. UNCHANGED <<stage, accepted, succeeded, dropped>>
    BY <1>2 DEF StartDraining, answers, outcome
  <2>5. KnownEntries'
    BY <2>3, <2>4 DEF KeptInv, KnownEntries
  <2>6. \A e \in ToSet(accepted) : entries[e] # None => entries'[e] # None \/ e \in tombstones
    BY <2>3 DEF ToSet, IngestTypeOK
  <2>7. tombstones' \subseteq tombstones
    BY <2>3
  <2>8. stage' = "waiting" /\ up'
    <3>1. ~up /\ up'
      BY <1>2 DEF StartDraining
    <3>2. inflight = <<>>
      BY <3>1 DEF KeptInv
    <3> QED
      BY <2>4, <3>1, <3>2 DEF IngestTypeOK
  <2> QED
    BY <2>2, <2>4, <2>5, <2>6, <2>7, <2>8, KeptStep DEF KeptInv
<1> QED
  BY <1>1, <1>2 DEF Start

LEMMA TimeKept ==
  ASSUME IngestTypeOK, KeptInv,
         \/ \E e \in Events : BackoffElapses(e) \/ DedupExpires(e)
         \/ SlotFrees \/ BusWindowTurns \/ Crash \/ UNCHANGED vars
  PROVE  KeptInv'
<1>1. ASSUME NEW e \in Events, BackoffElapses(e) PROVE KeptInv'
  <2>1. /\ entries' = [entries EXCEPT ![e].waiting = FALSE] /\ entries[e] \in Line
        /\ UNCHANGED <<tombstones, inflight, stage, toDrain, accepted, succeeded, dropped>>
    BY <1>1 DEF BackoffElapses, memory, answers, outcome, Pending, IngestTypeOK
  <2>2. entries'[e] \in Line /\ entries'[e].n = entries[e].n
    BY <2>1 DEF Line, IngestTypeOK
  <2>3. \A x \in Events : x # e => entries'[x] = entries[x]
    BY <2>1 DEF IngestTypeOK
  <2>4. KnownEntries'
    BY <1>1, <2>1, <2>2, <2>3 DEF KeptInv, KnownEntries, BackoffElapses, Pending
  <2>5. \A x \in ToSet(accepted) : entries[x] # None => entries'[x] # None
    <3>1. \A x \in ToSet(accepted) : x \in Events
      BY DEF ToSet, IngestTypeOK
    <3>2. entries'[e] # None
      BY <2>2, IngestAssumption
    <3> QED
      BY <2>3, <3>1, <3>2
  <2>6. (stage = "dropped" => Current.n \in dropped)' /\ (inflight # <<>> => up)'
    BY <1>1, <2>1 DEF BackoffElapses, memory, KeptInv, Current
  <2> QED
    BY <2>1, <2>4, <2>5, <2>6, KeptStep DEF KeptInv
<1>2. ASSUME NEW e \in Events, DedupExpires(e) PROVE KeptInv'
  BY <1>2, KeptUnchanged DEF DedupExpires, outcome
<1>3. CASE SlotFrees \/ BusWindowTurns
  BY <1>3, KeptUnchanged DEF SlotFrees, BusWindowTurns, file, answers, outcome
<1>4. CASE Crash
  <2>1. /\ UNCHANGED <<entries, tombstones, accepted, succeeded, dropped>>
        /\ inflight' = <<>> /\ toDrain' = <<>> /\ stage' = "waiting"
    BY <1>4 DEF Crash, file, answers
  <2>2. inflight' \in Seq(KnownProcess) /\ toDrain' \in Seq(KnownProcess)
    BY <2>1, EmptySeq
  <2> QED
    BY <2>1, <2>2, KeptStep DEF KeptInv, KnownEntries
<1>5. CASE UNCHANGED vars
  BY <1>5, KeptUnchanged DEF vars, file, memory, answers, outcome
<1> QED
  BY <1>1, <1>2, <1>3, <1>4, <1>5

LEMMA KeptNext ==
  ASSUME IngestTypeOK, KeptInv, [Next]_vars
  PROVE  KeptInv'
BY RequestKept, DispatchKept, TickKept, StartKept, TimeKept DEF Next

\* What a provider was answered 202 for is never lost before it is handled, however many events
\* are sent and however often dispatches, file writes and the process itself fail.
THEOREM AcceptedKept == Spec => []AcceptedIsKept
BY IngestInitType, IngestNextType, KeptInit, KeptNext, KeptImplies, PTL DEF Spec

----------------------------------------------------------------------------
(* Once.  What a provider is told of a duplicate is true, and a webhook's  *)
(* automations run once unless there is a reason to run them again.        *)

Ingest == IngestTypeOK /\ KeptInv

\* What the steps that are no request leave alone.
LEMMA NotARequest ==
  ASSUME Dispatch \/ TimerTick \/ SlotFrees \/ BusWindowTurns \/ (\E e \in Events : BackoffElapses(e)) \/ UNCHANGED vars
  PROVE  UNCHANGED <<up, seen, dedupFile, answers>>
<1>1. CASE Dispatch
  BY <1>1 DEF Dispatch, Perform, BusDrops, Succeeds, Fails, file
<1>2. CASE ~Dispatch
  BY <1>2 DEF TimerTick, SlotFrees, BusWindowTurns, BackoffElapses, vars, file, memory
<1> QED
  BY <1>1, <1>2

LEMMA RestartKeepsAnswers ==
  ASSUME Start PROVE up' = TRUE /\ seen' = dedupFile /\ UNCHANGED <<dedupFile, answers>>
BY DEF Start, StartEmpty, StartDraining, LoadedDedup, file

LEMMA AppendToSet ==
  ASSUME NEW S, NEW s \in Seq(S), NEW x \in S
  PROVE  ToSet(Append(s, x)) = ToSet(s) \cup {x}
<1>1. /\ DOMAIN s = 1 .. Len(s) /\ Len(s) \in Nat
      /\ Append(s, x) \in Seq(S) /\ Len(Append(s, x)) = Len(s) + 1
      /\ \A i \in 1 .. Len(s) : Append(s, x)[i] = s[i]
      /\ Append(s, x)[Len(s) + 1] = x
  BY AppendProperties, LenProperties
<1>2. DOMAIN Append(s, x) = 1 .. Len(s) + 1
  BY <1>1, LenProperties
<1>3. ToSet(s) \cup {x} \subseteq ToSet(Append(s, x))
  BY <1>1, <1>2 DEF ToSet
<1>4. ASSUME NEW y \in ToSet(Append(s, x)) PROVE y \in ToSet(s) \cup {x}
  <2>1. PICK i \in 1 .. Len(s) + 1 : y = Append(s, x)[i]
    BY <1>2 DEF ToSet
  <2> QED
    BY <1>1, <2>1 DEF ToSet
<1> QED
  BY <1>3, <1>4

----------------------------------------------------------------------------
(* Duplicates. *)

\* Also what a restart would load has a reason to be there.
RecordsHaveReasons == \A e \in seen \cup dedupFile : e \in ToSet(accepted) \/ e \in unstored

LEMMA RecordsStep ==
  ASSUME IngestTypeOK, RecordsHaveReasons, [Next]_vars PROVE RecordsHaveReasons'
<1>1. ASSUME NEW e \in Events, Accept(e) PROVE RecordsHaveReasons'
  <2>1. /\ accepted' = Append(accepted, e) /\ unstored' = unstored
        /\ seen' \cup dedupFile' \subseteq seen \cup dedupFile \cup {e}
    BY <1>1 DEF Accept, Record
  <2>2. ToSet(accepted') = ToSet(accepted) \cup {e}
    BY <2>1, AppendToSet DEF IngestTypeOK
  <2> QED
    BY <2>1, <2>2 DEF RecordsHaveReasons
<1>2. ASSUME NEW e \in Events, Request(e), ~Accept(e) PROVE RecordsHaveReasons'
  <2>1. /\ accepted' = accepted /\ unstored \subseteq unstored'
        /\ seen' \cup dedupFile' \subseteq seen \cup dedupFile \cup (unstored' \cap {e})
    BY <1>2 DEF Request, Duplicate, RateLimited, AcceptFails, Record, vars, file, memory, answers
  <2> QED
    BY <2>1 DEF RecordsHaveReasons
<1>3. ASSUME NEW e \in Events, DedupExpires(e) PROVE RecordsHaveReasons'
  BY <1>3 DEF DedupExpires, RecordsHaveReasons
<1>4. CASE Start
  BY <1>4, RestartKeepsAnswers DEF RecordsHaveReasons, answers
<1>5. CASE Crash
  BY <1>5 DEF Crash, RecordsHaveReasons, answers, file
<1>6. CASE Dispatch \/ TimerTick \/ SlotFrees \/ BusWindowTurns \/ (\E e \in Events : BackoffElapses(e)) \/ UNCHANGED vars
  BY <1>6, NotARequest DEF RecordsHaveReasons, answers
<1> QED
  BY <1>1, <1>2, <1>3, <1>4, <1>5, <1>6 DEF Next

\* A provider told {duplicate: true} had its event accepted before, or refused because its append
\* to the queue failed, whatever has expired, failed or crashed since.
THEOREM DuplicatesWereStored == Spec => []DuplicateWasStored
<1>1. Init => RecordsHaveReasons
  BY DEF Init, RecordsHaveReasons
<1>2. RecordsHaveReasons => DuplicateWasStored
  BY DEF RecordsHaveReasons, DuplicateWasStored
<1> QED
  BY <1>1, <1>2, IngestInitType, IngestNextType, RecordsStep, PTL DEF Spec

----------------------------------------------------------------------------
(* Once per lifetime of a record. *)

\* An acceptance that counts has its record on disk, and a host that runs has read the disk.
RecordsOnDisk ==
  /\ up => dedupFile \subseteq seen
  /\ \A e \in Events : e \in forgotten \/ (fresh[e] <= 1 /\ (fresh[e] > 0 => e \in dedupFile))

LEMMA RecordsOnDiskStep ==
  ASSUME IngestTypeOK, RecordsOnDisk, [Next]_vars PROVE RecordsOnDisk'
<1>1. ASSUME NEW e \in Events, Accept(e) PROVE RecordsOnDisk'
  <2>1. PICK ok \in BOOLEAN : Admits(e) /\ Record(e, ok) /\ fresh' = [fresh EXCEPT ![e] = @ + 1] /\ up' = up
    BY <1>1 DEF Accept
  <2>2. up /\ e \notin seen
    BY <2>1 DEF Admits
  <2>3. up' => dedupFile' \subseteq seen'
    BY <2>1, <2>2 DEF Record, RecordsOnDisk
  <2>4. fresh[e] \in Nat /\ fresh'[e] = fresh[e] + 1 /\ \A x \in Events : x # e => fresh'[x] = fresh[x]
    BY <2>1 DEF IngestTypeOK
  <2>5. forgotten \subseteq forgotten' /\ dedupFile \subseteq dedupFile' /\ (e \in forgotten' \/ e \in dedupFile')
    BY <2>1 DEF Record
  <2>6. e \in forgotten \/ fresh[e] = 0
    BY <2>2, <2>4 DEF RecordsOnDisk
  <2>7. e \in forgotten' \/ (fresh'[e] <= 1 /\ e \in dedupFile')
    BY <2>4, <2>5, <2>6
  <2>8. ASSUME NEW x \in Events, x # e PROVE x \in forgotten' \/ (fresh'[x] <= 1 /\ (fresh'[x] > 0 => x \in dedupFile'))
    BY <2>4, <2>5, <2>8 DEF RecordsOnDisk
  <2> QED
    BY <2>3, <2>7, <2>8 DEF RecordsOnDisk
<1>2. ASSUME NEW e \in Events, Request(e), ~Accept(e) PROVE RecordsOnDisk'
  <2>1. CASE AcceptFails(e)
    BY <2>1 DEF AcceptFails, Record, RecordsOnDisk
  <2>2. CASE ~AcceptFails(e)
    BY <1>2, <2>2 DEF Request, Duplicate, RateLimited, vars, file, memory, answers, RecordsOnDisk
  <2> QED
    BY <2>1, <2>2
<1>3. ASSUME NEW e \in Events, DedupExpires(e) PROVE RecordsOnDisk'
  <2>1. /\ up' = up /\ seen' = seen \ {e} /\ dedupFile' = dedupFile \ {e} /\ forgotten' = forgotten \ {e}
        /\ fresh' = [fresh EXCEPT ![e] = 0]
    BY <1>3 DEF DedupExpires
  <2>2. fresh'[e] = 0 /\ \A x \in Events : x # e => fresh'[x] = fresh[x]
    BY <2>1 DEF IngestTypeOK
  <2> QED
    BY <2>1, <2>2 DEF RecordsOnDisk
<1>4. CASE Start
  BY <1>4, RestartKeepsAnswers DEF RecordsOnDisk, answers
<1>5. CASE Crash
  BY <1>5 DEF Crash, RecordsOnDisk, answers, file
<1>6. CASE Dispatch \/ TimerTick \/ SlotFrees \/ BusWindowTurns \/ (\E e \in Events : BackoffElapses(e)) \/ UNCHANGED vars
  BY <1>6, NotARequest DEF RecordsOnDisk, answers
<1> QED
  BY <1>1, <1>2, <1>3, <1>4, <1>5, <1>6 DEF Next

\* Until its record expires an event is accepted once, across restarts, unless the record never
\* reached the disk.
THEOREM OneAcceptancePerTTL == Spec => []AcceptedOncePerTTL
<1>1. Init => RecordsOnDisk
  BY DEF Init, RecordsOnDisk
<1>2. RecordsOnDisk => AcceptedOncePerTTL
  BY DEF RecordsOnDisk, AcceptedOncePerTTL
<1> QED
  BY <1>1, <1>2, IngestInitType, IngestNextType, RecordsOnDiskStep, PTL DEF Spec

----------------------------------------------------------------------------
(* Once per acceptance. *)

Once == Acceptances \ redelivered

\* The first delivery has run the automations of acceptance n and not ended yet.
Running(n) == inflight # <<>> /\ stage = "performed" /\ Current.n = n

\* Without a reason to run again, an acceptance has one delivery at most ...
OneDelivery ==
  /\ \A i, j \in 1 .. Len(inflight) : i # j /\ inflight[i].n = inflight[j].n => inflight[i].n \notin Once
  /\ \A i, j \in 1 .. Len(toDrain) : i # j /\ toDrain[i].n = toDrain[j].n => toDrain[i].n \notin Once
  /\ \A i \in 1 .. Len(inflight), j \in 1 .. Len(toDrain) : inflight[i].n = toDrain[j].n => toDrain[j].n \notin Once
  /\ ~up => toDrain = <<>>

\* ... and once it ran, none but the one that ran it and no entry that would make another.
NoSecondRun ==
  \A n \in Once : executions[n] > 0 =>
    /\ executions[n] = 1 /\ n <= Len(accepted)
    /\ \A i \in 1 .. Len(inflight) : inflight[i].n = n => i = 1 /\ stage = "performed"
    /\ \A j \in 1 .. Len(toDrain) : toDrain[j].n # n
    /\ \A e \in PendingEvents : entries[e].n = n => Running(n)

OnceInv == OneDelivery /\ NoSecondRun

LEMMA OnceInit == Init => OnceInv
<1> SUFFICES ASSUME Init PROVE OnceInv
  OBVIOUS
<1>1. Len(inflight) = 0 /\ Len(toDrain) = 0 /\ toDrain = <<>>
  BY EmptySeq DEF Init
<1>2. OneDelivery
  BY <1>1 DEF OneDelivery
<1>3. \A n \in Once : executions[n] = 0
  BY DEF Init, Once
<1> QED
  BY <1>2, <1>3 DEF OnceInv, NoSecondRun

\* Nothing that the invariant speaks of changes, but that fewer events may be pending.
LEMMA OnceUnchanged ==
  ASSUME OnceInv, up = up', UNCHANGED <<inflight, toDrain, stage, executions, redelivered, accepted>>,
         \A e \in PendingEvents' : e \in PendingEvents /\ entries'[e].n = entries[e].n
  PROVE  OnceInv'
BY DEF OnceInv, OneDelivery, NoSecondRun, Once, Running, Current

\* The sequences and their elements, for the arithmetic of the steps.
LEMMA Shapes ==
  ASSUME Ingest
  PROVE  /\ Len(inflight) \in Nat /\ Len(toDrain) \in Nat /\ Len(accepted) \in Nat
         /\ \A i \in 1 .. Len(inflight) : inflight[i] \in KnownProcess
         /\ \A j \in 1 .. Len(toDrain) : toDrain[j] \in KnownProcess
         /\ inflight # <<>> => Len(inflight) > 0 /\ Current = inflight[1]
         /\ inflight = <<>> => Len(inflight) = 0
         /\ \A p \in KnownProcess : p.n \in Acceptances /\ p.n <= Len(accepted) /\ accepted[p.n] = p.event /\ p.event \in Events
<1>1. Len(inflight) \in Nat /\ Len(toDrain) \in Nat /\ Len(accepted) \in Nat
  BY LenProperties DEF Ingest, IngestTypeOK
<1>2. \A i \in 1 .. Len(inflight) : inflight[i] \in KnownProcess
  BY ElementOfSeq DEF Ingest, KeptInv
<1>3. \A j \in 1 .. Len(toDrain) : toDrain[j] \in KnownProcess
  BY ElementOfSeq DEF Ingest, KeptInv
<1>4. inflight # <<>> => Len(inflight) > 0 /\ Current = inflight[1]
  BY EmptySeq DEF Ingest, IngestTypeOK, Current
<1>5. inflight = <<>> => Len(inflight) = 0
  BY EmptySeq
<1>6. \A p \in KnownProcess : p.n \in Acceptances /\ p.n <= Len(accepted) /\ accepted[p.n] = p.event /\ p.event \in Events
  BY <1>1 DEF KnownProcess, Process
<1> QED
  BY <1>1, <1>2, <1>3, <1>4, <1>5, <1>6

\* Where the deliveries are after the first has ended.
LEMMA EndsMoves ==
  ASSUME Ingest, inflight # <<>>, NEW goesOn \in BOOLEAN, Ends(goesOn)
  PROVE  /\ \A i \in 1 .. Len(inflight') :
              \/ i + 1 \in 1 .. Len(inflight) /\ inflight'[i] = inflight[i + 1]
              \/ /\ NextToDrain(goesOn) /\ i = Len(inflight) /\ i = Len(inflight')
                 /\ 1 \in 1 .. Len(toDrain) /\ inflight'[i] = toDrain[1]
         /\ \/ /\ NextToDrain(goesOn)
               /\ \A j \in 1 .. Len(toDrain') : j + 1 \in 1 .. Len(toDrain) /\ toDrain'[j] = toDrain[j + 1]
            \/ ~NextToDrain(goesOn) /\ (toDrain' = toDrain \/ toDrain' = <<>>)
<1> DEFINE t == Tail(inflight)
<1>1. /\ t \in Seq(KnownProcess) /\ Len(t) = Len(inflight) - 1 /\ Len(inflight) \in Nat \ {0}
      /\ \A i \in 1 .. Len(t) : t[i] = inflight[i + 1]
  BY HeadTailProperties, EmptySeq DEF Ingest, KeptInv
<1>2. CASE NextToDrain(goesOn)
  <2> DEFINE h == Head(toDrain)
  <2>1. /\ toDrain # <<>> /\ toDrain \in Seq(KnownProcess)
        /\ inflight' = Append(t, h) /\ toDrain' = Tail(toDrain)
    BY <1>2 DEF Ends, NextToDrain, Ingest, KeptInv
  <2>2. h \in KnownProcess /\ h = toDrain[1] /\ Len(toDrain) \in Nat \ {0}
    BY <2>1, HeadTailProperties, EmptySeq
  <2>3. \A j \in 1 .. Len(toDrain') : j + 1 \in 1 .. Len(toDrain) /\ toDrain'[j] = toDrain[j + 1]
    <3>1. Len(toDrain') = Len(toDrain) - 1 /\ \A j \in 1 .. Len(toDrain') : toDrain'[j] = toDrain[j + 1]
      BY <2>1, HeadTailProperties
    <3> QED
      BY <2>2, <3>1
  <2> HIDE DEF t, h
  <2>4. Len(inflight') = Len(t) + 1 /\ (\A i \in 1 .. Len(t) : inflight'[i] = t[i]) /\ inflight'[Len(t) + 1] = h
    BY <1>1, <2>1, <2>2, AppendProperties
  <2>5. ASSUME NEW i \in 1 .. Len(inflight')
        PROVE  \/ i + 1 \in 1 .. Len(inflight) /\ inflight'[i] = inflight[i + 1]
               \/ i = Len(inflight) /\ i = Len(inflight') /\ inflight'[i] = toDrain[1]
    <3>1. Len(inflight') = Len(inflight)
      BY <1>1, <2>4
    <3>2. CASE i = Len(inflight)
      BY <1>1, <2>2, <2>4, <3>1, <3>2
    <3>3. CASE i # Len(inflight)
      <4>1. i \in 1 .. Len(t) /\ i + 1 \in 1 .. Len(inflight)
        BY <1>1, <3>1, <3>3
      <4> QED
        BY <1>1, <2>4, <4>1
    <3> QED
      BY <3>2, <3>3
  <2> QED
    BY <1>2, <2>2, <2>3, <2>5
<1>3. CASE ~NextToDrain(goesOn)
  <2>1. inflight' = t /\ (toDrain' = toDrain \/ toDrain' = <<>>)
    BY <1>3 DEF Ends
  <2> HIDE DEF t
  <2>2. \A i \in 1 .. Len(inflight') : i + 1 \in 1 .. Len(inflight) /\ inflight'[i] = inflight[i + 1]
    BY <1>1, <2>1
  <2> QED
    BY <1>3, <2>1, <2>2
<1> QED
  BY <1>2, <1>3

LEMMA OneDeliveryAfterEnd ==
  ASSUME Ingest, OneDelivery, inflight # <<>>, NEW goesOn \in BOOLEAN, Ends(goesOn), up' = up, redelivered \subseteq redelivered'
  PROVE  OneDelivery'
<1>1. Once' \subseteq Once
  BY DEF Once
<1>2. Len(inflight') \in Nat /\ Len(toDrain') \in Nat
  <2>1. inflight' \in Seq(KnownProcess) /\ toDrain' \in Seq(KnownProcess)
    BY EndsKept DEF Ingest
  <2> QED
    BY <2>1, LenProperties
<1>3. Len(<<>>) = 0 /\ up
  BY EmptySeq DEF Ingest, KeptInv
<1>4. Len(inflight) \in Nat /\ Len(toDrain) \in Nat
  BY Shapes
<1>5. ASSUME NEW i \in 1 .. Len(inflight'), NEW j \in 1 .. Len(inflight'), i # j, inflight'[i].n = inflight'[j].n
      PROVE  inflight'[i].n \notin Once'
  <2>1. \/ i + 1 \in 1 .. Len(inflight) /\ inflight'[i] = inflight[i + 1]
        \/ i = Len(inflight') /\ 1 \in 1 .. Len(toDrain) /\ inflight'[i] = toDrain[1]
    BY EndsMoves
  <2>2. \/ j + 1 \in 1 .. Len(inflight) /\ inflight'[j] = inflight[j + 1]
        \/ j = Len(inflight') /\ 1 \in 1 .. Len(toDrain) /\ inflight'[j] = toDrain[1]
    BY EndsMoves
  <2> QED
    BY SMTT(20), <1>1, <1>2, <1>4, <1>5, <2>1, <2>2 DEF OneDelivery
<1>6. ASSUME NEW i \in 1 .. Len(toDrain'), NEW j \in 1 .. Len(toDrain'), i # j, toDrain'[i].n = toDrain'[j].n
      PROVE  toDrain'[i].n \notin Once'
  BY SMTT(20), <1>1, <1>2, <1>3, <1>4, <1>6, EndsMoves DEF OneDelivery
<1>7. ASSUME NEW i \in 1 .. Len(inflight'), NEW j \in 1 .. Len(toDrain'), inflight'[i].n = toDrain'[j].n
      PROVE  toDrain'[j].n \notin Once'
  <2>1. CASE NextToDrain(goesOn)
    <3>1. j + 1 \in 1 .. Len(toDrain) /\ toDrain'[j] = toDrain[j + 1]
      BY <2>1, EndsMoves
    <3>2. \/ i + 1 \in 1 .. Len(inflight) /\ inflight'[i] = inflight[i + 1]
          \/ 1 \in 1 .. Len(toDrain) /\ inflight'[i] = toDrain[1]
      BY EndsMoves
    <3> QED
      BY <1>1, <1>2, <1>4, <1>7, <3>1, <3>2 DEF OneDelivery
  <2>2. CASE ~NextToDrain(goesOn)
    <3>1. i + 1 \in 1 .. Len(inflight) /\ inflight'[i] = inflight[i + 1] /\ toDrain' = toDrain
      BY <1>2, <1>3, <2>2, EndsMoves
    <3> QED
      BY <1>1, <1>4, <1>7, <3>1 DEF OneDelivery
  <2> QED
    BY <2>1, <2>2
<1> QED
  BY <1>3, <1>5, <1>6, <1>7 DEF OneDelivery

\* The end of the first delivery: an acceptance that ran has no other.
LEMMA NoneAfterEnd ==
  ASSUME Ingest, OnceInv, inflight # <<>>, NEW goesOn \in BOOLEAN, Ends(goesOn), NEW n \in Once, executions[n] > 0
  PROVE  /\ \A i \in 1 .. Len(inflight') : inflight'[i].n # n
         /\ \A j \in 1 .. Len(toDrain') : toDrain'[j].n # n
<1>1. /\ \A i \in 1 .. Len(inflight) : inflight[i].n = n => i = 1
      /\ \A j \in 1 .. Len(toDrain) : toDrain[j].n # n
  BY DEF OnceInv, NoSecondRun
<1>2. Len(inflight) \in Nat /\ Len(toDrain) \in Nat /\ Len(<<>>) = 0
  BY Shapes, EmptySeq
<1>3. Len(inflight') \in Nat
  <2>1. inflight' \in Seq(KnownProcess)
    BY EndsKept DEF Ingest
  <2> QED
    BY <2>1, LenProperties
<1>4. ASSUME NEW i \in 1 .. Len(inflight') PROVE inflight'[i].n # n
  <2>1. \/ i + 1 \in 1 .. Len(inflight) /\ inflight'[i] = inflight[i + 1]
        \/ 1 \in 1 .. Len(toDrain) /\ inflight'[i] = toDrain[1]
    BY EndsMoves
  <2> QED
    BY <1>1, <1>2, <1>3, <2>1
<1>5. ASSUME NEW j \in 1 .. Len(toDrain') PROVE toDrain'[j].n # n
  BY <1>1, <1>2, EndsMoves
<1> QED
  BY <1>4, <1>5

LEMMA DispatchOnce ==
  ASSUME Ingest, OnceInv, Dispatch
  PROVE  OnceInv'
<1>1. /\ inflight # <<>> /\ 1 \in 1 .. Len(inflight) /\ Current = inflight[1] /\ Current \in KnownProcess
      /\ Current.n \in Acceptances /\ Current.n <= Len(accepted) /\ accepted[Current.n] = Current.event
      /\ Current.event \in Events
  <2>1. inflight # <<>>
    BY DEF Dispatch, Perform, BusDrops, Succeeds, Fails
  <2> QED
    BY <2>1, Shapes
<1>2. up' = up /\ accepted' = accepted
  BY DEF Dispatch, Perform, BusDrops, Succeeds, Fails, answers
<1>3. CASE Perform
  <2>1. /\ stage = "waiting" /\ stage' = "performed" /\ UNCHANGED <<inflight, toDrain, entries, tombstones, redelivered>>
        /\ executions' = [executions EXCEPT ![Current.n] = @ + 1]
    BY <1>3 DEF Perform, file
  <2>2. Current' = Current /\ Once' = Once /\ PendingEvents' = PendingEvents
    BY <2>1 DEF Current, Once, PendingEvents, Pending
  <2>3. OneDelivery'
    BY <1>2, <2>1, <2>2 DEF OnceInv, OneDelivery
  <2>4. ASSUME NEW n \in Once, executions'[n] > 0
        PROVE  /\ executions'[n] = 1 /\ n <= Len(accepted)
               /\ \A i \in 1 .. Len(inflight) : inflight[i].n = n => i = 1
               /\ \A j \in 1 .. Len(toDrain) : toDrain[j].n # n
               /\ \A e \in PendingEvents : entries[e].n = n => Current.n = n
    <3>1. executions[n] \in Nat
      BY DEF Ingest, IngestTypeOK, Once
    <3>2. CASE n = Current.n
      <4>1. ~(executions[n] > 0)
        BY <1>1, <2>1, <3>2 DEF OnceInv, NoSecondRun
      <4>2. executions'[n] = 1
        BY <2>1, <3>1, <3>2, <4>1 DEF Ingest, IngestTypeOK, Once
      <4>3. \A i \in 1 .. Len(inflight) : inflight[i].n = n => i = 1
        BY <1>1, <3>2 DEF OnceInv, OneDelivery
      <4>4. \A j \in 1 .. Len(toDrain) : toDrain[j].n # n
        BY <1>1, <3>2 DEF OnceInv, OneDelivery
      <4> QED
        BY <1>1, <3>2, <4>2, <4>3, <4>4
    <3>3. CASE n # Current.n
      <4>1. executions'[n] = executions[n]
        BY <2>1, <3>3 DEF Ingest, IngestTypeOK, Once
      <4>2. \A e \in PendingEvents : entries[e].n # n
        BY <2>1, <2>4, <4>1 DEF OnceInv, NoSecondRun, Running
      <4> QED
        BY <2>4, <4>1, <4>2 DEF OnceInv, NoSecondRun
    <3> QED
      BY <3>2, <3>3
  <2>5. NoSecondRun'
    BY <1>1, <1>2, <2>1, <2>2, <2>4 DEF NoSecondRun, Running
  <2> QED
    BY <2>3, <2>5 DEF OnceInv
<1>4. CASE BusDrops
  <2>1. /\ stage = "waiting" /\ UNCHANGED <<inflight, toDrain, entries, tombstones, redelivered, executions>>
    BY <1>4 DEF BusDrops, file
  <2>2. Once' = Once /\ PendingEvents' = PendingEvents
    BY <2>1 DEF Once, PendingEvents, Pending
  <2>3. OneDelivery'
    BY <1>2, <2>1, <2>2 DEF OnceInv, OneDelivery
  <2>4. NoSecondRun'
    BY <1>2, <2>1, <2>2 DEF OnceInv, NoSecondRun, Running
  <2> QED
    BY <2>3, <2>4 DEF OnceInv
<1>5. CASE Succeeds
  <2>1. PICK ok \in BOOLEAN :
          /\ tombstones' = IF ok THEN tombstones \cup {Current.event} ELSE tombstones
          /\ redelivered' = IF ok THEN redelivered ELSE redelivered \cup {Current.n}
          /\ Ends(TRUE)
          /\ UNCHANGED <<entries, executions>>
    BY <1>5 DEF Succeeds
  <2>2. redelivered \subseteq redelivered' /\ Once' \subseteq Once
    BY <2>1 DEF Once
  <2>3. OneDelivery'
    BY <1>1, <1>2, <2>1, <2>2, OneDeliveryAfterEnd DEF OnceInv
  <2>4. ASSUME NEW n \in Once', executions[n] > 0, NEW e \in PendingEvents', entries[e].n = n PROVE FALSE
    <3>1. e \in Events /\ e \in PendingEvents /\ e \notin tombstones' /\ entries[e] # None
      BY <2>1, <2>4 DEF PendingEvents, Pending
    <3>2. Running(n)
      BY <2>2, <2>4, <3>1 DEF OnceInv, NoSecondRun
    <3>3. Current.n = n /\ ok
      BY <2>1, <2>4, <3>2 DEF Running, Once
    <3>4. e = Current.event
      BY <1>1, <2>4, <3>1, <3>3 DEF Ingest, KeptInv, KnownEntries
    <3> QED
      BY <2>1, <3>1, <3>3, <3>4
  <2>5. NoSecondRun'
    <3> SUFFICES ASSUME NEW n \in Once', executions[n] > 0
                 PROVE  /\ executions[n] = 1 /\ n <= Len(accepted)
                        /\ \A i \in 1 .. Len(inflight') : inflight'[i].n # n
                        /\ \A j \in 1 .. Len(toDrain') : toDrain'[j].n # n
                        /\ \A e \in PendingEvents' : entries[e].n # n
      BY <1>2, <2>1 DEF NoSecondRun
    <3>1. n \in Once
      BY <2>2
    <3> QED
      BY <1>1, <2>1, <2>4, <3>1, NoneAfterEnd DEF OnceInv, NoSecondRun
  <2> QED
    BY <2>3, <2>5 DEF OnceInv
<1>6. CASE Fails
  <2> DEFINE line == [n |-> Current.n, waiting |-> TRUE]
  <2>1. PICK ok \in BOOLEAN :
          /\ stage \in {"waiting", "performed"}
          /\ entries' = IF ok THEN [entries EXCEPT ![Current.event] = line] ELSE entries
          /\ redelivered' = IF stage = "performed" THEN redelivered \cup {Current.n} ELSE redelivered
          /\ Ends(ok)
          /\ UNCHANGED <<tombstones, executions>>
    BY <1>6 DEF Fails
  <2>2. redelivered \subseteq redelivered' /\ Once' \subseteq Once
    BY <2>1 DEF Once
  <2>3. OneDelivery'
    BY <1>1, <1>2, <2>1, <2>2, OneDeliveryAfterEnd DEF OnceInv
  <2>4. line.n = Current.n
    OBVIOUS
  <2> HIDE DEF line
  <2>5. \A e \in Events : entries'[e] = entries[e] \/ entries'[e] = line
    BY <2>1 DEF Ingest, IngestTypeOK
  <2>6. ASSUME NEW n \in Once', executions[n] > 0 PROVE Current.n # n
    BY <1>1, <2>1, <2>2, <2>6 DEF OnceInv, NoSecondRun, Once
  <2>7. ASSUME NEW n \in Once', executions[n] > 0, NEW e \in PendingEvents', entries'[e].n = n PROVE FALSE
    <3>1. e \in Events /\ e \notin tombstones /\ entries'[e] # None
      BY <2>1, <2>7 DEF PendingEvents, Pending
    <3>2. entries'[e] = entries[e]
      BY <2>4, <2>5, <2>6, <2>7, <3>1
    <3>3. Running(n)
      BY <2>2, <2>7, <3>1, <3>2 DEF OnceInv, NoSecondRun, PendingEvents, Pending
    <3> QED
      BY <2>6, <2>7, <3>3 DEF Running
  <2>8. NoSecondRun'
    <3> SUFFICES ASSUME NEW n \in Once', executions[n] > 0
                 PROVE  /\ executions[n] = 1 /\ n <= Len(accepted)
                        /\ \A i \in 1 .. Len(inflight') : inflight'[i].n # n
                        /\ \A j \in 1 .. Len(toDrain') : toDrain'[j].n # n
                        /\ \A e \in PendingEvents' : entries'[e].n # n
      BY <1>2, <2>1 DEF NoSecondRun
    <3>1. n \in Once
      BY <2>2
    <3> QED
      BY <1>1, <2>1, <2>7, <3>1, NoneAfterEnd DEF OnceInv, NoSecondRun
  <2> QED
    BY <2>3, <2>8 DEF OnceInv
<1> QED
  BY <1>3, <1>4, <1>5, <1>6 DEF Dispatch

\* The acceptance of a request is new: it has run for nobody and has no other delivery.
LEMMA AcceptOnce ==
  ASSUME Ingest, OnceInv, NEW e \in Events, Accept(e)
  PROVE  OnceInv'
<1> DEFINE k == Len(accepted) + 1
           p == [event |-> e, n |-> k, drain |-> FALSE]
           line == [n |-> k, waiting |-> FALSE]
<1>1. /\ inflight' = Append(inflight, p) /\ entries' = [entries EXCEPT ![e] = line]
      /\ accepted' = Append(accepted, e) /\ k <= MaxAccepts
      /\ UNCHANGED <<up, toDrain, stage, tombstones, executions, redelivered>>
  BY DEF Accept, outcome
<1>2. k \in Acceptances /\ Len(accepted) \in Nat /\ k > Len(accepted)
  BY <1>1, Shapes, Bounds DEF Acceptances
<1>3. Len(accepted') = k
  BY <1>1, AppendProperties DEF Ingest, IngestTypeOK
<1>4. p \in Process /\ p.n = k /\ line.n = k
  BY <1>2 DEF Process
<1>5. \A x \in Events : entries'[x] = IF x = e THEN line ELSE entries[x]
  BY <1>1 DEF Ingest, IngestTypeOK
<1>6. UNCHANGED <<up, toDrain, stage, tombstones, executions, redelivered>> /\ inflight' = Append(inflight, p)
  BY <1>1
<1> HIDE DEF k, p, line
<1>7. /\ Len(inflight) \in Nat /\ Len(inflight') = Len(inflight) + 1
      /\ \A i \in 1 .. Len(inflight) : inflight'[i] = inflight[i]
      /\ inflight'[Len(inflight) + 1] = p
  BY <1>4, <1>6, AppendProperties, LenProperties DEF Ingest, IngestTypeOK
<1>8. /\ \A i \in 1 .. Len(inflight) : inflight[i].n # k
      /\ \A j \in 1 .. Len(toDrain) : toDrain[j].n # k
  <2>1. \A q \in KnownProcess : q.n # k
    BY <1>2, Shapes DEF Acceptances
  <2> QED
    BY <2>1, Shapes
<1>9. Once' = Once
  BY <1>6 DEF Once
<1>10. OneDelivery'
  <2>1. ASSUME NEW i \in 1 .. Len(inflight'), NEW j \in 1 .. Len(inflight'), i # j, inflight'[i].n = inflight'[j].n
        PROVE  inflight'[i].n \notin Once
    <3>1. \A l \in 1 .. Len(inflight') : l \in 1 .. Len(inflight) \/ (l = Len(inflight) + 1 /\ inflight'[l].n = k)
      BY <1>4, <1>7
    <3>2. i \in 1 .. Len(inflight) /\ j \in 1 .. Len(inflight)
      BY <1>7, <1>8, <2>1, <3>1
    <3> QED
      BY <1>7, <2>1, <3>2 DEF OnceInv, OneDelivery
  <2>2. ASSUME NEW i \in 1 .. Len(inflight'), NEW j \in 1 .. Len(toDrain), inflight'[i].n = toDrain[j].n
        PROVE  toDrain[j].n \notin Once
    <3>1. i \in 1 .. Len(inflight)
      BY <1>4, <1>7, <1>8, <2>2
    <3> QED
      BY <1>7, <2>2, <3>1 DEF OnceInv, OneDelivery
  <2> QED
    BY <1>6, <1>9, <2>1, <2>2 DEF OnceInv, OneDelivery
<1>11. ASSUME NEW n \in Once, executions[n] > 0
       PROVE  /\ n # k
              /\ \A i \in 1 .. Len(inflight') : inflight'[i].n = n => i = 1 /\ stage = "performed"
              /\ \A x \in PendingEvents' : entries'[x].n = n => Running(n)'
  <2>1. n # k
    <3>1. n \in Nat /\ n <= Len(accepted)
      BY <1>11 DEF OnceInv, NoSecondRun, Once, Acceptances
    <3> QED
      BY <1>2, <3>1
  <2>2. ASSUME NEW i \in 1 .. Len(inflight'), inflight'[i].n = n PROVE i = 1 /\ stage = "performed"
    <3>1. i \in 1 .. Len(inflight)
      BY <1>4, <1>7, <2>1, <2>2
    <3> QED
      BY <1>7, <1>11, <2>2, <3>1 DEF OnceInv, NoSecondRun
  <2>3. ASSUME NEW x \in PendingEvents', entries'[x].n = n PROVE Running(n)'
    <3>1. x \in Events /\ entries'[x] = entries[x]
      BY <1>4, <1>5, <2>1, <2>3 DEF PendingEvents
    <3>2. x \in PendingEvents
      BY <1>6, <2>3, <3>1 DEF PendingEvents, Pending
    <3>3. Running(n)
      BY <1>11, <2>3, <3>1, <3>2 DEF OnceInv, NoSecondRun
    <3>4. inflight'[1] = inflight[1] /\ inflight' # <<>>
      BY SMTT(20), <1>4, <1>6, <1>7, <3>3, Shapes, AppendProperties DEF Running, Ingest, IngestTypeOK
    <3>5. Current' = inflight'[1]
      <4>1. inflight' \in Seq(Process)
        BY <1>4, <1>6, AppendProperties DEF Ingest, IngestTypeOK
      <4> QED
        BY <3>4, <4>1 DEF Current
    <3> QED
      BY <1>6, <3>3, <3>4, <3>5, Shapes DEF Running
  <2> QED
    BY <2>1, <2>2, <2>3
<1>12. NoSecondRun'
  <2> SUFFICES ASSUME NEW n \in Once, executions[n] > 0
               PROVE  /\ executions[n] = 1 /\ n <= Len(accepted')
                      /\ \A i \in 1 .. Len(inflight') : inflight'[i].n = n => i = 1 /\ stage = "performed"
                      /\ \A j \in 1 .. Len(toDrain) : toDrain[j].n # n
                      /\ \A x \in PendingEvents' : entries'[x].n = n => Running(n)'
    BY <1>6, <1>9 DEF NoSecondRun
  <2>1. n <= Len(accepted')
    BY <1>2, <1>3 DEF OnceInv, NoSecondRun, Once, Acceptances
  <2> QED
    BY <1>11, <2>1 DEF OnceInv, NoSecondRun
<1> QED
  BY <1>10, <1>12 DEF OnceInv

\* The deliveries made for pending events are of different acceptances, each of a pending event.
LEMMA DeliveriesDiffer ==
  ASSUME Ingest, NEW E \in SUBSET PendingEvents, NEW order \in SetToSeqs(E), NEW drain \in BOOLEAN
  PROVE  /\ Len(Deliveries(order, drain)) \in Nat
         /\ \A i \in 1 .. Len(Deliveries(order, drain)) :
              \E e \in E : Deliveries(order, drain)[i].n = entries[e].n
         /\ \A i, j \in 1 .. Len(Deliveries(order, drain)) :
              i # j => Deliveries(order, drain)[i].n # Deliveries(order, drain)[j].n
<1> DEFINE ds == Deliveries(order, drain)
<1>1. /\ order \in Seq(E) /\ Len(order) = Cardinality(E) /\ Len(order) \in Nat
      /\ \A i, j \in 1 .. Len(order) : i # j => order[i] # order[j]
  <2>1. order \in Seq(E) /\ Len(order) = Cardinality(E) /\ Len(order) \in Nat
    BY OrderIsSeq DEF PendingEvents
  <2>2. \A i, j \in 1 .. Cardinality(E) : i # j => order[i] # order[j]
    BY DEF SetToSeqs
  <2> QED
    BY <2>1, <2>2
<1>2. \A i \in 1 .. Len(order) : order[i] \in E
  BY <1>1, ElementOfSeq
<1>3. Len(ds) = Len(order) /\ \A i \in 1 .. Len(order) : ds[i].n = entries[order[i]].n
  <2>1. Len(ds) = Len(order)
    BY DeliveriesType DEF Ingest
  <2>2. \A i \in 1 .. Len(order) : ds[i].n = entries[order[i]].n
    BY DEF Deliveries
  <2> QED
    BY <2>1, <2>2
<1> HIDE DEF ds
<1>4. \A d, e \in E : entries[d].n = entries[e].n => d = e
  BY DEF PendingEvents, Pending, Ingest, KeptInv, KnownEntries
<1>5. \A i \in 1 .. Len(ds) : \E e \in E : ds[i].n = entries[e].n
  BY <1>2, <1>3
<1>6. \A i, j \in 1 .. Len(ds) : i # j => ds[i].n # ds[j].n
  BY <1>1, <1>2, <1>3, <1>4
<1> QED
  BY <1>1, <1>3, <1>5, <1>6 DEF ds

\* A tick delivers every due event; one that is under way already gets a reason to run again.
LEMMA TickOnce ==
  ASSUME Ingest, OnceInv, TimerTick
  PROVE  OnceInv'
<1>1. PICK order \in SetToSeqs(DueEvents) : inflight' = inflight \o Deliveries(order, FALSE)
  BY DEF TimerTick
<1> DEFINE ds == Deliveries(order, FALSE)
<1>2. /\ UNCHANGED <<up, toDrain, stage, entries, tombstones, accepted, executions>>
      /\ redelivered' = redelivered \cup {n \in {entries[e].n : e \in DueEvents} : Claimed(n)}
  BY DEF TimerTick, file, answers
<1>3. ds \in Seq(KnownProcess) /\ inflight \in Seq(KnownProcess) /\ DueEvents \subseteq PendingEvents
  BY DeliveriesKept DEF DueEvents, Ingest, KeptInv
<1>4. /\ Len(ds) \in Nat
      /\ \A i \in 1 .. Len(ds) : \E e \in DueEvents : ds[i].n = entries[e].n
      /\ \A i, j \in 1 .. Len(ds) : i # j => ds[i].n # ds[j].n
  BY <1>3, DeliveriesDiffer
<1>5. inflight' = inflight \o ds
  BY <1>1
<1> HIDE DEF ds
<1>6. /\ Len(inflight) \in Nat /\ Len(inflight') = Len(inflight) + Len(ds)
      /\ \A i \in 1 .. Len(inflight) : inflight'[i] = inflight[i]
      /\ \A i \in 1 .. Len(inflight') : i > Len(inflight) => i - Len(inflight) \in 1 .. Len(ds) /\ inflight'[i] = ds[i - Len(inflight)]
  BY <1>3, <1>4, <1>5, ConcatProperties, LenProperties
<1>7. Once' \subseteq Once
  BY <1>2 DEF Once
<1>8. ASSUME NEW n \in Once', NEW i \in 1 .. Len(ds), ds[i].n = n PROVE ~Claimed(n)
  BY <1>2, <1>4, <1>8 DEF Once
<1>9. \A n : ~Claimed(n) => /\ \A i \in 1 .. Len(inflight) : inflight[i].n # n
                           /\ \A j \in 1 .. Len(toDrain) : toDrain[j].n # n
  <2>1. DOMAIN inflight = 1 .. Len(inflight) /\ DOMAIN toDrain = 1 .. Len(toDrain)
    BY LenProperties DEF Ingest, IngestTypeOK
  <2> QED
    BY <2>1 DEF Claimed, ToSet
<1>10. ASSUME NEW i \in 1 .. Len(inflight'), NEW j \in 1 .. Len(inflight'), i < j, inflight'[i].n = inflight'[j].n
       PROVE  inflight'[i].n \notin Once'
  <2>1. CASE j <= Len(inflight)
    <3>1. i \in 1 .. Len(inflight) /\ j \in 1 .. Len(inflight) /\ i # j
      BY <1>6, <1>10, <2>1
    <3> QED
      BY <1>6, <1>7, <1>10, <3>1 DEF OnceInv, OneDelivery
  <2>2. CASE i <= Len(inflight) /\ j > Len(inflight)
    <3>1. j - Len(inflight) \in 1 .. Len(ds) /\ inflight'[j] = ds[j - Len(inflight)] /\ inflight'[i] = inflight[i]
          /\ i \in 1 .. Len(inflight)
      BY <1>6, <2>2
    <3> QED
      BY <1>8, <1>9, <1>10, <3>1
  <2>3. CASE i > Len(inflight) /\ j > Len(inflight)
    <3>1. /\ i - Len(inflight) \in 1 .. Len(ds) /\ j - Len(inflight) \in 1 .. Len(ds)
          /\ i - Len(inflight) # j - Len(inflight)
          /\ inflight'[i] = ds[i - Len(inflight)] /\ inflight'[j] = ds[j - Len(inflight)]
      BY <1>6, <1>10, <2>3
    <3> QED
      BY <1>4, <1>10, <3>1
  <2>4. i \in Nat /\ j \in Nat
    BY <1>6, <1>4
  <2> QED
    BY <1>6, <1>10, <2>1, <2>2, <2>3, <2>4
<1>11. \A i, j \in 1 .. Len(inflight') : i # j /\ inflight'[i].n = inflight'[j].n => inflight'[i].n \notin Once'
  <2>1. \A i, j \in 1 .. Len(inflight') : i # j => i < j \/ j < i
    BY <1>4, <1>6
  <2> QED
    BY <1>10, <2>1
<1>12. ASSUME NEW i \in 1 .. Len(inflight'), NEW j \in 1 .. Len(toDrain), inflight'[i].n = toDrain[j].n
       PROVE  toDrain[j].n \notin Once'
  <2>1. CASE i <= Len(inflight)
    <3>1. i \in 1 .. Len(inflight) /\ inflight'[i] = inflight[i]
      BY <1>4, <1>6, <2>1
    <3> QED
      BY <1>7, <1>12, <3>1 DEF OnceInv, OneDelivery
  <2>2. CASE i > Len(inflight)
    <3>1. i - Len(inflight) \in 1 .. Len(ds) /\ inflight'[i] = ds[i - Len(inflight)]
      BY <1>6, <2>2
    <3> QED
      BY <1>8, <1>9, <1>12, <3>1
  <2> QED
    BY <1>4, <1>6, <2>1, <2>2
<1>13. OneDelivery'
  BY <1>2, <1>7, <1>11, <1>12 DEF OnceInv, OneDelivery
<1>14. ASSUME NEW n \in Once', executions[n] > 0
       PROVE  /\ \A i \in 1 .. Len(inflight') : inflight'[i].n = n => i = 1 /\ stage = "performed"
              /\ \A e \in PendingEvents : entries[e].n = n => Running(n)'
  <2>1. n \in Once
    BY <1>7
  <2>2. ASSUME Running(n) PROVE Running(n)'
    <3>1. 1 \in 1 .. Len(inflight) /\ Current = inflight[1]
      BY <2>2, Shapes DEF Running
    <3>2. inflight' \in Seq(KnownProcess)
      BY <1>3, <1>5, ConcatProperties
    <3>3. inflight' # <<>> /\ inflight'[1] = inflight[1]
      BY <1>4, <1>6, <3>1, EmptySeq
    <3>4. Current' = inflight'[1]
      BY <3>2, <3>3 DEF Current
    <3> QED
      BY <1>2, <2>2, <3>1, <3>3, <3>4 DEF Running
  <2>3. ASSUME NEW i \in 1 .. Len(inflight'), inflight'[i].n = n PROVE i = 1 /\ stage = "performed"
    <3>1. CASE i <= Len(inflight)
      <4>1. i \in 1 .. Len(inflight) /\ inflight'[i] = inflight[i]
        BY <1>4, <1>6, <3>1
      <4> QED
        BY <1>14, <2>1, <2>3, <4>1 DEF OnceInv, NoSecondRun
    <3>2. CASE i > Len(inflight)
      <4>1. i - Len(inflight) \in 1 .. Len(ds) /\ ds[i - Len(inflight)].n = n
        BY <1>6, <2>3, <3>2
      <4>2. PICK e \in DueEvents : entries[e].n = n
        BY <1>4, <4>1
      <4>3. Running(n)
        BY <1>3, <1>14, <2>1, <4>2 DEF OnceInv, NoSecondRun
      <4>4. 1 \in 1 .. Len(inflight) /\ inflight[1].n = n
        BY <4>3, Shapes DEF Running
      <4> QED
        BY <1>8, <1>9, <4>1, <4>4
    <3> QED
      BY <1>4, <1>6, <3>1, <3>2
  <2> QED
    BY <1>14, <2>1, <2>2, <2>3 DEF OnceInv, NoSecondRun
<1>15. NoSecondRun'
  <2>1. PendingEvents' = PendingEvents
    BY <1>2 DEF PendingEvents, Pending
  <2>2. \A n \in Once' : n \in Once
    BY <1>7
  <2> QED
    BY <1>2, <1>14, <2>1, <2>2 DEF OnceInv, NoSecondRun
<1> QED
  BY <1>13, <1>15 DEF OnceInv

\* A restart lists pending events, and none of them has run unless it has a reason to run again.
LEMMA StartOnce ==
  ASSUME Ingest, OnceInv, Start
  PROVE  OnceInv'
<1>1. CASE StartEmpty
  <2>1. /\ UNCHANGED <<inflight, toDrain, stage, executions, redelivered, accepted, entries, tombstones>>
        /\ ~up
    BY <1>1 DEF StartEmpty, file, answers, outcome
  <2>2. UNCHANGED <<Once, PendingEvents, Current>> /\ toDrain = <<>> /\ Len(toDrain) = 0
    BY <2>1, EmptySeq DEF Once, PendingEvents, Pending, Current, OnceInv, OneDelivery
  <2>3. OneDelivery'
    BY <2>1, <2>2 DEF OnceInv, OneDelivery
  <2>4. NoSecondRun'
    BY <2>1, <2>2 DEF OnceInv, NoSecondRun, Running
  <2> QED
    BY <2>3, <2>4 DEF OnceInv
<1>2. CASE StartDraining
  <2>1. PICK order \in SetToSeqs(PendingEvents) :
          /\ inflight' = <<Head(Deliveries(order, TRUE))>>
          /\ toDrain' = Tail(Deliveries(order, TRUE))
    BY <1>2 DEF StartDraining
  <2> DEFINE ds == Deliveries(order, TRUE)
  <2>2. ds \in Seq(KnownProcess) /\ ds # <<>>
    BY <1>2, <2>1, DeliveriesKept, DeliveriesType DEF StartDraining, Ingest
  <2>3. /\ Len(ds) \in Nat
        /\ \A i \in 1 .. Len(ds) : \E e \in PendingEvents : ds[i].n = entries[e].n
        /\ \A i, j \in 1 .. Len(ds) : i # j => ds[i].n # ds[j].n
    BY DeliveriesDiffer
  <2>4. inflight' = <<Head(ds)>> /\ toDrain' = Tail(ds)
    BY <2>1
  <2> HIDE DEF ds
  <2>5. /\ Len(ds) > 0 /\ Len(inflight') = 1 /\ inflight'[1] = ds[1]
        /\ Len(toDrain') = Len(ds) - 1 /\ \A j \in 1 .. Len(toDrain') : toDrain'[j] = ds[j + 1]
    BY <2>2, <2>4, HeadTailProperties, EmptySeq
  <2>6. /\ ~up /\ up' /\ UNCHANGED <<executions, redelivered, accepted, stage>>
    BY <1>2 DEF StartDraining, answers, outcome
  <2>7. ~(inflight # <<>>)
    BY <2>6 DEF Ingest, KeptInv
  <2>8. \A e \in PendingEvents' : e \in PendingEvents /\ entries'[e] = entries[e]
    <3>1. PICK ok \in BOOLEAN :
            /\ entries' = IF ok THEN [e \in Events |-> IF e \in tombstones THEN None ELSE entries[e]] ELSE entries
            /\ tombstones' = IF ok THEN {} ELSE tombstones
      BY <1>2 DEF StartDraining
    <3> QED
      BY <3>1 DEF PendingEvents, Pending
  <2>9. \A n \in Once : executions[n] > 0 => \A e \in PendingEvents : entries[e].n # n
    BY <2>7 DEF OnceInv, NoSecondRun, Running
  <2>10. OneDelivery'
    <3>1. \A i, j \in 1 .. Len(inflight') : ~(i # j)
      BY <2>5
    <3>2. \A i, j \in 1 .. Len(toDrain') : i # j => toDrain'[i].n # toDrain'[j].n
      BY <2>3, <2>5
    <3>3. \A i \in 1 .. Len(inflight'), j \in 1 .. Len(toDrain') : inflight'[i].n # toDrain'[j].n
      BY <2>3, <2>5
    <3> QED
      BY <2>6, <3>1, <3>2, <3>3 DEF OneDelivery
  <2>11. NoSecondRun'
    <3>1. \A i \in 1 .. Len(inflight') : 1 \in 1 .. Len(ds) /\ inflight'[i] = ds[1]
      BY <2>3, <2>5
    <3>2. \A j \in 1 .. Len(toDrain') : j + 1 \in 1 .. Len(ds) /\ toDrain'[j] = ds[j + 1]
      BY <2>3, <2>5
    <3>3. Once' = Once
      BY <2>6 DEF Once
    <3>4. ASSUME NEW n \in Once, executions[n] > 0
          PROVE  /\ \A i \in 1 .. Len(inflight') : inflight'[i].n # n
                 /\ \A j \in 1 .. Len(toDrain') : toDrain'[j].n # n
      <4>1. \A l \in 1 .. Len(ds) : ds[l].n # n
        BY <2>3, <2>9, <3>4
      <4> QED
        BY <3>1, <3>2, <4>1
    <3> QED
      BY <2>6, <2>8, <2>9, <3>3, <3>4 DEF OnceInv, NoSecondRun
  <2> QED
    BY <2>10, <2>11 DEF OnceInv
<1> QED
  BY <1>1, <1>2 DEF Start

LEMMA OnceStep ==
  ASSUME Ingest, OnceInv, [Next]_vars
  PROVE  OnceInv'
<1>1. ASSUME NEW e \in Events, Request(e), ~Accept(e) PROVE OnceInv'
  <2>1. /\ UNCHANGED <<up, inflight, toDrain, stage, executions, redelivered, accepted, entries, tombstones>>
    BY <1>1 DEF Request, Duplicate, RateLimited, AcceptFails, vars, file, memory, answers, outcome
  <2> QED
    BY <2>1, OnceUnchanged DEF PendingEvents, Pending
<1>2. ASSUME NEW e \in Events, BackoffElapses(e) PROVE OnceInv'
  <2>1. /\ UNCHANGED <<up, inflight, toDrain, stage, executions, redelivered, accepted, tombstones>>
        /\ entries' = [entries EXCEPT ![e].waiting = FALSE] /\ entries[e] \in Line /\ entries[e] # None
    BY <1>2 DEF BackoffElapses, memory, answers, outcome, Pending, Ingest, IngestTypeOK
  <2>2. \A x \in Events : entries'[x] = entries[x] \/ (x = e /\ entries'[x].n = entries[x].n)
    BY <2>1 DEF Ingest, IngestTypeOK, Line
  <2>3. \A x \in PendingEvents' : x \in PendingEvents /\ entries'[x].n = entries[x].n
    BY <2>1, <2>2 DEF PendingEvents, Pending
  <2> QED
    BY <2>1, <2>3, OnceUnchanged
<1>3. CASE (\E e \in Events : DedupExpires(e)) \/ SlotFrees \/ BusWindowTurns \/ UNCHANGED vars
  <2>1. UNCHANGED <<up, inflight, toDrain, stage, executions, redelivered, accepted, entries, tombstones>>
    BY <1>3 DEF DedupExpires, SlotFrees, BusWindowTurns, vars, file, memory, answers, outcome
  <2> QED
    BY <2>1, OnceUnchanged DEF PendingEvents, Pending
<1>4. CASE Crash
  <2>1. /\ inflight' = <<>> /\ toDrain' = <<>> /\ UNCHANGED <<entries, tombstones, accepted, executions>>
        /\ redelivered' = redelivered \cup {n \in {entries[e].n : e \in PendingEvents} : executions[n] > 0}
    BY <1>4 DEF Crash, file, answers
  <2>2. Len(inflight') = 0 /\ Len(toDrain') = 0 /\ PendingEvents' = PendingEvents
    BY <2>1, EmptySeq DEF PendingEvents, Pending
  <2>3. OneDelivery'
    BY <2>1, <2>2 DEF OneDelivery
  <2>4. NoSecondRun'
    BY <2>1, <2>2 DEF OnceInv, NoSecondRun, Once
  <2> QED
    BY <2>3, <2>4 DEF OnceInv
<1> QED
  BY <1>1, <1>2, <1>3, <1>4, AcceptOnce, DispatchOnce, TickOnce, StartOnce DEF Next

\* The automations run once for an acceptance unless a failure, a crash, a failed write or a tick of
\* the retry timer gave it a reason to run again.
THEOREM RunsOnce == Spec => []ExecutesOnce
<1> DEFINE Inv == Ingest /\ OnceInv
<1>1. Init => Inv
  BY IngestInitType, KeptInit, OnceInit DEF Ingest
<1>2. Inv /\ [Next]_vars => Inv'
  BY IngestNextType, KeptNext, OnceStep DEF Ingest
<1>3. Inv => ExecutesOnce
  <2>1. ASSUME IngestTypeOK, OnceInv, NEW n \in Acceptances, executions[n] > 1, n \notin redelivered PROVE FALSE
    <3>1. executions[n] \in Nat /\ executions[n] > 0 /\ n \in Once
      BY <2>1 DEF IngestTypeOK, Once
    <3> QED
      BY <2>1, <3>1 DEF OnceInv, NoSecondRun
  <2> QED
    BY <2>1 DEF ExecutesOnce, Ingest
<1> QED
  BY <1>1, <1>2, <1>3, PTL DEF Spec

=============================================================================
