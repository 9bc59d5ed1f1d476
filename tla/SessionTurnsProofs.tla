-------------------------- MODULE SessionTurnsProofs --------------------------
(***************************************************************************)
(* Types, what a shutdown that reports no failure leaves behind, that a    *)
(* text reaches the backend once, and that an acknowledged message is not  *)
(* forgotten, for every number of sends, messages, mishaps and restarts.   *)
(***************************************************************************)
EXTENDS SessionTurns, FiniteSetTheorems, TLAPS

StageType == [Messages -> {"none", "saving", "replaying", "clearing", "setup", "halted", "chatting", "done"}]

\* What is stored is a transcript that has been.
Stored ==
  \A s \in {snapshot, disk} : s.messages \subseteq 1 .. used /\ s.marked \subseteq s.messages

Underway == {"saving", "replaying", "clearing"}

\* A message whose send is under way is in the transcript, and neither queued
\* nor steered, so Stop cannot take it; none is queued and steered at once.
Placed ==
  /\ \A m \in Messages : stage[m] \in Underway => m \in messages /\ m \notin queue /\ m \notin steers
  /\ queue \cap steers = {}

Transcript == TranscriptOK /\ Stored /\ Placed

NoNewSends == \A m \in Messages : stage'[m] \in Underway => stage[m] \in Underway

StoresNow ==
  /\ snapshot' \in {snapshot, [messages |-> messages', marked |-> marked']}
  /\ disk' \in {disk, snapshot}

LEMMA Sizes == MaxMessages \in Nat
  BY TurnsAssumption

----------------------------------------------------------------------------
(* The transcript and what waits. *)

LEMMA TranscriptInit == Init => Transcript
<1> SUFFICES ASSUME Init PROVE Transcript
  OBVIOUS
<1>1. TranscriptOK
  BY Sizes DEF Init, TranscriptOK, Snapshots, NoSnapshot
<1>2. Stored
  BY DEF Init, Stored, NoSnapshot
<1>3. Placed
  BY DEF Init, Placed, Underway
<1> QED
  BY <1>1, <1>2, <1>3 DEF Transcript

LEMMA TranscriptStutters ==
  ASSUME Transcript, UNCHANGED <<used, messages, marked, queue, slot, steers, stage, snapshot, disk>>
  PROVE  Transcript'
BY DEF Transcript, TranscriptOK, Stored, Placed

\* Whatever an action stores is a transcript of before or of after it.
LEMMA StoredKept ==
  ASSUME Transcript, used' \in 0 .. MaxMessages, used <= used',
         messages' \subseteq 1 .. used', marked' \subseteq messages',
         \/ snapshot' = snapshot
         \/ snapshot' = [messages |-> messages', marked |-> marked']
         \/ \E marks \in SUBSET messages : snapshot' = [messages |-> messages, marked |-> marks],
         disk' \in {disk, snapshot}
  PROVE  snapshot' \in Snapshots /\ disk' \in Snapshots /\ Stored'
<1> USE Sizes
<1>1. used \in 0 .. MaxMessages /\ messages \subseteq 1 .. used'
  BY DEF Transcript, TranscriptOK
<1>2. 1 .. used' \subseteq Messages
  BY DEF Messages
<1>3. \A s \in {snapshot, disk} : s \in Snapshots /\ s.messages \subseteq 1 .. used' /\ s.marked \subseteq s.messages
  BY <1>1 DEF Transcript, TranscriptOK, Stored
<1>4. snapshot' \in Snapshots /\ snapshot'.messages \subseteq 1 .. used' /\ snapshot'.marked \subseteq snapshot'.messages
  <2>1. CASE snapshot' = snapshot
    BY <2>1, <1>3
  <2>2. CASE snapshot' = [messages |-> messages', marked |-> marked']
    BY <2>2, <1>2 DEF Snapshots
  <2>3. CASE \E marks \in SUBSET messages : snapshot' = [messages |-> messages, marked |-> marks]
    BY <2>3, <1>1, <1>2 DEF Snapshots
  <2> QED
    BY <2>1, <2>2, <2>3
<1>5. disk' \in Snapshots /\ disk'.messages \subseteq 1 .. used' /\ disk'.marked \subseteq disk'.messages
  BY <1>3
<1> QED
  BY <1>4, <1>5 DEF Stored

\* The backend is asked for its steers.
LEMMA TranscriptRecovers ==
  ASSUME Transcript, SteersRecovered, UNCHANGED <<used, messages>>, stage' \in StageType, NoNewSends, StoresNow
  PROVE  Transcript'
<1>1. RecoveredQueue \subseteq messages /\ RecoveredMarks \subseteq messages
  BY DEF Transcript, TranscriptOK, RecoveredQueue, RecoveredMarks
<1>2. queue' = RecoveredQueue /\ marked' = RecoveredMarks /\ steers' = {} /\ slot' = {}
  BY DEF SteersRecovered
<1>3. used' \in 0 .. MaxMessages /\ used <= used' /\ messages' \subseteq 1 .. used' /\ marked' \subseteq messages'
  BY <1>1, <1>2, Sizes DEF Transcript, TranscriptOK
<1>4. snapshot' \in Snapshots /\ disk' \in Snapshots /\ Stored'
  BY <1>3, StoredKept DEF StoresNow
<1>5. TranscriptOK'
  BY <1>1, <1>2, <1>3, <1>4 DEF TranscriptOK, StageType
<1>6. Placed'
  BY <1>2 DEF Transcript, TranscriptOK, Placed, RecoveredQueue, NoNewSends
<1> QED
  BY <1>4, <1>5, <1>6 DEF Transcript

\* Nothing moves between the queue, the steers and the transcript.
LEMMA TranscriptQuiet ==
  ASSUME Transcript, UNCHANGED <<used, messages, marked, queue, steers>>, slot' \subseteq steers,
         stage' \in StageType, NoNewSends, StoresNow
  PROVE  Transcript'
<1>1. used' \in 0 .. MaxMessages /\ used <= used' /\ messages' \subseteq 1 .. used' /\ marked' \subseteq messages'
  BY Sizes DEF Transcript, TranscriptOK
<1>2. snapshot' \in Snapshots /\ disk' \in Snapshots /\ Stored'
  BY <1>1, StoredKept DEF StoresNow
<1>3. TranscriptOK'
  BY <1>1, <1>2 DEF Transcript, TranscriptOK, StageType
<1>4. Placed'
  BY DEF Transcript, Placed, NoNewSends
<1> QED
  BY <1>2, <1>3, <1>4 DEF Transcript

LEMMA StageMoves ==
  ASSUME Transcript, NEW m \in Messages, NEW to \in {"clearing", "setup", "chatting", "done"},
         stage' = [stage EXCEPT ![m] = to], to = "clearing" => stage[m] \in Underway
  PROVE  stage' \in StageType /\ NoNewSends
BY DEF Transcript, TranscriptOK, StageType, NoNewSends, Underway

LEMMA StopTranscript ==
  ASSUME Transcript, StopProcessing, UNCHANGED <<used, disk>>, stage' \in StageType, NoNewSends
  PROVE  Transcript'
<1>1. SteersRecovered /\ messages' = messages /\ StoresNow
  BY DEF StopProcessing, PersistedIf, StoresNow
<1> QED
  BY <1>1, TranscriptRecovers

LEMMA JoinsTranscript ==
  ASSUME Transcript, NEW m \in Messages, used' = m, m = used + 1, Joins(m),
         stage' \in StageType, NoNewSends, stage'[m] \notin Underway, disk' = disk
  PROVE  Transcript'
<1>1. used \in 0 .. MaxMessages /\ m \notin messages
  BY Sizes DEF Transcript, TranscriptOK
<1>2. /\ messages' = messages \cup {m} /\ marked' = marked \cup {m}
      /\ \/ slot' = slot \cup {m} /\ steers' = steers \cup {m} /\ queue' = queue
         \/ slot' = slot /\ steers' = steers /\ queue' = queue \cup {m}
      /\ snapshot' = [messages |-> messages', marked |-> marked']
  BY DEF Joins, Persisted, backend
<1>3. used' \in 0 .. MaxMessages /\ used <= used' /\ messages' \subseteq 1 .. used' /\ marked' \subseteq messages'
  BY <1>1, <1>2, Sizes DEF Transcript, TranscriptOK, Messages
<1>4. snapshot' \in Snapshots /\ disk' \in Snapshots /\ Stored'
  BY <1>1, <1>2, <1>3, StoredKept
<1>5. queue' \subseteq messages' /\ slot' \subseteq steers' /\ steers' \subseteq messages'
  BY <1>2 DEF Transcript, TranscriptOK
<1>6. TranscriptOK'
  BY <1>3, <1>4, <1>5 DEF TranscriptOK, StageType
<1>7. queue' \cap steers' = {}
  BY <1>1, <1>2 DEF Transcript, TranscriptOK, Placed
<1>8. \A d \in Messages : stage'[d] \in Underway => d \in messages' /\ d \notin queue' /\ d \notin steers'
  BY <1>2 DEF Transcript, Placed, NoNewSends
<1> QED
  BY <1>4, <1>6, <1>7, <1>8 DEF Transcript, Placed

LEMMA StartTranscript ==
  ASSUME Transcript, NEW m \in Messages, stage[m] \in Underway, StartTurn(m), UNCHANGED <<used, slot, steers, disk>>
  PROVE  Transcript'
<1>1. m \in messages /\ m \notin queue /\ m \notin steers
  BY DEF Transcript, Placed
<1>2. CASE BeginTurn(m)
  <2>1. /\ UNCHANGED <<used, messages, queue, slot, steers, disk>> /\ marked' = marked \ {m}
        /\ snapshot' \in {snapshot, [messages |-> messages', marked |-> marked']}
        /\ stage' = [stage EXCEPT ![m] = "setup"]
    BY <1>2 DEF BeginTurn, PersistedIf
  <2>2. stage' \in StageType /\ NoNewSends
    BY <2>1, StageMoves
  <2>0. used' = used /\ messages' = messages /\ marked' \subseteq marked
    BY <2>1
  <2>3. used' \in 0 .. MaxMessages /\ used <= used' /\ messages' \subseteq 1 .. used' /\ marked' \subseteq messages'
    BY <2>0, Sizes DEF Transcript, TranscriptOK
  <2>4. snapshot' \in Snapshots /\ disk' \in Snapshots /\ Stored'
    BY <2>1, <2>3, StoredKept
  <2>5. TranscriptOK'
    BY <2>1, <2>2, <2>3, <2>4 DEF Transcript, TranscriptOK, StageType
  <2>6. Placed'
    BY <2>1, <2>2 DEF Transcript, Placed, NoNewSends
  <2> QED
    BY <2>4, <2>5, <2>6 DEF Transcript
<1>3. CASE QueueForRestart(m)
  <2>1. /\ UNCHANGED <<used, messages, slot, steers, disk>> /\ marked' = marked \cup {m} /\ queue' = queue \cup {m}
        /\ snapshot' = [messages |-> messages', marked |-> marked']
        /\ stage' = [stage EXCEPT ![m] = "done"]
    BY <1>3 DEF QueueForRestart, Persisted
  <2>2. stage' \in StageType /\ NoNewSends
    BY <2>1, StageMoves
  <2>3. used' \in 0 .. MaxMessages /\ used <= used' /\ messages' \subseteq 1 .. used' /\ marked' \subseteq messages'
    BY <1>1, <2>1, Sizes DEF Transcript, TranscriptOK
  <2>4. snapshot' \in Snapshots /\ disk' \in Snapshots /\ Stored'
    BY <2>1, <2>3, StoredKept
  <2>5. TranscriptOK'
    BY <1>1, <2>1, <2>2, <2>3, <2>4 DEF Transcript, TranscriptOK, StageType
  <2>6. stage'[m] \notin Underway
    BY <2>1 DEF Transcript, TranscriptOK, Underway
  <2>7. Placed'
    BY <1>1, <2>1, <2>2, <2>6 DEF Transcript, Placed, NoNewSends
  <2> QED
    BY <2>4, <2>5, <2>7 DEF Transcript
<1> QED
  BY <1>2, <1>3 DEF StartTurn

LEMMA CommitTranscript == ASSUME Transcript, Commit PROVE Transcript'
<1> DEFINE m == used + 1
<1>1. m \in Messages /\ used' = m /\ m \notin messages /\ disk' = disk
  BY Sizes DEF Commit, Transcript, TranscriptOK, Messages
<1>2. CASE processing
  <2>1. Joins(m) /\ stage' = [stage EXCEPT ![m] = "done"]
    BY <1>1, <1>2 DEF Commit
  <2>2. stage' \in StageType /\ NoNewSends
    BY <1>1, <2>1, StageMoves
  <2>3. stage'[m] \notin Underway
    BY <1>1, <2>1 DEF Transcript, TranscriptOK, Underway
  <2> QED
    BY <1>1, <2>1, <2>2, <2>3, JoinsTranscript
<1>3. CASE ~processing
  <2>1. /\ messages' = messages \cup {m} /\ UNCHANGED <<marked, queue, steers, slot>>
        /\ stage' = [stage EXCEPT ![m] = "saving"]
        /\ snapshot' = [messages |-> messages', marked |-> marked']
    BY <1>1, <1>3 DEF Commit, Persisted, backend
  <2>2. used' \in 0 .. MaxMessages /\ used <= used' /\ messages' \subseteq 1 .. used' /\ marked' \subseteq messages'
    BY <1>1, <2>1, Sizes DEF Transcript, TranscriptOK, Messages
  <2>3. snapshot' \in Snapshots /\ disk' \in Snapshots /\ Stored'
    BY <1>1, <2>1, <2>2, StoredKept
  <2>4. stage' \in StageType /\ \A d \in Messages \ {m} : stage'[d] = stage[d]
    BY <1>1, <2>1 DEF Transcript, TranscriptOK, StageType
  <2>5. TranscriptOK'
    BY <2>1, <2>2, <2>3, <2>4 DEF Transcript, TranscriptOK, StageType
  <2>6. Placed'
    BY <1>1, <2>1, <2>4 DEF Transcript, TranscriptOK, Placed
  <2> QED
    BY <2>3, <2>5, <2>6 DEF Transcript
<1> QED
  BY <1>2, <1>3

LEMMA ReplayCommitsTranscript ==
  ASSUME Transcript, NEW m \in Messages, ReplayCommits(m) PROVE Transcript'
<1>1. stage[m] = "clearing" /\ disk' = disk
  BY DEF ReplayCommits
<1>2. CASE processing
  <2> DEFINE n == used + 1
  <2>1. /\ n \in Messages /\ used' = n /\ Joins(n)
        /\ stage' = [stage EXCEPT ![m] = "done", ![n] = "done"]
    BY <1>2, Sizes DEF ReplayCommits, Transcript, TranscriptOK, Messages
  <2>2. stage' \in StageType /\ NoNewSends /\ stage'[n] \notin Underway
    BY <2>1 DEF Transcript, TranscriptOK, StageType, NoNewSends, Underway
  <2> QED
    BY <1>1, <2>1, <2>2, JoinsTranscript
<1>3. CASE ~processing
  BY <1>1, <1>3, StartTranscript DEF ReplayCommits, backend, Underway
<1> QED
  BY <1>2, <1>3

LEMMA ChatStartsTranscript ==
  ASSUME Transcript, NEW m \in Messages, ChatStarts(m) PROVE Transcript'
<1>1. /\ UNCHANGED <<used, messages, disk>>
      /\ queue' = queue \cup (slot \cap steers) /\ marked' = marked \cup (slot \cap steers)
      /\ steers' = steers \ slot /\ slot' = {}
      /\ stage' = [stage EXCEPT ![m] = "chatting"]
      /\ snapshot' \in {snapshot, [messages |-> messages', marked |-> marked']}
  BY DEF ChatStarts, RecoveredQueue, PersistedIf, sends
<1>2. stage' \in StageType /\ NoNewSends
  BY <1>1, StageMoves
<1>3. used' \in 0 .. MaxMessages /\ used <= used' /\ messages' \subseteq 1 .. used' /\ marked' \subseteq messages'
  BY <1>1, Sizes DEF Transcript, TranscriptOK
<1>4. snapshot' \in Snapshots /\ disk' \in Snapshots /\ Stored'
  BY <1>1, <1>3, StoredKept
<1>5. queue' \subseteq messages' /\ slot' \subseteq steers' /\ steers' \subseteq messages'
  BY <1>1 DEF Transcript, TranscriptOK
<1>6. TranscriptOK'
  BY <1>2, <1>3, <1>4, <1>5 DEF TranscriptOK, StageType
<1>7. Placed'
  BY <1>1, <1>2 DEF Transcript, Placed, NoNewSends
<1> QED
  BY <1>4, <1>6, <1>7 DEF Transcript

\* Taking the head of the queue, and what follows it at most stores.
LEMMA TakeTranscript ==
  ASSUME Transcript, TakeNext, UNCHANGED <<used, steers, slot>>, StoresNow PROVE Transcript'
<1> DEFINE next == IF shutdown = "no" THEN Taken ELSE {}
<1>1. next \subseteq queue
  BY DEF Taken
<1>2. /\ queue' = queue \ next /\ UNCHANGED <<messages, marked>>
      /\ stage' = [m \in Messages |-> IF m \in next THEN "replaying" ELSE stage[m]]
  BY DEF TakeNext
<1>3. used' \in 0 .. MaxMessages /\ used <= used' /\ messages' \subseteq 1 .. used' /\ marked' \subseteq messages'
  BY <1>2, Sizes DEF Transcript, TranscriptOK
<1>4. snapshot' \in Snapshots /\ disk' \in Snapshots /\ Stored'
  BY <1>3, StoredKept DEF StoresNow
<1>5. stage' \in StageType
  BY <1>2 DEF Transcript, TranscriptOK, StageType
<1>6. TranscriptOK'
  BY <1>2, <1>3, <1>4, <1>5 DEF Transcript, TranscriptOK, StageType
<1>7. Placed'
  BY <1>1, <1>2 DEF Transcript, TranscriptOK, Placed
<1> QED
  BY <1>4, <1>6, <1>7 DEF Transcript

LEMMA StopButtonTranscript == ASSUME Transcript, Stop PROVE Transcript'
<1>1. RecoveredQueue \subseteq messages /\ RecoveredMarks \subseteq messages
  BY DEF Transcript, TranscriptOK, RecoveredQueue, RecoveredMarks
<1>2. /\ messages' = messages \ RecoveredQueue /\ marked' = RecoveredMarks \ RecoveredQueue
      /\ queue' = {} /\ steers' = {} /\ slot' = {}
      /\ snapshot' = snapshot \/ snapshot' = [messages |-> messages, marked |-> RecoveredMarks]
      /\ stage' = [m \in Messages |-> IF stage[m] = "setup" THEN "halted" ELSE stage[m]]
      /\ UNCHANGED <<used, disk>>
  BY DEF Stop, Withdrawn, sends
<1>3. used' \in 0 .. MaxMessages /\ used <= used' /\ messages' \subseteq 1 .. used' /\ marked' \subseteq messages'
  BY <1>1, <1>2, Sizes DEF Transcript, TranscriptOK
<1>4. snapshot' \in Snapshots /\ disk' \in Snapshots /\ Stored'
  BY <1>1, <1>2, <1>3, StoredKept
<1>5. stage' \in StageType
  BY <1>2 DEF Transcript, TranscriptOK, StageType
<1>6. TranscriptOK'
  BY <1>2, <1>3, <1>4, <1>5 DEF TranscriptOK, StageType
<1>7. Placed'
  BY <1>2 DEF Transcript, TranscriptOK, Placed, RecoveredQueue, Underway
<1> QED
  BY <1>4, <1>6, <1>7 DEF Transcript

LEMMA RestartTranscript == ASSUME Transcript, Restart PROVE Transcript'
<1>1. /\ UNCHANGED <<used, disk>>
      /\ messages' = disk.messages /\ marked' = disk.marked /\ queue' = disk.marked /\ snapshot' = disk
      /\ slot' = {} /\ steers' = {} /\ stage' = [m \in Messages |-> "none"]
  BY DEF Restart
<1>2. disk \in Snapshots /\ disk.messages \subseteq 1 .. used /\ disk.marked \subseteq disk.messages
  BY DEF Transcript, TranscriptOK, Stored
<1>3. TranscriptOK'
  BY <1>1, <1>2 DEF Transcript, TranscriptOK
<1>4. Stored'
  BY <1>1, <1>2 DEF Stored
<1>5. Placed'
  BY <1>1 DEF Placed, Underway
<1> QED
  BY <1>3, <1>4, <1>5 DEF Transcript

----------------------------------------------------------------------------
(* One lemma per action. *)

LEMMA SendStep == ASSUME Transcript, Send PROVE Transcript'
  BY TranscriptStutters DEF Send, runtime, backend, storage

LEMMA AdmittedStep == ASSUME Transcript, Admitted PROVE Transcript'
  BY TranscriptStutters DEF Admitted, runtime, backend, storage

LEMMA ReplayAdmittedStep == ASSUME Transcript, NEW m \in Messages, ReplayAdmitted(m) PROVE Transcript'
<1>1. CASE shutdown = "no"
  <2>1. /\ UNCHANGED <<used, messages, marked, queue, steers, slot, snapshot, disk>>
        /\ stage' = [stage EXCEPT ![m] = "clearing"] /\ stage[m] = "replaying"
    BY <1>1 DEF ReplayAdmitted, sends, backend
  <2>2. stage' \in StageType /\ NoNewSends
    BY <2>1, StageMoves DEF Underway
  <2> QED
    BY <2>1, <2>2, TranscriptQuiet DEF StoresNow, Transcript, TranscriptOK
<1>2. CASE shutdown # "no"
  <2>1. stage' = [stage EXCEPT ![m] = "done"] /\ StopProcessing /\ UNCHANGED <<used, disk>>
    BY <1>2 DEF ReplayAdmitted, sends
  <2> QED
    BY <2>1, StageMoves, StopTranscript
<1> QED
  BY <1>1, <1>2

LEMMA SavedStep == ASSUME Transcript, NEW m \in Messages, Saved(m) PROVE Transcript'
  BY StartTranscript DEF Saved, backend, Underway

LEMMA AcknowledgedStep == ASSUME Transcript, NEW m \in Messages, Acknowledged(m) PROVE Transcript'
  BY TranscriptStutters DEF Acknowledged, runtime, backend, storage

LEMMA WrittenStep == ASSUME Transcript, Written PROVE Transcript'
<1>1. UNCHANGED <<used, messages, marked, queue, steers, slot, stage, snapshot>> /\ disk' = snapshot
  BY DEF Written, sends, runtime, backend
<1> QED
  BY <1>1, TranscriptQuiet DEF StoresNow, NoNewSends, StageType, Transcript, TranscriptOK

\* A turn that ends without one, and may end by onProcessingStopped.
LEMMA GivenUpStep ==
  ASSUME Transcript, NEW m \in Messages, stage' = [stage EXCEPT ![m] = "done"], UNCHANGED <<used, disk>>,
         \/ StopProcessing
         \/ UNCHANGED <<messages, marked, queue, steers, snapshot>> /\ slot' \subseteq steers
  PROVE  Transcript'
<1>1. stage' \in StageType /\ NoNewSends
  BY StageMoves
<1>2. CASE StopProcessing
  BY <1>1, <1>2, StopTranscript
<1>3. CASE UNCHANGED <<messages, marked, queue, steers, snapshot>> /\ slot' \subseteq steers
  BY <1>1, <1>3, TranscriptQuiet DEF StoresNow
<1> QED
  BY <1>2, <1>3

LEMMA SetupFailsStep == ASSUME Transcript, NEW m \in Messages, SetupFails(m) PROVE Transcript'
<1>1. slot \subseteq steers
  BY DEF Transcript, TranscriptOK
<1> QED
  BY <1>1, GivenUpStep DEF SetupFails, sends, backend

LEMMA TurnAbandonedStep == ASSUME Transcript, NEW m \in Messages, TurnAbandoned(m) PROVE Transcript'
<1>1. slot \subseteq steers
  BY DEF Transcript, TranscriptOK
<1> QED
  BY <1>1, GivenUpStep DEF TurnAbandoned, sends, backend

LEMMA ChatEndsStep == ASSUME Transcript, NEW m \in Messages, ChatEnds(m) PROVE Transcript'
<1>1. slot \subseteq steers
  BY DEF Transcript, TranscriptOK
<1> QED
  BY <1>1, GivenUpStep DEF ChatEnds, sends, backend

LEMMA DeliverStep == ASSUME Transcript, Deliver PROVE Transcript'
<1>1. UNCHANGED <<used, messages, marked, queue, steers, stage, snapshot, disk>> /\ slot' = {}
  BY DEF Deliver, sends, runtime, storage
<1> QED
  BY <1>1, TranscriptQuiet DEF StoresNow, NoNewSends, StageType, Transcript, TranscriptOK

LEMMA TailEndsStep == ASSUME Transcript, TailEnds PROVE Transcript'
  BY TakeTranscript DEF TailEnds, Persisted, StoresNow, sends, backend

LEMMA HandoffEndsStep == ASSUME Transcript, HandoffEnds PROVE Transcript'
<1>1. /\ UNCHANGED <<used, messages, marked, queue, steers, slot, stage, disk>>
      /\ snapshot' = [messages |-> messages', marked |-> marked']
  BY DEF HandoffEnds, Persisted, sends, backend
<1> QED
  BY <1>1, TranscriptQuiet DEF StoresNow, NoNewSends, StageType, Transcript, TranscriptOK

LEMMA KickFiresStep == ASSUME Transcript, KickFires PROVE Transcript'
  BY TakeTranscript DEF KickFires, PersistedIf, StoresNow, sends, backend

LEMMA HandoffStep == ASSUME Transcript, NEW m \in Messages, Handoff(m) PROVE Transcript'
<1>1. SteersRecovered /\ UNCHANGED <<used, messages, stage>> /\ StoresNow
  BY DEF Handoff, Persisted, PersistedIf, StoresNow, sends
<1> QED
  BY <1>1, TranscriptRecovers DEF NoNewSends, StageType, Transcript, TranscriptOK

LEMMA TimerFiresStep == ASSUME Transcript, TimerFires PROVE Transcript'
<1>1. stage' = stage /\ UNCHANGED <<used, disk>> /\ stage \in StageType /\ NoNewSends
  BY DEF TimerFires, sends, NoNewSends, StageType, Transcript, TranscriptOK
<1>2. CASE processing
  BY <1>1, <1>2, StopTranscript DEF TimerFires
<1>3. CASE ~processing
  BY <1>1, <1>3, TranscriptStutters DEF TimerFires, backend
<1> QED
  BY <1>2, <1>3

LEMMA ShutdownStep ==
  ASSUME Transcript, ShutdownBegins \/ ShutdownEnds \/ ShutdownGivesUp PROVE Transcript'
BY TranscriptStutters DEF ShutdownBegins, ShutdownEnds, ShutdownGivesUp, sends, runtime, backend, storage

LEMMA SendsSettledStep == ASSUME Transcript, SendsSettled PROVE Transcript'
<1>1. UNCHANGED <<used, messages, stage, disk>> /\ stage \in StageType /\ NoNewSends
  BY DEF SendsSettled, sends, NoNewSends, StageType, Transcript, TranscriptOK
<1>2. CASE processing
  <2>1. SteersRecovered /\ StoresNow
    BY <1>1, <1>2 DEF SendsSettled, PersistedIf, StoresNow
  <2> QED
    BY <1>1, <2>1, TranscriptRecovers
<1>3. CASE ~processing
  BY <1>1, <1>3, TranscriptStutters DEF SendsSettled, backend
<1> QED
  BY <1>2, <1>3

LEMMA TurnsStoppedStep == ASSUME Transcript, TurnsStopped PROVE Transcript'
<1>1. /\ UNCHANGED <<used, messages, marked, queue, steers, slot, stage, disk>>
      /\ snapshot' = [messages |-> messages', marked |-> marked']
  BY DEF TurnsStopped, Persisted, sends, backend
<1> QED
  BY <1>1, TranscriptQuiet DEF StoresNow, NoNewSends, StageType, Transcript, TranscriptOK

LEMMA TranscriptStep == ASSUME Transcript, [Next]_vars PROVE Transcript'
<1>1. CASE UNCHANGED vars
  BY <1>1, TranscriptStutters DEF vars, sends, runtime, backend, storage
<1>2. CASE Next
  <2>1. CASE Send \/ Admitted \/ Commit \/ Written \/ Deliver
    BY <2>1, SendStep, AdmittedStep, CommitTranscript, WrittenStep, DeliverStep
  <2>2. CASE TailEnds \/ HandoffEnds \/ KickFires \/ Stop \/ TimerFires
    BY <2>2, TailEndsStep, HandoffEndsStep, KickFiresStep, StopButtonTranscript, TimerFiresStep
  <2>3. ASSUME NEW m \in Messages, ReplayAdmitted(m) \/ ReplayCommits(m) \/ Saved(m) \/ Acknowledged(m)
        PROVE  Transcript'
    BY <2>3, ReplayAdmittedStep, ReplayCommitsTranscript, SavedStep, AcknowledgedStep
  <2>4. ASSUME NEW m \in Messages, SetupFails(m) \/ TurnAbandoned(m) \/ ChatStarts(m) \/ ChatEnds(m) \/ Handoff(m)
        PROVE  Transcript'
    BY <2>4, SetupFailsStep, TurnAbandonedStep, ChatStartsTranscript, ChatEndsStep, HandoffStep
  <2>5. CASE ShutdownBegins \/ SendsSettled \/ TurnsStopped \/ ShutdownEnds \/ ShutdownGivesUp \/ Restart
    BY <2>5, ShutdownStep, SendsSettledStep, TurnsStoppedStep, RestartTranscript
  <2> QED
    BY <1>2, <2>1, <2>2, <2>3, <2>4, <2>5 DEF Next
<1> QED
  BY <1>1, <1>2

----------------------------------------------------------------------------
(* The counts and the turn. *)

LEMMA CountsStep == ASSUME CountsOK, Transcript, [Next]_vars PROVE CountsOK'
<1>1. CASE Send \/ Admitted
  BY <1>1 DEF CountsOK, Send, Admitted, ghosts, runtime
<1>0. CASE Commit
  <2>1. used + 1 \in Messages
    BY <1>0, Sizes DEF Commit, Transcript, TranscriptOK, Messages
  <2>2. /\ cleared' = cleared - 1 /\ cleared > 0 /\ UNCHANGED <<entering, text, acked, replays, handed, dropped>>
        /\ acking' \in {acking, acking \cup {used + 1}}
    BY <1>0 DEF Commit, Joins, ghosts
  <2> QED
    BY <2>1, <2>2 DEF CountsOK
<1>2. CASE Deliver
  BY <1>2 DEF CountsOK, Deliver, sends, runtime
<1>3. CASE Stop
  <2>1. Withdrawn \subseteq Messages
    BY Sizes DEF Withdrawn, RecoveredQueue, Transcript, TranscriptOK, Messages
  <2> QED
    BY <1>3, <2>1 DEF CountsOK, Stop, sends
<1>4. CASE TailEnds \/ KickFires
  <2>1. /\ UNCHANGED <<entering, cleared, text, acking, acked, handed, dropped>>
        /\ TakeNext
    BY <1>4 DEF TailEnds, KickFires, sends, ghosts
  <2>2. Taken \subseteq Messages
    <3>1. queue \subseteq Messages
      BY Sizes DEF Transcript, TranscriptOK, Messages
    <3> QED
      BY <3>1 DEF Taken
  <2> QED
    BY <2>1, <2>2 DEF CountsOK, TakeNext
<1>5. CASE Written \/ HandoffEnds \/ TimerFires \/ ShutdownBegins \/ SendsSettled \/ TurnsStopped \/ ShutdownEnds \/ ShutdownGivesUp
  BY <1>5 DEF CountsOK, Written, HandoffEnds, TimerFires, ShutdownBegins, SendsSettled, TurnsStopped,
              ShutdownEnds, ShutdownGivesUp, sends, runtime, ghosts
<1>6. ASSUME NEW m \in Messages, ReplayAdmitted(m) \/ Saved(m) \/ Acknowledged(m) \/ Handoff(m)
      PROVE  CountsOK'
  BY <1>6 DEF CountsOK, ReplayAdmitted, Saved, StartTurn, BeginTurn, QueueForRestart, Acknowledged, Handoff, sends, runtime, ghosts
<1>7. ASSUME NEW m \in Messages, ReplayCommits(m) PROVE CountsOK'
  <2>1. /\ UNCHANGED <<entering, cleared, acked, replays, handed, dropped>>
        /\ \/ text' = text /\ acking' = acking
           \/ \E n \in Messages : text' = [text EXCEPT ![n] = text[m]] /\ acking' = acking \cup {n}
    <3>1. CASE processing
      <4>1. used + 1 \in Messages
        BY <1>7, <3>1, Sizes DEF ReplayCommits, Transcript, TranscriptOK, Messages
      <4> QED
        BY <1>7, <3>1, <4>1 DEF ReplayCommits, Joins, ghosts
    <3>2. CASE ~processing
      BY <1>7, <3>2 DEF ReplayCommits, ghosts
    <3> QED
      BY <3>1, <3>2
  <2> QED
    BY <2>1 DEF CountsOK
<1>8. ASSUME NEW m \in Messages, SetupFails(m) \/ TurnAbandoned(m) \/ ChatEnds(m) PROVE CountsOK'
  <2>1. slot \subseteq Messages
    BY Sizes DEF Transcript, TranscriptOK, Messages
  <2> QED
    BY <1>8, <2>1 DEF CountsOK, SetupFails, TurnAbandoned, ChatEnds, sends
<1>9. ASSUME NEW m \in Messages, ChatStarts(m) PROVE CountsOK'
  BY <1>9 DEF CountsOK, ChatStarts, sends
<1>10. CASE Restart
  <2>1. snapshot.marked \subseteq Messages
    BY DEF Transcript, TranscriptOK, Snapshots
  <2>2. dropped' \subseteq Messages
    BY <1>10, <2>1 DEF Restart, CountsOK
  <2> QED
    BY <1>10, <2>2 DEF CountsOK, Restart
<1>11. CASE UNCHANGED vars
  BY <1>11 DEF CountsOK, vars, sends, runtime, ghosts
<1> QED
  BY <1>0, <1>1, <1>2, <1>3, <1>4, <1>5, <1>6, <1>7, <1>8, <1>9, <1>10, <1>11 DEF Next

Numbers == turn \in 0 .. MaxMessages /\ tails \in Nat /\ owners \in 0 .. tails

Flags ==
  /\ processing \in BOOLEAN /\ timer \in BOOLEAN /\ accepting \in BOOLEAN /\ handedOff \in BOOLEAN /\ kick \in BOOLEAN
  /\ finalizing \in BOOLEAN /\ pausing \in {"no", "owner", "inert"}
  /\ shutdown \in {"no", "sends", "turns", "saving", "clean", "unclean"}

LEMMA NumbersInit == Init => Numbers
  BY Sizes DEF Init, Numbers

LEMMA FlagsInit == Init => Flags
  BY DEF Init, Flags

LEMMA NumbersStutter == ASSUME Numbers, UNCHANGED <<turn, tails, owners>> PROVE Numbers'
  BY DEF Numbers

LEMMA StopNumbers == ASSUME Numbers, StopProcessing PROVE Numbers'
<1>1. turn' = turn /\ tails' = tails + 1 /\ owners' \in {owners, owners + 1}
  BY DEF StopProcessing
<1> QED
  BY <1>1 DEF Numbers

LEMMA NumbersStep == ASSUME Numbers, [Next]_vars PROVE Numbers'
<1>1. CASE Send \/ Admitted \/ Commit \/ Written \/ Deliver \/ KickFires \/ Stop \/ UNCHANGED vars
  BY <1>1, NumbersStutter DEF Send, Admitted, Commit, Written, Deliver, KickFires, Stop, vars, turns, endings
<1>2. CASE TailEnds
  <2>1. turn' = turn /\ tails' = tails - 1 /\ tails > 0
    BY <1>2 DEF TailEnds, turns
  <2>2. owners' = 0 \/ (owners < tails /\ owners' = owners)
    BY <1>2 DEF TailEnds, Released
  <2> QED
    BY <2>1, <2>2 DEF Numbers
<1>3. CASE HandoffEnds
  <2>1. UNCHANGED <<turn, tails>> /\ owners' \in {0, owners}
    BY <1>3 DEF HandoffEnds, turns
  <2> QED
    BY <2>1 DEF Numbers
<1>4. CASE TimerFires
  BY <1>4, StopNumbers, NumbersStutter DEF TimerFires, endings
<1>5. ASSUME NEW m \in Messages, ReplayAdmitted(m) \/ SetupFails(m) \/ TurnAbandoned(m) \/ ChatEnds(m)
      PROVE  Numbers'
  <2>1. StopProcessing \/ UNCHANGED <<turn, tails, owners>>
    BY <1>5 DEF ReplayAdmitted, SetupFails, TurnAbandoned, ChatEnds, turns, endings
  <2> QED
    BY <2>1, StopNumbers, NumbersStutter
<1>6. ASSUME NEW m \in Messages, ReplayCommits(m) \/ Saved(m) PROVE Numbers'
  <2>1. m \in 0 .. MaxMessages
    BY Sizes DEF Messages
  <2>2. turn' \in {turn, m} /\ tails' = tails /\ owners' \in {0, owners}
    BY <1>6 DEF ReplayCommits, Saved, StartTurn, BeginTurn, QueueForRestart, Released, endings
  <2> QED
    BY <2>1, <2>2 DEF Numbers
<1>7. ASSUME NEW m \in Messages, Acknowledged(m) \/ ChatStarts(m) PROVE Numbers'
  BY <1>7, NumbersStutter DEF Acknowledged, ChatStarts, turns, endings
<1>8. ASSUME NEW m \in Messages, Handoff(m) PROVE Numbers'
  <2>1. UNCHANGED <<turn, tails>> /\ owners' \in {0, owners}
    BY <1>8 DEF Handoff, Released
  <2> QED
    BY <2>1 DEF Numbers
<1>9. CASE ShutdownBegins \/ SendsSettled \/ TurnsStopped \/ ShutdownEnds \/ ShutdownGivesUp
  BY <1>9, NumbersStutter DEF ShutdownBegins, SendsSettled, TurnsStopped, ShutdownEnds, ShutdownGivesUp, turns, endings
<1>10. CASE Restart
  BY <1>10, Sizes DEF Numbers, Restart
<1> QED
  BY <1>1, <1>2, <1>3, <1>4, <1>5, <1>6, <1>7, <1>8, <1>9, <1>10 DEF Next

LEMMA StopFlags == ASSUME Flags, StopProcessing, UNCHANGED <<kick, shutdown>> PROVE Flags'
  BY DEF Flags, StopProcessing, SteersRecovered

LEMMA FlagsStep == ASSUME Flags, [Next]_vars PROVE Flags'
<1>1. CASE Send \/ Admitted \/ Commit \/ Written \/ Deliver \/ UNCHANGED vars
  BY <1>1 DEF Flags, Send, Admitted, Commit, Joins, Written, Deliver, vars, turns, backend, endings
<1>2. CASE TailEnds \/ HandoffEnds
  <2>1. /\ UNCHANGED <<turns, accepting, kick, shutdown>>
        /\ finalizing' \in {finalizing, FALSE} /\ pausing' \in {pausing, "no", "inert"}
    <3>1. CASE TailEnds
      BY <3>1 DEF TailEnds, Released, backend
    <3>2. CASE HandoffEnds
      BY <3>2 DEF HandoffEnds, backend
    <3> QED
      BY <1>2, <3>1, <3>2
  <2> QED
    BY <2>1 DEF Flags, turns
<1>11. CASE KickFires
  BY <1>11 DEF Flags, KickFires, turns, backend, endings
<1>12. CASE Stop
  BY <1>12 DEF Flags, Stop, endings
<1>3. CASE TimerFires
  BY <1>3, StopFlags DEF TimerFires, Flags, backend, endings
<1>4. ASSUME NEW m \in Messages, ReplayAdmitted(m) \/ SetupFails(m) \/ TurnAbandoned(m) \/ ChatEnds(m)
      PROVE  Flags'
  <2> DEFINE Ended == /\ UNCHANGED <<processing, turn, timer, handedOff>> /\ UNCHANGED <<tails, owners, finalizing, pausing>>
                      /\ accepting' = accepting \/ accepting' = FALSE
  <2>1. UNCHANGED <<kick, shutdown>> /\ (StopProcessing \/ Ended)
    <3>1. CASE ReplayAdmitted(m)
      BY <3>1 DEF ReplayAdmitted, turns, endings, backend
    <3>2. CASE SetupFails(m)
      BY <3>2 DEF SetupFails, turns, endings, backend
    <3>3. CASE TurnAbandoned(m)
      BY <3>3 DEF TurnAbandoned, turns, endings, backend
    <3>4. CASE ChatEnds(m)
      BY <3>4 DEF ChatEnds, turns, endings, backend
    <3> QED
      BY <1>4, <3>1, <3>2, <3>3, <3>4
  <2>2. CASE StopProcessing
    BY <2>1, <2>2, StopFlags
  <2>3. CASE Ended
    BY <2>1, <2>3 DEF Flags
  <2> QED
    BY <2>1, <2>2, <2>3
<1>5. ASSUME NEW m \in Messages, ReplayCommits(m) \/ Saved(m) PROVE Flags'
  <2>1. /\ UNCHANGED <<kick, shutdown, accepting, timer>>
        /\ processing' \in {processing, TRUE} /\ handedOff' \in {handedOff, FALSE} /\ finalizing' \in {finalizing, TRUE}
        /\ pausing' \in {pausing, "inert"}
    BY <1>5 DEF ReplayCommits, Joins, Saved, StartTurn, BeginTurn, QueueForRestart, Released, backend, endings
  <2> QED
    BY ZenonT(40), <2>1 DEF Flags
<1>6. ASSUME NEW m \in Messages, Acknowledged(m) \/ ChatStarts(m) PROVE Flags'
  BY ZenonT(40), <1>6 DEF Flags, Acknowledged, ChatStarts, turns, backend, endings
<1>7. ASSUME NEW m \in Messages, Handoff(m) PROVE Flags'
  <2>1. /\ UNCHANGED <<kick, shutdown, timer>> /\ processing' = FALSE /\ handedOff' = TRUE /\ accepting' = FALSE
        /\ finalizing' \in {finalizing, FALSE} /\ pausing' \in {pausing, "owner", "inert"}
    BY <1>7 DEF Handoff, SteersRecovered, Released
  <2> QED
    BY <2>1 DEF Flags
<1>8. CASE ShutdownBegins \/ TurnsStopped \/ ShutdownEnds \/ ShutdownGivesUp
  BY <1>8 DEF Flags, ShutdownBegins, TurnsStopped, ShutdownEnds, ShutdownGivesUp, turns, backend, endings
<1>9. CASE SendsSettled
  <2>1. UNCHANGED <<kick, turns, endings>> /\ shutdown' \in {"turns", "saving"} /\ accepting' \in {accepting, FALSE}
    BY <1>9 DEF SendsSettled, SteersRecovered, backend
  <2> QED
    BY <2>1 DEF Flags, turns, endings
<1>10. CASE Restart
  BY <1>10 DEF Flags, Restart
<1> QED
  BY <1>1, <1>2, <1>3, <1>4, <1>5, <1>6, <1>7, <1>8, <1>9, <1>10, <1>11, <1>12 DEF Next

LEMMA TurnInit == Init => TurnOK
  BY NumbersInit, FlagsInit DEF Numbers, Flags, TurnOK

LEMMA TurnStep == ASSUME TurnOK, [Next]_vars PROVE TurnOK'
<1>1. Numbers /\ Flags
  BY DEF TurnOK, Numbers, Flags
<1>2. Numbers' /\ Flags'
  BY <1>1, NumbersStep, FlagsStep
<1> QED
  BY <1>2 DEF TurnOK, Numbers, Flags

LEMMA TypesInit == Init => TurnsTypeOK
<1> SUFFICES ASSUME Init PROVE TurnsTypeOK
  OBVIOUS
<1>1. CountsOK
  BY DEF Init, CountsOK
<1>2. TurnOK
  BY TurnInit
<1>3. TranscriptOK
  BY TranscriptInit DEF Transcript
<1> QED
  BY <1>1, <1>2, <1>3 DEF TurnsTypeOK

\* The variables always have their types, and what is queued, marked or
\* steered is in the transcript, whatever Stop, pauses, failures and restarts
\* come between.
THEOREM TurnsTypeCorrectness == Spec => []TurnsTypeOK
<1> DEFINE Inv == CountsOK /\ Transcript /\ TurnOK
<1>1. Init => Inv
  BY TypesInit, TranscriptInit DEF TurnsTypeOK
<1>2. Inv /\ [Next]_vars => Inv'
  BY CountsStep, TranscriptStep, TurnStep
<1>3. Inv => TurnsTypeOK
  BY DEF Transcript, TurnsTypeOK
<1> QED
  BY <1>1, <1>2, <1>3, PTL DEF Spec

----------------------------------------------------------------------------
(* A clean shutdown. *)

Memory == [messages |-> messages, marked |-> marked]

\* A turn that runs holds a turnFinalization that nobody else can release,
\* and only while one runs are there steers.
Running ==
  /\ processing => finalizing /\ owners = 0 /\ pausing # "owner"
  /\ ~processing => steers = {}

\* What is not handed to the persistence queue is owned by a turn or its end.
Settled == ~processing /\ ~finalizing => snapshot = Memory

NoSends == entering = 0 /\ cleared = 0 /\ acking = {} /\ \A m \in Messages : stage[m] \notin Underway

\* How far a shutdown is.
Drained ==
  /\ shutdown \in {"turns", "saving", "clean"} => NoSends
  /\ shutdown \in {"saving", "clean"} => ~processing /\ snapshot = Memory
  /\ shutdown = "clean" => disk = snapshot

Quiescing == Running /\ Settled /\ Drained

LEMMA SumZero ==
  ASSUME NEW a \in Nat, NEW b \in Nat, NEW c \in Nat
  PROVE  (a + b + c = 0) <=> (a = 0 /\ b = 0 /\ c = 0)
OBVIOUS

LEMMA AdmissionsZero ==
  ASSUME CountsOK PROVE (Admissions = 0) <=> NoSends
<1> DEFINE S == {m \in Messages : stage[m] \in {"replaying", "clearing", "saving"}} \cup acking
<1>1. IsFiniteSet(S) /\ Cardinality(S) \in Nat
  <2>1. IsFiniteSet(Messages)
    BY Sizes, FS_Interval DEF Messages
  <2> QED
    BY <2>1, FS_Subset, FS_CardinalityType DEF CountsOK
<1>2. (Cardinality(S) = 0) <=> (S = {})
  BY <1>1, FS_EmptySet
<1>3. (S = {}) <=> (acking = {} /\ \A m \in Messages : stage[m] \notin Underway)
  BY DEF Underway
<1>4. Admissions = entering + cleared + Cardinality(S) /\ entering \in Nat /\ cleared \in Nat
  BY DEF Admissions, CountsOK
<1> HIDE DEF S
<1>5. (Admissions = 0) <=> (entering = 0 /\ cleared = 0 /\ Cardinality(S) = 0)
  <2>1. Cardinality(S) \in Nat
    BY <1>1
  <2>2. (entering + cleared + Cardinality(S) = 0) <=> (entering = 0 /\ cleared = 0 /\ Cardinality(S) = 0)
    BY <1>4, <2>1, SumZero
  <2> QED
    BY <1>4, <2>2
<1> QED
  BY <1>2, <1>3, <1>5 DEF NoSends

LEMMA QuiescingInit == Init => Quiescing
<1> SUFFICES ASSUME Init PROVE Quiescing
  OBVIOUS
<1>1. Running
  BY DEF Init, Running
<1>2. Settled
  BY DEF Init, Settled, Memory, NoSnapshot
<1>3. Drained
  BY DEF Init, Drained
<1> QED
  BY <1>1, <1>2, <1>3 DEF Quiescing

\* Nothing that a shutdown looks at changes.
LEMMA QuiescingStutters ==
  ASSUME Quiescing, UNCHANGED <<messages, marked, processing, owners, finalizing, pausing, steers, snapshot, disk, shutdown>>,
         NoSends => NoSends'
  PROVE  Quiescing'
BY DEF Quiescing, Running, Settled, Drained, Memory

\* The end of a turn, by onProcessingStopped or a shutdown's abort.
LEMMA SteersSettle ==
  ASSUME Quiescing, SteersRecovered, UNCHANGED <<messages, finalizing, disk, shutdown>>, PersistedIf(steers # {}),
         NoSends => NoSends'
  PROVE  /\ steers' = {}
         /\ ~processing => snapshot' = snapshot /\ Memory' = Memory
         /\ steers # {} => snapshot' = Memory'
<1>1. steers' = {} /\ marked' = RecoveredMarks
  BY DEF SteersRecovered
<1>2. steers = {} => marked' = marked
  BY <1>1 DEF RecoveredMarks
<1> QED
  BY <1>1, <1>2 DEF Quiescing, Running, PersistedIf, Persisted, Memory

LEMMA StopQuiesces ==
  ASSUME Quiescing, StopProcessing, UNCHANGED <<disk, shutdown>>, NoSends => NoSends'
  PROVE  Quiescing'
<1>1. SteersRecovered /\ PersistedIf(steers # {}) /\ UNCHANGED <<messages, finalizing>> /\ ~processing'
  BY DEF StopProcessing
<1>2. /\ steers' = {}
      /\ ~processing => snapshot' = snapshot /\ Memory' = Memory
  BY <1>1, SteersSettle
<1>3. Running'
  BY <1>1, <1>2 DEF Running
<1>4. Settled'
  BY <1>1, <1>2 DEF Quiescing, Running, Settled
<1>5. Drained'
  BY <1>1, <1>2 DEF Quiescing, Drained
<1> QED
  BY <1>3, <1>4, <1>5 DEF Quiescing

LEMMA NoSendsKept ==
  ASSUME NoNewSends, UNCHANGED <<entering, cleared, acking>> PROVE NoSends => NoSends'
BY DEF NoNewSends, NoSends

\* A queued or a new message starts its turn, or is left for the restart.
LEMMA StartQuiesces ==
  ASSUME Quiescing, NEW m \in Messages, stage[m] \in Underway, StartTurn(m), UNCHANGED <<steers, disk, shutdown>>
  PROVE  Quiescing'
<1>1. ~NoSends /\ shutdown \notin {"turns", "saving", "clean"}
  BY DEF NoSends, Quiescing, Drained
<1>2. Drained'
  BY <1>1 DEF Drained
<1>3. CASE BeginTurn(m)
  <2>1. processing' = TRUE /\ finalizing' = TRUE /\ owners' = 0 /\ pausing' # "owner"
    BY <1>3 DEF BeginTurn, Released
  <2> QED
    BY <1>2, <2>1 DEF Quiescing, Running, Settled
<1>4. CASE QueueForRestart(m)
  <2>1. /\ UNCHANGED <<processing, finalizing, owners, pausing, steers>>
        /\ snapshot' = [messages |-> messages', marked |-> marked']
    BY <1>4 DEF QueueForRestart, Persisted, endings
  <2> QED
    BY <1>2, <2>1 DEF Quiescing, Running, Settled, Memory
<1> QED
  BY <1>3, <1>4 DEF StartTurn

\* A message joins a turn that runs.
LEMMA JoinsQuiesces ==
  ASSUME Quiescing, ~NoSends, processing, NEW m, Joins(m), UNCHANGED <<turns, endings, shutdown>>
  PROVE  Quiescing'
<1>1. shutdown \notin {"turns", "saving", "clean"}
  BY DEF Quiescing, Drained
<1> QED
  BY <1>1 DEF Quiescing, Running, Settled, Drained, turns, endings

LEMMA CommitQuiesces == ASSUME Quiescing, Commit PROVE Quiescing'
<1>1. ~NoSends
  BY DEF Commit, NoSends
<1>2. CASE processing
  BY <1>1, <1>2, JoinsQuiesces DEF Commit
<1>3. CASE ~processing
  <2>1. /\ UNCHANGED <<processing, finalizing, owners, pausing, steers, shutdown>>
        /\ snapshot' = [messages |-> messages', marked |-> marked']
    BY <1>3 DEF Commit, Persisted, turns, endings, backend
  <2> QED
    BY <1>1, <2>1 DEF Quiescing, Running, Settled, Drained, Memory
<1> QED
  BY <1>2, <1>3

LEMMA GivesUpQuiesces ==
  ASSUME Quiescing, Transcript, NEW m \in Messages, stage' = [stage EXCEPT ![m] = "done"], UNCHANGED <<sends, disk, shutdown>>,
         \/ StopProcessing
         \/ UNCHANGED <<messages, marked, processing, owners, finalizing, pausing, steers, snapshot>>
  PROVE  Quiescing'
<1>1. NoSends => NoSends'
  BY StageMoves, NoSendsKept DEF sends
<1> QED
  BY <1>1, StopQuiesces, QuiescingStutters

LEMMA TakeQuiesces ==
  ASSUME Quiescing, Transcript, TakeNext, UNCHANGED <<sends, processing, steers, disk, shutdown>>
  PROVE  /\ shutdown # "no" => (NoSends => NoSends')
         /\ Memory' = Memory
<1>1. shutdown # "no" => NoNewSends
  BY DEF TakeNext, NoNewSends
<1> QED
  BY <1>1, NoSendsKept DEF TakeNext, Memory, sends

LEMMA QuiescingStep ==
  ASSUME Quiescing, Transcript, CountsOK, [Next]_vars PROVE Quiescing'
<1>1. CASE Send
  <2>1. shutdown = "no" /\ UNCHANGED <<messages, marked, processing, owners, finalizing, pausing, steers, snapshot, disk, shutdown>>
    BY <1>1 DEF Send, runtime, turns, endings, backend, storage
  <2> QED
    BY <2>1 DEF Quiescing, Running, Settled, Drained, Memory
<1>2. CASE Admitted
  <2>1. /\ ~NoSends
        /\ UNCHANGED <<messages, marked, processing, owners, finalizing, pausing, steers, snapshot, disk, shutdown>>
    BY <1>2 DEF Admitted, NoSends, runtime, turns, endings, backend, storage
  <2> QED
    BY <2>1, QuiescingStutters
<1>3. CASE Commit
  BY <1>3, CommitQuiesces
<1>4. CASE Written
  <2>1. /\ disk' = snapshot /\ UNCHANGED <<messages, marked, processing, owners, finalizing, pausing, steers, snapshot, shutdown>>
        /\ UNCHANGED <<sends, stage>>
    BY <1>4 DEF Written, runtime, turns, endings, backend
  <2>2. NoSends => NoSends'
    BY <2>1, NoSendsKept DEF NoNewSends, sends
  <2> QED
    BY <2>1, <2>2 DEF Quiescing, Running, Settled, Drained, Memory
<1>5. CASE Deliver \/ UNCHANGED vars
  <2>1. /\ UNCHANGED <<messages, marked, processing, owners, finalizing, pausing, steers, snapshot, disk, shutdown>>
        /\ UNCHANGED <<sends, stage>>
    BY <1>5 DEF Deliver, vars, runtime, turns, endings, backend, storage
  <2>2. NoSends => NoSends'
    BY <2>1, NoSendsKept DEF NoNewSends, sends
  <2> QED
    BY <2>1, <2>2, QuiescingStutters
<1>6. CASE TailEnds
  <2>1. /\ TakeNext /\ UNCHANGED <<sends, processing, steers, disk, shutdown>>
        /\ snapshot' = [messages |-> messages', marked |-> marked']
    BY <1>6 DEF TailEnds, Persisted, turns, backend
  <2>2. Memory' = Memory /\ snapshot' = Memory' /\ (shutdown # "no" => (NoSends => NoSends'))
    BY <2>1, TakeQuiesces DEF Quiescing, Memory
  <2>3. (owners > 0 /\ owners' = 0 /\ pausing' # "owner") \/ UNCHANGED <<owners, finalizing, pausing>>
    BY <1>6 DEF TailEnds, Released
  <2>4. Running'
    BY <2>1, <2>3 DEF Quiescing, Running
  <2>5. Settled'
    BY <2>2 DEF Settled
  <2>6. Drained'
    BY <2>1, <2>2 DEF Quiescing, Drained
  <2> QED
    BY <2>4, <2>5, <2>6 DEF Quiescing
<1>7. CASE KickFires
  <2>1. /\ TakeNext /\ UNCHANGED <<sends, processing, steers, disk, shutdown, owners, finalizing, pausing>>
        /\ snapshot' \in {snapshot, [messages |-> messages', marked |-> marked']}
        /\ shutdown # "no" => snapshot' = snapshot
    BY <1>7 DEF KickFires, TakeNext, PersistedIf, turns, backend, endings
  <2>2. Memory' = Memory /\ (shutdown # "no" => (NoSends => NoSends'))
    BY <2>1, TakeQuiesces DEF Quiescing
  <2>3. Running'
    BY <2>1 DEF Quiescing, Running
  <2>4. Settled'
    BY <2>1, <2>2 DEF Quiescing, Settled, Memory
  <2>5. Drained'
    BY <2>1, <2>2 DEF Quiescing, Drained
  <2> QED
    BY <2>3, <2>4, <2>5 DEF Quiescing
<1>8. CASE HandoffEnds
  <2>1. /\ UNCHANGED <<messages, marked, processing, steers, disk, shutdown, sends, stage>> /\ pausing' = "no" /\ pausing # "no"
        /\ snapshot' = [messages |-> messages', marked |-> marked']
        /\ pausing = "owner" \/ UNCHANGED <<owners, finalizing>>
    BY <1>8 DEF HandoffEnds, Persisted, turns, backend
  <2>2. NoSends => NoSends'
    BY <2>1, NoSendsKept DEF NoNewSends, sends
  <2> QED
    BY <2>1, <2>2 DEF Quiescing, Running, Settled, Drained, Memory
<1>9. CASE Stop
  <2>1. /\ processing /\ UNCHANGED <<processing, owners, finalizing, pausing, shutdown, disk, sends>> /\ steers' = {}
        /\ stage' = [m \in Messages |-> IF stage[m] = "setup" THEN "halted" ELSE stage[m]]
    BY <1>9 DEF Stop, endings
  <2>2. NoSends => NoSends'
    BY <2>1, NoSendsKept DEF NoNewSends, sends, Underway
  <2> QED
    BY <2>1, <2>2 DEF Quiescing, Running, Settled, Drained
<1>10. CASE TimerFires
  <2>1. UNCHANGED <<sends, stage, disk, shutdown>>
    BY <1>10 DEF TimerFires
  <2>2. NoSends => NoSends'
    BY <2>1, NoSendsKept DEF NoNewSends, sends
  <2>3. StopProcessing \/ UNCHANGED <<messages, marked, processing, owners, finalizing, pausing, steers, snapshot>>
    BY <1>10 DEF TimerFires, backend, endings
  <2> QED
    BY <2>1, <2>2, <2>3, StopQuiesces, QuiescingStutters
<1>11. ASSUME NEW m \in Messages, ReplayAdmitted(m) PROVE Quiescing'
  <2>1. CASE shutdown = "no"
    <3>1. UNCHANGED <<messages, marked, processing, owners, finalizing, pausing, steers, snapshot, disk, shutdown>>
      BY <1>11, <2>1 DEF ReplayAdmitted, turns, backend, endings
    <3> QED
      BY <2>1, <3>1 DEF Quiescing, Running, Settled, Drained, Memory
  <2>2. CASE shutdown # "no"
    <3>1. stage' = [stage EXCEPT ![m] = "done"] /\ StopProcessing /\ UNCHANGED <<sends, disk, shutdown>>
      BY <1>11, <2>2 DEF ReplayAdmitted
    <3> QED
      BY <3>1, GivesUpQuiesces
  <2> QED
    BY <2>1, <2>2
<1>12. ASSUME NEW m \in Messages, ReplayCommits(m) PROVE Quiescing'
  <2>1. stage[m] = "clearing" /\ UNCHANGED <<shutdown, disk>>
    BY <1>12 DEF ReplayCommits
  <2>2. ~NoSends
    BY <2>1 DEF NoSends, Underway
  <2>3. CASE processing
    BY <1>12, <2>2, <2>3, JoinsQuiesces DEF ReplayCommits, turns
  <2>4. CASE ~processing
    <3>1. StartTurn(m) /\ steers' = steers
      BY <1>12, <2>4 DEF ReplayCommits, backend
    <3> QED
      BY <2>1, <3>1, StartQuiesces DEF Underway
  <2> QED
    BY <2>3, <2>4
<1>13. ASSUME NEW m \in Messages, Saved(m) PROVE Quiescing'
  BY <1>13, StartQuiesces DEF Saved, backend, Underway
<1>14. ASSUME NEW m \in Messages, Acknowledged(m) PROVE Quiescing'
  <2>1. /\ ~NoSends
        /\ UNCHANGED <<messages, marked, processing, owners, finalizing, pausing, steers, snapshot, disk, shutdown>>
    BY <1>14 DEF Acknowledged, NoSends, runtime, turns, endings, backend, storage
  <2> QED
    BY <2>1, QuiescingStutters
<1>15. ASSUME NEW m \in Messages, SetupFails(m) PROVE Quiescing'
  BY <1>15, GivesUpQuiesces DEF SetupFails, turns, backend, endings
<1>16. ASSUME NEW m \in Messages, TurnAbandoned(m) PROVE Quiescing'
  BY <1>16, GivesUpQuiesces DEF TurnAbandoned, turns, backend, endings
<1>17. ASSUME NEW m \in Messages, ChatEnds(m) PROVE Quiescing'
  BY <1>17, GivesUpQuiesces DEF ChatEnds, turns, backend, endings
<1>18. ASSUME NEW m \in Messages, ChatStarts(m) PROVE Quiescing'
  <2>1. /\ UNCHANGED <<sends, messages, processing, owners, finalizing, pausing, disk, shutdown>>
        /\ marked' = marked \cup (slot \cap steers) /\ steers' = steers \ slot
        /\ stage' = [stage EXCEPT ![m] = "chatting"]
        /\ PersistedIf(slot \cap steers # {})
    BY <1>18 DEF ChatStarts, turns, endings
  <2>2. NoSends => NoSends'
    BY <2>1, StageMoves, NoSendsKept DEF sends
  <2>3. ~processing => steers' = {} /\ snapshot' = snapshot /\ Memory' = Memory
    BY <2>1 DEF Quiescing, Running, PersistedIf, Memory
  <2> QED
    BY <2>1, <2>2, <2>3 DEF Quiescing, Running, Settled, Drained
<1>19. ASSUME NEW m \in Messages, Handoff(m) PROVE Quiescing'
  <2>1. /\ processing /\ ~processing' /\ SteersRecovered /\ UNCHANGED <<sends, stage, messages, disk, shutdown>>
    BY <1>19 DEF Handoff
  <2>2. finalizing' = finalizing \/ snapshot' = [messages |-> messages', marked |-> marked']
    BY <1>19 DEF Handoff, Persisted
  <2>3. steers' = {} /\ (NoSends => NoSends')
    BY <2>1, NoSendsKept DEF SteersRecovered, NoNewSends, sends
  <2>4. Running' /\ Settled'
    BY <2>1, <2>2, <2>3 DEF Quiescing, Running, Settled, Memory
  <2>5. Drained'
    BY <2>1, <2>3 DEF Quiescing, Drained
  <2> QED
    BY <2>4, <2>5 DEF Quiescing
<1>20. CASE ShutdownBegins \/ ShutdownGivesUp
  <2>1. /\ UNCHANGED <<messages, marked, processing, owners, finalizing, pausing, steers, snapshot, disk>>
        /\ shutdown' \in {"sends", "unclean"}
    BY <1>20 DEF ShutdownBegins, ShutdownGivesUp, runtime, turns, endings, backend, storage
  <2> QED
    BY <2>1 DEF Quiescing, Running, Settled, Drained, Memory
<1>21. CASE SendsSettled
  <2>1. /\ Admissions = 0 /\ UNCHANGED <<messages, processing, owners, finalizing, pausing, disk, sends, stage>>
        /\ shutdown' = IF processing \/ finalizing \/ queue # {} THEN "turns" ELSE "saving"
    BY <1>21 DEF SendsSettled, turns, endings
  <2>2. NoSends'
    BY <2>1, AdmissionsZero, NoSendsKept DEF NoNewSends, sends
  <2>3. CASE processing
    <3>1. steers' = {} /\ shutdown' = "turns"
      BY <1>21, <2>1, <2>3 DEF SendsSettled, SteersRecovered
    <3> QED
      BY <2>1, <2>2, <2>3, <3>1 DEF Quiescing, Running, Settled, Drained
  <2>4. CASE ~processing
    <3>1. UNCHANGED <<marked, steers, snapshot>>
      BY <1>21, <2>4 DEF SendsSettled, backend
    <3>2. Running' /\ Settled'
      BY <2>1, <3>1 DEF Quiescing, Running, Settled, Memory
    <3>3. Drained'
      BY <2>1, <2>2, <2>4, <3>1 DEF Quiescing, Settled, Drained, Memory
    <3> QED
      BY <3>2, <3>3 DEF Quiescing
  <2> QED
    BY <2>3, <2>4
<1>22. CASE TurnsStopped
  <2>1. /\ shutdown = "turns" /\ shutdown' = "saving" /\ ~processing
        /\ UNCHANGED <<messages, marked, processing, owners, finalizing, pausing, steers, disk, sends, stage>>
        /\ snapshot' = [messages |-> messages', marked |-> marked']
    BY <1>22 DEF TurnsStopped, Persisted, turns, endings, backend
  <2>2. NoSends'
    BY <2>1, NoSendsKept DEF Quiescing, Drained, NoNewSends, sends
  <2> QED
    BY <2>1, <2>2 DEF Quiescing, Running, Settled, Drained, Memory
<1>23. CASE ShutdownEnds
  <2>1. /\ shutdown = "saving" /\ shutdown' = "clean" /\ disk = snapshot
        /\ UNCHANGED <<messages, marked, processing, owners, finalizing, pausing, steers, snapshot, disk, sends, stage>>
    BY <1>23 DEF ShutdownEnds, runtime, turns, endings, backend, storage
  <2>2. NoSends'
    BY <2>1, NoSendsKept DEF Quiescing, Drained, NoNewSends, sends
  <2> QED
    BY <2>1, <2>2 DEF Quiescing, Running, Settled, Drained, Memory
<1>24. CASE Restart
  <2>1. /\ processing' = FALSE /\ steers' = {} /\ shutdown' = "no"
        /\ snapshot' = disk /\ messages' = disk.messages /\ marked' = disk.marked
    BY <1>24 DEF Restart
  <2>2. disk = [messages |-> disk.messages, marked |-> disk.marked]
    BY DEF Transcript, TranscriptOK, Snapshots
  <2> QED
    BY <2>1, <2>2 DEF Quiescing, Running, Settled, Drained, Memory
<1>25. CASE Next
  BY <1>1, <1>2, <1>3, <1>4, <1>5, <1>6, <1>7, <1>8, <1>9, <1>10, <1>11, <1>12, <1>13, <1>14, <1>15, <1>16, <1>17,
     <1>18, <1>19, <1>20, <1>21, <1>22, <1>23, <1>24 DEF Next
<1> QED
  BY <1>5, <1>25

\* A flushAllSessions that resolves leaves no send and no turn under way, and
\* the disk as the memory, whatever was sent, stopped, paused or failed before
\* and during it.
THEOREM ShutdownIsClean == Spec => []CleanShutdown
<1> DEFINE Inv == CountsOK /\ Transcript /\ TurnOK /\ Quiescing
<1>1. Init => Inv
  BY TypesInit, TranscriptInit, QuiescingInit DEF TurnsTypeOK
<1>2. Inv /\ [Next]_vars => Inv'
  BY CountsStep, TranscriptStep, TurnStep, QuiescingStep
<1>3. Inv => CleanShutdown
  BY AdmissionsZero DEF Quiescing, Drained, CleanShutdown, Memory
<1> QED
  BY <1>1, <1>2, <1>3, PTL DEF Spec

----------------------------------------------------------------------------
(* What becomes of a text. *)

Ahead == {"saving", "replaying", "clearing", "setup"}

\* Message m is still to be handed to the backend, ...
Waiting(m) == m \in queue \cup slot \/ stage[m] \in Ahead

\* ... or it has been.
Live(m) == handed[m] > 0 \/ Waiting(m)

BoundsOK == bounds \in [sends : Nat, mishaps : Nat, restarts : Nat]

Blank(m) == text[m] = m /\ handed[m] = 0 /\ stage[m] = "none" /\ m \notin acking \cup acked

\* A message that is not in the transcript yet repeats nothing and is nowhere.
Fresh ==
  /\ \A m \in Messages : used < m => Blank(m)
  /\ \A m \in 1 .. used : text[m] \in 1 .. used

\* What is queued or in the slot has no send under way, and what was handed
\* over waits for nothing.
Once ==
  /\ \A m \in queue \cup slot : stage[m] \in {"none", "done"}
  /\ \A m \in Messages : handed[m] <= 1 /\ (handed[m] > 0 => ~Waiting(m))

\* Of the messages that repeat one text, one is live.
OneCopy == bounds.restarts = 0 => \A d, e \in Messages : Live(d) /\ Live(e) /\ text[d] = text[e] => d = e

Delivery == Fresh /\ Once /\ OneCopy

Counted == bounds'.restarts = 0 => bounds.restarts = 0

LEMMA BoundsStep == ASSUME BoundsOK, [Next]_vars PROVE BoundsOK' /\ Counted
<1>1. bounds' = bounds \/ (\E f \in {"sends", "mishaps", "restarts"} : bounds' = [bounds EXCEPT ![f] = @ + 1])
  <2>1. CASE Send \/ Stop \/ Restart
    BY <2>1 DEF Send, Stop, Restart
  <2>2. ASSUME NEW m \in Messages, SetupFails(m) \/ Handoff(m)
        PROVE  bounds' = [bounds EXCEPT !.mishaps = @ + 1]
    BY <2>2 DEF SetupFails, Handoff
  <2>3. CASE Admitted \/ Commit \/ Written \/ Deliver \/ TailEnds \/ HandoffEnds \/ KickFires \/ TimerFires
    BY <2>3 DEF Admitted, Commit, Written, Deliver, TailEnds, HandoffEnds, KickFires, TimerFires
  <2>4. ASSUME NEW m \in Messages, ReplayAdmitted(m) \/ ReplayCommits(m) \/ Saved(m) \/ Acknowledged(m)
                                   \/ TurnAbandoned(m) \/ ChatStarts(m) \/ ChatEnds(m)
        PROVE  bounds' = bounds
    BY <2>4 DEF ReplayAdmitted, ReplayCommits, Saved, Acknowledged, TurnAbandoned, ChatStarts, ChatEnds
  <2>5. CASE ShutdownBegins \/ SendsSettled \/ TurnsStopped \/ ShutdownEnds \/ ShutdownGivesUp \/ UNCHANGED vars
    BY <2>5 DEF ShutdownBegins, SendsSettled, TurnsStopped, ShutdownEnds, ShutdownGivesUp, vars
  <2> QED
    BY <2>1, <2>2, <2>3, <2>4, <2>5 DEF Next
<1> QED
  BY <1>1 DEF BoundsOK, Counted

\* No text gets a further carrier.
Drifts ==
  /\ UNCHANGED <<used, text, handed>>
  /\ acking' \cup acked' \subseteq acking \cup acked \cup messages
  /\ \A m \in Messages : stage[m] = "none" => stage'[m] = "none" \/ m \in queue
  /\ \A m \in Messages : Waiting(m)' => Waiting(m)
  /\ \A m \in queue' \cup slot' : stage'[m] \in {"none", "done"}

LEMMA InTranscript ==
  ASSUME Transcript, NEW m \in queue \cup slot \cup messages
  PROVE  m \in Messages /\ m \in 1 .. used /\ m \in messages
<1>1. m \in messages
  BY DEF Transcript, TranscriptOK
<1>2. messages \subseteq 1 .. used /\ used \in 0 .. MaxMessages
  BY DEF Transcript, TranscriptOK
<1> QED
  BY <1>1, <1>2, Sizes DEF Messages

LEMMA DeliveryDrifts == ASSUME Delivery, Transcript, Drifts, Counted PROVE Delivery'
<1>1. Fresh'
  <2>1. \A m \in Messages : used < m => Blank(m)
    BY DEF Delivery, Fresh, Blank
  <2>2. used \in 0 .. MaxMessages /\ \A m \in queue \cup slot \cup messages : m \in 1 .. used
    BY Sizes, InTranscript DEF Transcript, TranscriptOK
  <2>3. \A m \in Messages : used < m => m \notin queue /\ m \notin messages
    BY <2>2, Sizes DEF Messages
  <2>4. \A m \in Messages : used' < m => Blank(m)'
    BY <2>1, <2>3 DEF Drifts, Blank
  <2>5. \A m \in 1 .. used' : text'[m] \in 1 .. used'
    BY DEF Drifts, Delivery, Fresh, Blank
  <2> QED
    BY <2>4, <2>5 DEF Fresh, Blank
<1>2. Once'
  BY DEF Drifts, Delivery, Once
<1>3. OneCopy'
  BY DEF Drifts, Delivery, OneCopy, Counted, Live
<1> QED
  BY <1>1, <1>2, <1>3 DEF Delivery


\* The send of d does not go back.
Onward(d) ==
  \/ stage'[d] = stage[d]
  \/ stage[d] \in Ahead \cup {"halted", "chatting"} /\ (stage'[d] \in Ahead => stage[d] \in Ahead)

\* What waits does not grow, and the sends move on.
Recedes ==
  /\ UNCHANGED <<used, text, handed>>
  /\ acking' \cup acked' \subseteq acking \cup acked \cup messages
  /\ queue' \cup slot' \subseteq queue \cup slot
  /\ \A d \in Messages : Onward(d)

LEMMA RecedesDrifts == ASSUME Delivery, Transcript, Recedes PROVE Drifts
<1>1. \A d \in queue \cup slot : d \in Messages /\ stage[d] \in {"none", "done"}
  BY InTranscript DEF Delivery, Once
<1>2. \A d \in queue' \cup slot' : stage'[d] \in {"none", "done"}
  BY <1>1 DEF Recedes, Onward, Ahead
<1>3. \A d \in Messages : Waiting(d)' => Waiting(d)
  BY DEF Recedes, Onward, Waiting
<1>4. \A d \in Messages : stage[d] = "none" => stage'[d] = "none" \/ d \in queue
  BY DEF Recedes, Onward, Ahead
<1> QED
  BY <1>2, <1>3, <1>4 DEF Drifts, Recedes, Onward

LEMMA RecoveredRecedes == ASSUME SteersRecovered PROVE queue' \cup slot' \subseteq queue \cup slot
  BY DEF SteersRecovered, RecoveredQueue

LEMMA StopRecovers == ASSUME StopProcessing PROVE queue' \cup slot' \subseteq queue \cup slot
  BY RecoveredRecedes DEF StopProcessing

LEMMA StageRecedes ==
  ASSUME Transcript, NEW m \in Messages, NEW to, stage' = [stage EXCEPT ![m] = to],
         stage[m] \in Ahead \cup {"halted", "chatting"}, to \in Ahead => stage[m] \in Ahead
  PROVE  \A d \in Messages : Onward(d)
BY DEF Transcript, TranscriptOK, Onward

\* A turn begins, or its message is queued for the restart.
LEMMA StartDrifts ==
  ASSUME Delivery, Transcript, NEW m \in Messages, stage[m] \in Underway, StartTurn(m),
         UNCHANGED <<used, text, handed, slot>>, acking' \cup acked' \subseteq acking \cup acked \cup messages
  PROVE  Drifts
<1>1. CASE BeginTurn(m)
  <2>1. queue' = queue /\ stage' = [stage EXCEPT ![m] = "setup"]
    BY <1>1 DEF BeginTurn
  <2> QED
    BY <2>1, StageRecedes, RecedesDrifts DEF Recedes, Onward, Ahead, Underway
<1>2. CASE QueueForRestart(m)
  <2>1. queue' = queue \cup {m} /\ stage' = [stage EXCEPT ![m] = "done"]
    BY <1>2 DEF QueueForRestart
  <2>2. stage'[m] = "done" /\ \A d \in Messages \ {m} : stage'[d] = stage[d]
    BY <2>1 DEF Transcript, TranscriptOK
  <2>3. \A d \in queue \cup slot : d \in Messages /\ stage[d] \in {"none", "done"}
    BY InTranscript DEF Delivery, Once
  <2>4. \A d \in queue' \cup slot' : stage'[d] \in {"none", "done"}
    BY <2>1, <2>2, <2>3
  <2>5. \A d \in Messages : Waiting(d)' => Waiting(d)
    BY <2>1, <2>2 DEF Waiting, Ahead, Underway
  <2>6. \A d \in Messages : stage[d] = "none" => stage'[d] = "none" \/ d \in queue
    BY <2>2 DEF Underway
  <2> QED
    BY <2>4, <2>5, <2>6 DEF Drifts
<1> QED
  BY <1>1, <1>2 DEF StartTurn

LEMMA TakeDrifts ==
  ASSUME Delivery, Transcript, TakeNext, UNCHANGED <<used, text, handed, slot, acking, acked>> PROVE Drifts
<1> DEFINE next == IF shutdown = "no" THEN Taken ELSE {}
<1>1. next \subseteq queue
  BY DEF Taken
<1>2. queue' = queue \ next /\ stage' = [d \in Messages |-> IF d \in next THEN "replaying" ELSE stage[d]]
  BY DEF TakeNext
<1> HIDE DEF next
<1>3. \A d \in queue \cup slot : d \in Messages /\ stage[d] \in {"none", "done"}
  BY InTranscript DEF Delivery, Once
<1>4. queue \cap slot = {}
  BY DEF Transcript, TranscriptOK, Placed
<1>5. \A d \in queue' \cup slot' : stage'[d] \in {"none", "done"}
  BY <1>1, <1>2, <1>3, <1>4
<1>6. \A d \in Messages : Waiting(d)' => Waiting(d)
  BY <1>1, <1>2 DEF Waiting
<1>7. \A d \in Messages : stage[d] = "none" => stage'[d] = "none" \/ d \in queue
  BY <1>1, <1>2
<1> QED
  BY <1>5, <1>6, <1>7 DEF Drifts

\* A new message n joins a running turn; it repeats message m, or nothing.
LEMMA JoinsDelivers ==
  ASSUME Delivery, Transcript, CountsOK, Counted, NEW n \in Messages, n = used + 1, used' = n, Joins(n),
         stage' \in StageType, stage'[n] = "done", handed' = handed, acked' = acked,
         \/ text' = text /\ (\A d \in Messages \ {n} : stage'[d] = stage[d])
         \/ \E m \in Messages : /\ text' = [text EXCEPT ![n] = text[m]]
                                /\ stage[m] = "clearing" /\ stage'[m] = "done"
                                /\ \A d \in Messages \ {m, n} : stage'[d] = stage[d]
  PROVE  Delivery'
<1>1. /\ \/ slot' = slot \cup {n} /\ queue' = queue
         \/ slot' = slot /\ queue' = queue \cup {n}
      /\ acking' = acking \cup {n}
  BY DEF Joins, backend
<1>2. used \in 0 .. MaxMessages /\ used < n /\ \A d \in queue \cup slot \cup messages : d \in Messages /\ d \in 1 .. used
  BY Sizes, InTranscript DEF Transcript, TranscriptOK
<1>3. text[n] = n /\ handed[n] = 0 /\ stage[n] = "none" /\ ~Live(n)
  <2>1. text[n] = n /\ handed[n] = 0 /\ stage[n] = "none"
    BY <1>2 DEF Delivery, Fresh, Blank
  <2>2. n \notin queue \cup slot
    BY <1>2, Sizes DEF Messages
  <2> QED
    BY <2>1, <2>2 DEF Live, Waiting, Ahead
<1>4. \A d \in Messages : d <= used => text[d] \in 1 .. used
  BY Sizes DEF Delivery, Fresh, Blank, Messages
<1>5. \A d \in Messages : used < d => Blank(d)
  BY DEF Delivery, Fresh, Blank
<1>6. \A d \in Messages \ {n} : Waiting(d)' => Waiting(d)
  BY <1>1 DEF Waiting, Ahead
<1>7. \A d \in queue' \cup slot' : stage'[d] \in {"none", "done"}
  BY <1>1, <1>2 DEF Delivery, Once
<1>8. \A d \in Messages : handed'[d] <= 1 /\ (handed'[d] > 0 => ~Waiting(d)')
  BY <1>3, <1>6 DEF Delivery, Once
<1>9. CASE text' = text /\ (\A d \in Messages \ {n} : stage'[d] = stage[d])
  <2>1. Fresh'
    <3>1. \A d \in Messages : used' < d => Blank(d)'
      BY <1>1, <1>2, <1>5, <1>9, Sizes DEF Messages, Blank
    <3>2. \A d \in 1 .. used' : text'[d] \in 1 .. used'
      BY <1>2, <1>3, <1>4, <1>9, Sizes DEF Messages
    <3> QED
      BY <3>1, <3>2 DEF Fresh, Blank
  <2>2. \A d \in Messages \ {n} : text[d] # n \/ ~Live(d)
    <3>1. \A d \in Messages : used < d => ~Live(d)
      BY <1>2, <1>5, Sizes DEF Live, Waiting, Ahead, Messages, Blank
    <3> QED
      BY <3>1, <1>2, <1>4, Sizes DEF Messages
  <2>3. \A d \in Messages \ {n} : Live(d)' => Live(d)
    BY <1>6 DEF Live
  <2>4. OneCopy'
    BY <2>2, <2>3, <1>3, <1>9 DEF Delivery, OneCopy, Counted
  <2> QED
    BY <2>1, <2>4, <1>7, <1>8 DEF Delivery, Once
<1>10. ASSUME NEW m \in Messages, text' = [text EXCEPT ![n] = text[m]], stage[m] = "clearing", stage'[m] = "done",
              \A d \in Messages \ {m, n} : stage'[d] = stage[d]
       PROVE  Delivery'
  <2>0. m \in 1 .. used /\ m # n /\ m \notin queue' \cup slot' /\ handed[m] = 0 /\ Live(m)
    <3>1. m \in messages /\ m \notin queue /\ m \notin slot
      BY <1>10 DEF Transcript, TranscriptOK, Placed, Underway
    <3>2. m \in 1 .. used /\ m # n
      BY <3>1, <1>2
    <3>3. Waiting(m)
      BY <1>10 DEF Waiting, Ahead
    <3> QED
      BY <3>1, <3>2, <3>3, <1>1 DEF Delivery, Once, Live, CountsOK
  <2>t. text'[n] = text[m] /\ \A d \in Messages \ {n} : text'[d] = text[d]
    BY <1>10 DEF CountsOK
  <2>1. Fresh'
    <3>1. \A d \in Messages : used' < d => Blank(d)'
      BY <1>1, <1>2, <1>5, <1>10, <2>0, <2>t, Sizes DEF Messages, Blank
    <3>2. \A d \in 1 .. used' : text'[d] \in 1 .. used'
      BY <1>2, <1>4, <2>t, <2>0, Sizes DEF Messages
    <3> QED
      BY <3>1, <3>2 DEF Fresh, Blank
  <2>2. ~Live(m)'
    BY <2>0, <1>10 DEF Live, Waiting, Ahead
  <2>3. \A d \in Messages \ {n} : Live(d)' => Live(d)
    BY <1>6 DEF Live
  <2>4. ASSUME bounds'.restarts = 0, NEW d \in Messages, NEW e \in Messages, Live(d)', Live(e)', text'[d] = text'[e]
        PROVE  d = e
    <3>1. d # m /\ e # m
      BY <2>2, <2>4
    <3>2. \A a, b \in Messages : Live(a) /\ Live(b) /\ text[a] = text[b] => a = b
      BY <2>4 DEF Delivery, OneCopy, Counted
    <3>3. CASE d = n
      BY <3>1, <3>2, <3>3, <2>0, <2>3, <2>4, <2>t
    <3>4. CASE e = n
      BY <3>1, <3>2, <3>4, <2>0, <2>3, <2>4, <2>t
    <3>5. CASE d # n /\ e # n
      BY <3>2, <3>5, <2>3, <2>4, <2>t
    <3> QED
      BY <3>3, <3>4, <3>5
  <2> QED
    BY <2>1, <2>4, <1>7, <1>8 DEF Delivery, Once, OneCopy
<1> QED
  BY <1>9, <1>10


LEMMA CommitDelivers == ASSUME Delivery, Transcript, CountsOK, Counted, Commit PROVE Delivery'
<1> DEFINE n == used + 1
<1>1. n \in Messages /\ used' = n /\ UNCHANGED <<text, handed, acked>>
  BY Sizes DEF Commit, Transcript, TranscriptOK, Messages, ghosts
<1>2. CASE processing
  <2>1. Joins(n) /\ stage' = [stage EXCEPT ![n] = "done"]
    BY <1>1, <1>2 DEF Commit
  <2>2. stage' \in StageType /\ stage'[n] = "done" /\ \A d \in Messages \ {n} : stage'[d] = stage[d]
    BY <1>1, <2>1 DEF Transcript, TranscriptOK, StageType
  <2> QED
    BY <1>1, <2>1, <2>2, JoinsDelivers
<1>3. CASE ~processing
  <2>1. UNCHANGED <<queue, slot, acking>> /\ stage' = [stage EXCEPT ![n] = "saving"]
    BY <1>1, <1>3 DEF Commit, backend
  <2>2. stage'[n] = "saving" /\ \A d \in Messages \ {n} : stage'[d] = stage[d]
    BY <1>1, <2>1 DEF Transcript, TranscriptOK
  <2>3. used \in 0 .. MaxMessages /\ \A d \in queue \cup slot \cup messages : d \in Messages /\ d \in 1 .. used
    BY Sizes, InTranscript DEF Transcript, TranscriptOK
  <2>4. \A d \in Messages : used < d => Blank(d) /\ ~Live(d)
    <3>1. \A d \in Messages : used < d => d \notin queue \cup slot
      BY <2>3, Sizes DEF Messages
    <3> QED
      BY <3>1 DEF Delivery, Fresh, Blank, Live, Waiting, Ahead
  <2>5. \A d \in Messages : d <= used => text[d] \in 1 .. used
    BY Sizes DEF Delivery, Fresh, Blank, Messages
  <2>6. used < n /\ n \notin queue \cup slot
    BY <1>1, <2>3, Sizes DEF Messages
  <2>7. Fresh'
    <3>1. \A d \in Messages : used' < d => Blank(d)'
      BY <1>1, <2>1, <2>2, <2>3, <2>4, Sizes DEF Messages, Blank
    <3>2. \A d \in 1 .. used' : text'[d] \in 1 .. used'
      BY <1>1, <2>3, <2>4, <2>5, Sizes DEF Messages, Blank
    <3> QED
      BY <3>1, <3>2 DEF Fresh, Blank
  <2>8. Once'
    <3>1. \A d \in queue' \cup slot' : stage'[d] \in {"none", "done"}
      BY <2>1, <2>2, <2>3, <2>6 DEF Delivery, Once
    <3>2. \A d \in Messages : handed'[d] <= 1 /\ (handed'[d] > 0 => ~Waiting(d)')
      BY <1>1, <2>1, <2>2, <2>4, <2>6 DEF Delivery, Once, Waiting, Blank
    <3> QED
      BY <3>1, <3>2 DEF Once
  <2>9. OneCopy'
    <3>1. \A d \in Messages \ {n} : text[d] # n \/ ~Live(d)
      BY <1>1, <2>3, <2>4, <2>5, Sizes DEF Messages
    <3>2. \A d \in Messages \ {n} : Live(d)' => Live(d)
      BY <1>1, <2>1, <2>2 DEF Live, Waiting
    <3> QED
      BY <1>1, <2>4, <2>6, <3>1, <3>2 DEF Delivery, OneCopy, Counted, Blank
  <2> QED
    BY <2>7, <2>8, <2>9 DEF Delivery
<1> QED
  BY <1>2, <1>3

LEMMA ReplayDelivers ==
  ASSUME Delivery, Transcript, CountsOK, Counted, NEW m \in Messages, ReplayCommits(m) PROVE Delivery'
<1>1. stage[m] = "clearing" /\ handed' = handed /\ acked' = acked
  BY DEF ReplayCommits, ghosts
<1>2. CASE processing
  <2> DEFINE n == used + 1
  <2>1. /\ n \in Messages /\ used' = n /\ Joins(n) /\ text' = [text EXCEPT ![n] = text[m]]
        /\ stage' = [stage EXCEPT ![m] = "done", ![n] = "done"]
    BY <1>2, Sizes DEF ReplayCommits, Transcript, TranscriptOK, Messages
  <2>2. stage' \in StageType /\ stage'[n] = "done" /\ stage'[m] = "done" /\ \A d \in Messages \ {m, n} : stage'[d] = stage[d]
    BY <2>1 DEF Transcript, TranscriptOK, StageType
  <2> HIDE DEF n
  <2>3. n = used + 1
    BY DEF n
  <2> QED
    BY <1>1, <2>1, <2>2, <2>3, JoinsDelivers
<1>3. CASE ~processing
  <2>1. StartTurn(m) /\ UNCHANGED <<used, text, acking, slot>>
    BY <1>3 DEF ReplayCommits, backend
  <2>2. Drifts
    BY <1>1, <2>1, StartDrifts DEF Underway
  <2> QED
    BY <2>2, DeliveryDrifts
<1> QED
  BY <1>2, <1>3

LEMMA ChatDelivers ==
  ASSUME Delivery, Transcript, CountsOK, Counted, NEW m \in Messages, ChatStarts(m) PROVE Delivery'
<1>1. /\ stage[m] = "setup" /\ stage' = [stage EXCEPT ![m] = "chatting"]
      /\ handed' = [handed EXCEPT ![m] = @ + 1]
      /\ queue' = queue \cup (slot \cap steers) /\ slot' = {}
      /\ UNCHANGED <<used, text, acking, acked, bounds>>
  BY DEF ChatStarts, RecoveredQueue, sends
<1>2. stage'[m] = "chatting" /\ \A d \in Messages \ {m} : stage'[d] = stage[d]
  BY <1>1 DEF Transcript, TranscriptOK
<1>3. m \notin queue \cup slot /\ Waiting(m)
  BY <1>1 DEF Delivery, Once, Waiting, Ahead
<1>4. handed[m] = 0 /\ handed'[m] = 1 /\ \A d \in Messages \ {m} : handed'[d] = handed[d]
  <2>1. handed[m] \in Nat /\ ~(handed[m] > 0)
    BY <1>3 DEF Delivery, Once, CountsOK
  <2> QED
    BY <1>1, <2>1 DEF CountsOK
<1>5. ~Waiting(m)' /\ \A d \in Messages \ {m} : Waiting(d)' => Waiting(d)
  BY <1>1, <1>2, <1>3 DEF Waiting, Ahead
<1>6. \A d \in Messages : Live(d)' => Live(d)
  BY <1>3, <1>4, <1>5 DEF Live
<1>7. Fresh'
  <2>1. ~(used < m)
    BY <1>1 DEF Delivery, Fresh, Blank
  <2> QED
    BY <1>1, <1>2, <1>4, <2>1 DEF Delivery, Fresh, Blank
<1>8. Once'
  <2>1. \A d \in queue' \cup slot' : stage'[d] \in {"none", "done"}
    <3>1. \A d \in queue' \cup slot' : d \in queue \cup slot /\ d \in Messages /\ d # m
      BY <1>1, <1>3, InTranscript
    <3> QED
      BY <1>2, <3>1 DEF Delivery, Once
  <2>2. \A d \in Messages : handed'[d] <= 1 /\ (handed'[d] > 0 => ~Waiting(d)')
    BY <1>4, <1>5 DEF Delivery, Once
  <2> QED
    BY <2>1, <2>2 DEF Once
<1>9. OneCopy'
  BY <1>1, <1>6 DEF Delivery, OneCopy
<1> QED
  BY <1>7, <1>8, <1>9 DEF Delivery

LEMMA DeliverDelivers == ASSUME Delivery, Transcript, CountsOK, Deliver PROVE Delivery'
<1>1. /\ handed' = [m \in Messages |-> IF m \in slot THEN handed[m] + 1 ELSE handed[m]] /\ slot' = {}
      /\ UNCHANGED <<used, text, acking, acked, queue, stage, bounds>>
  BY DEF Deliver, sends, runtime
<1>2. \A m \in Messages : m \in slot => Waiting(m) /\ m \notin queue /\ stage[m] \notin Ahead /\ handed[m] = 0
  <2>1. ASSUME NEW m \in Messages, m \in slot PROVE Waiting(m) /\ m \notin queue /\ stage[m] \notin Ahead
    BY <2>1 DEF Waiting, Delivery, Once, Transcript, TranscriptOK, Placed, Ahead
  <2>2. ASSUME NEW m \in Messages, m \in slot PROVE handed[m] = 0
    BY <2>1, <2>2 DEF Delivery, Once, CountsOK
  <2> QED
    BY <2>1, <2>2
<1>3. \A m \in Messages : m \in slot => handed'[m] = 1 /\ ~Waiting(m)'
  BY <1>1, <1>2 DEF Waiting
<1>4. \A m \in Messages : m \notin slot => handed'[m] = handed[m]
  BY <1>1
<1>5. \A m \in Messages : Waiting(m)' => Waiting(m)
  BY <1>1 DEF Waiting
<1>6. \A d \in Messages : Live(d)' => Live(d)
  BY <1>2, <1>4, <1>5 DEF Live
<1>7. Fresh'
  <2>1. \A d \in Messages : used < d => d \notin slot
    BY InTranscript, Sizes DEF Transcript, TranscriptOK, Messages
  <2> QED
    BY <1>1, <1>4, <2>1 DEF Delivery, Fresh, Blank
<1>8. Once'
  BY <1>1, <1>3, <1>4, <1>5 DEF Delivery, Once
<1>9. OneCopy'
  BY <1>1, <1>6 DEF Delivery, OneCopy
<1> QED
  BY <1>7, <1>8, <1>9 DEF Delivery

LEMMA RestartDelivers == ASSUME Delivery, Transcript, BoundsOK, Restart PROVE Delivery'
<1>1. /\ handed' = [m \in Messages |-> 0] /\ slot' = {} /\ stage' = [m \in Messages |-> "none"]
      /\ acking' = {} /\ UNCHANGED <<used, text, acked>>
  BY DEF Restart
<1>2. Fresh'
  BY <1>1 DEF Delivery, Fresh, Blank
<1>3. Once'
  <2>1. queue' \subseteq Messages
    BY DEF Restart, Transcript, TranscriptOK, Snapshots
  <2> QED
    BY <1>1, <2>1 DEF Once, Waiting
<1>4. OneCopy'
  BY DEF Restart, BoundsOK, OneCopy
<1> QED
  BY <1>2, <1>3, <1>4 DEF Delivery


LEMMA MovesRecede ==
  ASSUME Delivery, Transcript, NEW m \in Messages,
         ReplayAdmitted(m) \/ SetupFails(m) \/ TurnAbandoned(m) \/ ChatEnds(m)
  PROVE  Recedes
<1>1. UNCHANGED <<used, text, acking, acked, handed>>
  BY DEF ReplayAdmitted, SetupFails, TurnAbandoned, ChatEnds, sends, ghosts
<1>2. queue' \cup slot' \subseteq queue \cup slot
  <2>1. CASE StopProcessing
    BY <2>1, StopRecovers
  <2>2. CASE ~StopProcessing
    BY <2>2 DEF ReplayAdmitted, SetupFails, TurnAbandoned, ChatEnds, backend
  <2> QED
    BY <2>1, <2>2
<1>3. /\ stage[m] \in {"replaying", "setup", "halted", "chatting"}
      /\ \/ stage' = [stage EXCEPT ![m] = "done"]
         \/ stage' = [stage EXCEPT ![m] = "clearing"] /\ stage[m] = "replaying"
  BY DEF ReplayAdmitted, SetupFails, TurnAbandoned, ChatEnds
<1>4. \A d \in Messages : Onward(d)
  BY <1>3, StageRecedes DEF Ahead
<1> QED
  BY <1>1, <1>2, <1>4 DEF Recedes, Onward

LEMMA StillRecedes ==
  ASSUME Delivery, Transcript,
         \/ Send \/ Admitted \/ Written \/ HandoffEnds \/ Stop \/ TimerFires \/ UNCHANGED vars
         \/ (\E m \in Messages : Handoff(m))
         \/ ShutdownBegins \/ SendsSettled \/ TurnsStopped \/ ShutdownEnds \/ ShutdownGivesUp
  PROVE  Recedes
<1>1. UNCHANGED <<used, text, acking, acked, handed>>
  BY DEF Send, Admitted, Written, HandoffEnds, Stop, TimerFires, Handoff, vars, sends, ghosts,
         ShutdownBegins, SendsSettled, TurnsStopped, ShutdownEnds, ShutdownGivesUp
<1>2. queue' \cup slot' \subseteq queue \cup slot
  <2>1. CASE StopProcessing
    BY <2>1, StopRecovers
  <2>2. CASE SteersRecovered
    BY <2>2, RecoveredRecedes
  <2>3. CASE ~StopProcessing /\ ~SteersRecovered
    BY <2>3 DEF Send, Admitted, Written, HandoffEnds, Stop, TimerFires, Handoff, vars, runtime, backend,
                ShutdownBegins, SendsSettled, TurnsStopped, ShutdownEnds, ShutdownGivesUp
  <2> QED
    BY <2>1, <2>2, <2>3
<1>3. stage' = stage \/ stage' = [m \in Messages |-> IF stage[m] = "setup" THEN "halted" ELSE stage[m]]
  BY DEF Send, Admitted, Written, HandoffEnds, Stop, TimerFires, Handoff, vars, runtime,
         ShutdownBegins, SendsSettled, TurnsStopped, ShutdownEnds, ShutdownGivesUp
<1>4. \A d \in Messages : Onward(d)
  BY <1>3 DEF Ahead, Onward
<1> QED
  BY <1>1, <1>2, <1>4 DEF Recedes, Onward

LEMMA SendsDrift ==
  ASSUME Delivery, Transcript, NEW m \in Messages, Saved(m) \/ Acknowledged(m) PROVE Drifts
<1>1. CASE Saved(m)
  <2>1. stage[m] \in Underway /\ StartTurn(m) /\ UNCHANGED <<used, text, handed, slot, acking>> /\ acked' = acked \cup {m}
    BY <1>1 DEF Saved, Underway, backend, ghosts
  <2>2. m \in messages
    BY <2>1 DEF Transcript, Placed
  <2> QED
    BY <2>1, <2>2, StartDrifts
<1>2. CASE Acknowledged(m)
  <2>1. UNCHANGED <<used, text, handed, slot, queue, stage>> /\ acking' \cup acked' \subseteq acking \cup acked
    BY <1>2 DEF Acknowledged, runtime, backend, ghosts
  <2> QED
    BY <2>1, RecedesDrifts DEF Recedes, Onward
<1> QED
  BY <1>1, <1>2

LEMMA DeliveryStep ==
  ASSUME Delivery, Transcript, CountsOK, BoundsOK, [Next]_vars PROVE Delivery'
<1>0. Counted
  BY BoundsStep
<1>1. CASE \/ Send \/ Admitted \/ Written \/ HandoffEnds \/ Stop \/ TimerFires \/ UNCHANGED vars
           \/ ShutdownBegins \/ SendsSettled \/ TurnsStopped \/ ShutdownEnds \/ ShutdownGivesUp
  BY <1>0, <1>1, StillRecedes, RecedesDrifts, DeliveryDrifts
<1>2. CASE Commit \/ Deliver \/ Restart
  BY <1>0, <1>2, CommitDelivers, DeliverDelivers, RestartDelivers
<1>3. CASE TailEnds \/ KickFires
  <2>1. TakeNext /\ UNCHANGED <<used, text, handed, slot, acking, acked>>
    BY <1>3 DEF TailEnds, KickFires, sends, backend, ghosts
  <2> QED
    BY <1>0, <2>1, TakeDrifts, DeliveryDrifts
<1>4. ASSUME NEW m \in Messages, ReplayAdmitted(m) \/ SetupFails(m) \/ TurnAbandoned(m) \/ ChatEnds(m)
      PROVE  Delivery'
  BY <1>0, <1>4, MovesRecede, RecedesDrifts, DeliveryDrifts
<1>5. ASSUME NEW m \in Messages, Handoff(m) PROVE Delivery'
  BY <1>0, <1>5, StillRecedes, RecedesDrifts, DeliveryDrifts
<1>6. ASSUME NEW m \in Messages, ReplayCommits(m) \/ ChatStarts(m) PROVE Delivery'
  BY <1>0, <1>6, ReplayDelivers, ChatDelivers
<1>7. ASSUME NEW m \in Messages, Saved(m) \/ Acknowledged(m) PROVE Delivery'
  BY <1>0, <1>7, SendsDrift, DeliveryDrifts
<1> QED
  BY <1>1, <1>2, <1>3, <1>4, <1>5, <1>6, <1>7 DEF Next

LEMMA DeliveryInit == Init => Delivery /\ BoundsOK
<1> SUFFICES ASSUME Init PROVE Delivery /\ BoundsOK
  OBVIOUS
<1>1. Fresh
  BY Sizes DEF Init, Fresh, Blank
<1>2. Once
  BY DEF Init, Once, Waiting, Ahead
<1>3. OneCopy
  BY DEF Init, OneCopy, Live, Waiting, Ahead
<1>4. BoundsOK
  BY DEF Init, BoundsOK
<1> QED
  BY <1>1, <1>2, <1>3, <1>4 DEF Delivery

LEMMA AtMostOne ==
  ASSUME NEW S, \A d, e \in S : d = e PROVE Cardinality(S) <= 1
<1>1. CASE S = {}
  BY <1>1, FS_EmptySet
<1>2. CASE S # {}
  <2>1. PICK d : d \in S
    BY <1>2
  <2>2. S = {d}
    BY <2>1
  <2>3. Cardinality({d}) = 1
    BY FS_Singleton
  <2> QED
    BY <2>2, <2>3
<1> QED
  BY <1>1, <1>2

\* Whatever becomes of its turn - queued, steered, handed back by the backend,
\* replayed behind another turn and so repeated in the transcript - a message
\* reaches the backend once, and its text once until a restart
\* (SessionManager.ts, sendMessageInner, recoverUndeliveredSteer and
\* processNextQueuedMessage).
THEOREM TextsReachTheBackendOnce == Spec => []HandedOverOnce
<1> DEFINE Inv == CountsOK /\ Transcript /\ TurnOK /\ BoundsOK /\ Delivery
<1>1. Init => Inv
  BY TypesInit, TranscriptInit, DeliveryInit DEF TurnsTypeOK
<1>2. Inv /\ [Next]_vars => Inv'
  BY CountsStep, TranscriptStep, TurnStep, BoundsStep, DeliveryStep
<1>3. Inv => HandedOverOnce
  <2> SUFFICES ASSUME Delivery PROVE HandedOverOnce
    OBVIOUS
  <2>1. \A m \in Messages : handed[m] <= 1
    BY DEF Delivery, Once
  <2>2. ASSUME bounds.restarts = 0, NEW m \in Messages
        PROVE  Cardinality({d \in Messages : text[d] = m /\ handed[d] > 0}) <= 1
    <3>1. \A d, e \in {d \in Messages : text[d] = m /\ handed[d] > 0} : d = e
      BY <2>2 DEF Delivery, OneCopy, Live
    <3> QED
      BY <3>1, AtMostOne
  <2> QED
    BY <2>1, <2>2 DEF HandedOverOnce
<1> QED
  BY <1>1, <1>2, <1>3, PTL DEF Spec


----------------------------------------------------------------------------
(* What is owed to an acknowledged message. *)

\* Nothing is owed to m any more, or a turn carries it, or it was handed over.
Safe(m) == m \in dropped \/ Reached(m) \/ stage[m] \in {"setup", "halted"}

\* The mark of m is where a restart finds it, or on its way there: a shutdown
\* writes it at its end, and its sender is not answered before it is written.
Kept(m) ==
  /\ m \in marked /\ m \in snapshot.marked
  /\ m \in disk.marked \/ shutdown \notin {"no", "clean"} \/ (m \in acking /\ m \notin disk.messages)

Owing ==
  /\ acking \cap acked = {}
  /\ \A m \in Messages : stage[m] = "saving" => m \notin acking \cup acked
  /\ \A m \in acking \cup acked : Safe(m) \/ Kept(m)

\* A steer that has left the slot was delivered, or went with its turn.
SteersGone == \A m \in steers \ slot : handed[m] > 0 \/ m \in dropped

\* What is safe stays safe until a restart.
SafeMoves ==
  /\ dropped \subseteq dropped'
  /\ \A d \in Messages : handed[d] > 0 => handed'[d] > 0
  /\ \A d \in Messages : handed[d] > 0 \/ d \in acking \cup acked => text'[d] = text[d]
  /\ \A d \in Messages : stage[d] \in {"setup", "halted"} =>
       stage'[d] \in {"setup", "halted"} \/ d \in dropped' \/ handed'[d] > 0

\* No mark is lost but that of a safe message, and no snapshot lacks a mark.
Remembers ==
  /\ SafeMoves
  /\ \A m \in marked : m \in marked' \/ Safe(m)'
  /\ snapshot' = snapshot \/ marked' \subseteq snapshot'.marked

LEMMA SafeStays == ASSUME SafeMoves, CountsOK, NEW m \in acking \cup acked, Safe(m) PROVE Safe(m)'
<1>0. m \in Messages
  BY DEF CountsOK
<1>1. CASE Reached(m)
  <2>1. PICK d \in Messages : text[d] = text[m] /\ handed[d] > 0
    BY <1>1 DEF Reached
  <2>2. text'[d] = text'[m] /\ handed'[d] > 0
    BY <1>0, <2>1 DEF SafeMoves
  <2> QED
    BY <2>2 DEF Safe, Reached
<1>2. CASE m \in dropped
  BY <1>2 DEF SafeMoves, Safe
<1>3. CASE stage[m] \in {"setup", "halted"}
  BY <1>0, <1>3 DEF SafeMoves, Safe, Reached
<1> QED
  BY <1>1, <1>2, <1>3 DEF Safe

LEMMA GoneIsSafe ==
  ASSUME SteersGone, SafeMoves, Transcript, NEW m \in steers \ slot PROVE Safe(m)'
<1>1. m \in Messages
  BY InTranscript DEF Transcript, TranscriptOK
<1> QED
  BY <1>1 DEF SteersGone, SafeMoves, Safe, Reached

LEMMA RecoveredRemembers ==
  ASSUME SteersGone, SafeMoves, Transcript, SteersRecovered PROVE \A m \in marked : m \in marked' \/ Safe(m)'
<1>1. \A m \in marked : m \in marked' \/ m \in steers \ slot
  BY DEF SteersRecovered, RecoveredMarks
<1> QED
  BY <1>1, GoneIsSafe

LEMMA StopRemembers ==
  ASSUME SteersGone, SafeMoves, Transcript, StopProcessing PROVE Remembers
<1>1. SteersRecovered /\ (snapshot' = snapshot \/ snapshot' = [messages |-> messages', marked |-> marked'])
  BY DEF StopProcessing, PersistedIf
<1>2. snapshot' = snapshot \/ marked' \subseteq snapshot'.marked
  BY <1>1
<1> QED
  BY <1>1, <1>2, RecoveredRemembers DEF Remembers

\* The sends move on, and no turn is given up.
LEMMA SafeQuietly ==
  ASSUME dropped \subseteq dropped', UNCHANGED <<handed, text>>,
         \A d \in Messages : stage[d] \in {"setup", "halted"} => stage'[d] \in {"setup", "halted"} \/ d \in dropped'
  PROVE  SafeMoves
BY DEF SafeMoves

LEMMA StartRemembers ==
  ASSUME Transcript, NEW m \in Messages, stage[m] \in Underway, StartTurn(m), UNCHANGED <<handed, text, dropped>>
  PROVE  Remembers
<1>1. CASE BeginTurn(m)
  <2>1. marked' = marked \ {m} /\ stage' = [stage EXCEPT ![m] = "setup"]
        /\ (snapshot' = snapshot \/ snapshot' = [messages |-> messages', marked |-> marked'])
    BY <1>1 DEF BeginTurn, PersistedIf
  <2>2. stage'[m] = "setup" /\ \A d \in Messages \ {m} : stage'[d] = stage[d]
    BY <2>1 DEF Transcript, TranscriptOK
  <2>3. SafeMoves
    BY <2>2, SafeQuietly
  <2>4. Safe(m)'
    BY <2>2 DEF Safe
  <2> QED
    BY <2>1, <2>3, <2>4 DEF Remembers
<1>2. CASE QueueForRestart(m)
  <2>1. marked' = marked \cup {m} /\ stage' = [stage EXCEPT ![m] = "done"]
        /\ snapshot' = [messages |-> messages', marked |-> marked']
    BY <1>2 DEF QueueForRestart, Persisted
  <2>2. \A d \in Messages \ {m} : stage'[d] = stage[d]
    BY <2>1 DEF Transcript, TranscriptOK
  <2>3. SafeMoves
    BY <2>2, SafeQuietly DEF Underway
  <2> QED
    BY <2>1, <2>3 DEF Remembers
<1> QED
  BY <1>1, <1>2 DEF StartTurn

LEMMA JoinsRemembers == ASSUME NEW n, Joins(n), SafeMoves PROVE Remembers
  BY DEF Joins, Persisted, Remembers


LEMMA CommitRemembers == ASSUME Delivery, Transcript, Commit PROVE Remembers
<1> DEFINE n == used + 1
<1>1. /\ used' = n /\ n \in Messages /\ UNCHANGED <<handed, text, dropped>>
      /\ stage' \in {[stage EXCEPT ![n] = "done"], [stage EXCEPT ![n] = "saving"]}
  BY Sizes DEF Commit, Transcript, TranscriptOK, Messages, ghosts
<1>2. stage[n] = "none" /\ \A d \in Messages \ {n} : stage'[d] = stage[d]
  BY <1>1, Sizes DEF Transcript, TranscriptOK, Delivery, Fresh, Blank
<1>3. SafeMoves
  BY <1>1, <1>2, SafeQuietly
<1>4. CASE processing
  <2>1. Joins(n)
    BY <1>1, <1>4 DEF Commit
  <2> QED
    BY <1>3, <2>1, JoinsRemembers
<1>5. CASE ~processing
  BY <1>3, <1>5 DEF Commit, Persisted, Remembers
<1> QED
  BY <1>4, <1>5

LEMMA ReplayRemembers ==
  ASSUME Delivery, Transcript, CountsOK, NEW m \in Messages, ReplayCommits(m) PROVE Remembers
<1>1. stage[m] = "clearing" /\ UNCHANGED <<handed, dropped>>
  BY DEF ReplayCommits, ghosts
<1>2. CASE processing
  <2> DEFINE n == used + 1
  <2>1. /\ n \in Messages /\ used < n /\ Joins(n) /\ text' = [text EXCEPT ![n] = text[m]]
        /\ stage' = [stage EXCEPT ![m] = "done", ![n] = "done"]
    BY <1>2, Sizes DEF ReplayCommits, Transcript, TranscriptOK, Messages
  <2>2. stage[n] = "none" /\ handed[n] = 0 /\ n \notin acking \cup acked
    BY <2>1 DEF Delivery, Fresh, Blank
  <2>3. \A d \in Messages \ {m, n} : stage'[d] = stage[d]
    BY <2>1 DEF Transcript, TranscriptOK
  <2>4. \A d \in Messages \ {n} : text'[d] = text[d]
    BY <2>1 DEF CountsOK
  <2> HIDE DEF n
  <2>5. SafeMoves
    BY <1>1, <2>2, <2>3, <2>4 DEF SafeMoves
  <2> QED
    BY <2>1, <2>5, JoinsRemembers
<1>3. CASE ~processing
  <2>1. StartTurn(m) /\ text' = text
    BY <1>3 DEF ReplayCommits
  <2> QED
    BY <1>1, <2>1, StartRemembers DEF Underway
<1> QED
  BY <1>2, <1>3

LEMMA ChatRemembers ==
  ASSUME SteersGone, Transcript, CountsOK, NEW m \in Messages, ChatStarts(m) PROVE Remembers
<1>1. /\ handed' = [handed EXCEPT ![m] = @ + 1] /\ stage' = [stage EXCEPT ![m] = "chatting"]
      /\ marked' = marked \cup (slot \cap steers) /\ UNCHANGED <<dropped, text>>
      /\ snapshot' = snapshot \/ snapshot' = [messages |-> messages', marked |-> marked']
  BY DEF ChatStarts, PersistedIf, sends
<1>2. /\ \A d \in Messages \ {m} : stage'[d] = stage[d] /\ handed'[d] = handed[d]
      /\ handed'[m] > 0
  BY <1>1 DEF Transcript, TranscriptOK, CountsOK
<1>3. SafeMoves
  BY <1>1, <1>2 DEF SafeMoves
<1> QED
  BY <1>1, <1>3 DEF Remembers

LEMMA MovesRemember ==
  ASSUME SteersGone, Transcript, NEW m \in Messages,
         ReplayAdmitted(m) \/ SetupFails(m) \/ TurnAbandoned(m) \/ ChatEnds(m)
  PROVE  Remembers
<1>1. UNCHANGED <<handed, text>> /\ dropped \subseteq dropped'
  BY DEF ReplayAdmitted, SetupFails, TurnAbandoned, ChatEnds, ghosts, sends
<1>2. /\ stage' = [stage EXCEPT ![m] = "done"] \/ stage' = [stage EXCEPT ![m] = "clearing"]
      /\ stage[m] \in {"setup", "halted"} => m \in dropped'
  BY DEF ReplayAdmitted, SetupFails, TurnAbandoned, ChatEnds
<1>3. \A d \in Messages \ {m} : stage'[d] = stage[d]
  BY <1>2 DEF Transcript, TranscriptOK
<1>4. SafeMoves
  BY <1>1, <1>2, <1>3, SafeQuietly
<1>5. StopProcessing \/ (marked' = marked /\ snapshot' = snapshot)
  BY DEF ReplayAdmitted, SetupFails, TurnAbandoned, ChatEnds
<1> QED
  BY <1>4, <1>5, StopRemembers DEF Remembers

LEMMA StopButtonRemembers == ASSUME SteersGone, Transcript, Stop PROVE Remembers
<1>1. /\ marked' = RecoveredMarks \ RecoveredQueue /\ dropped' = dropped \cup RecoveredQueue
      /\ snapshot' = snapshot \/ snapshot' = [messages |-> messages, marked |-> RecoveredMarks]
      /\ stage' = [m \in Messages |-> IF stage[m] = "setup" THEN "halted" ELSE stage[m]]
      /\ UNCHANGED <<handed, text>>
  BY DEF Stop, Withdrawn, sends
<1>2. SafeMoves
  BY <1>1, SafeQuietly
<1>3. \A m \in marked : m \in marked' \/ m \in steers \ slot \/ m \in dropped'
  BY <1>1 DEF RecoveredMarks
<1>4. \A m \in marked : m \in marked' \/ Safe(m)'
  BY <1>2, <1>3, GoneIsSafe DEF Safe
<1> QED
  BY <1>1, <1>2, <1>4 DEF Remembers

LEMMA RestRemembers ==
  ASSUME SteersGone, Transcript,
         \/ Send \/ Admitted \/ Written \/ HandoffEnds \/ TimerFires \/ UNCHANGED vars \/ Deliver
         \/ (\E m \in Messages : Handoff(m) \/ Acknowledged(m)) \/ TailEnds \/ KickFires
         \/ ShutdownBegins \/ SendsSettled \/ TurnsStopped \/ ShutdownEnds \/ ShutdownGivesUp,
         Delivery, CountsOK
  PROVE  Remembers
<1>1. UNCHANGED <<text, dropped>>
  BY DEF Send, Admitted, Written, HandoffEnds, TimerFires, Handoff, Acknowledged, vars, sends, ghosts, Deliver,
         TailEnds, KickFires, ShutdownBegins, SendsSettled, TurnsStopped, ShutdownEnds, ShutdownGivesUp
<1>2. \A d \in Messages : handed[d] > 0 => handed'[d] > 0
  <2>1. CASE Deliver
    BY <2>1 DEF Deliver, CountsOK
  <2>2. CASE ~Deliver
    <3>1. handed' = handed
      BY <2>2 DEF Send, Admitted, Written, HandoffEnds, TimerFires, Handoff, Acknowledged, vars, ghosts,
            TailEnds, KickFires, ShutdownBegins, SendsSettled, TurnsStopped, ShutdownEnds, ShutdownGivesUp
    <3> QED
      BY <3>1
  <2> QED
    BY <2>1, <2>2
<1>3. \A d \in Messages : stage[d] \in {"setup", "halted"} => stage'[d] = stage[d]
  <2>1. CASE TailEnds \/ KickFires
    <3>1. stage' = [m \in Messages |-> IF m \in (IF shutdown = "no" THEN Taken ELSE {}) THEN "replaying" ELSE stage[m]]
      BY <2>1 DEF TailEnds, KickFires, TakeNext
    <3>2. \A m \in Taken : stage[m] \in {"none", "done"}
      BY DEF Taken, Delivery, Once
    <3> QED
      BY <3>1, <3>2
  <2>2. CASE ~(TailEnds \/ KickFires)
    <3>1. stage' = stage
      BY <2>2 DEF Send, Admitted, Written, HandoffEnds, TimerFires, Handoff, Acknowledged, vars, runtime, Deliver,
            ShutdownBegins, SendsSettled, TurnsStopped, ShutdownEnds, ShutdownGivesUp
    <3> QED
      BY <3>1
  <2> QED
    BY <2>1, <2>2
<1>4. SafeMoves
  BY <1>1, <1>2, <1>3 DEF SafeMoves
<1>5. CASE StopProcessing
  BY <1>4, <1>5, StopRemembers
<1>6. CASE ~StopProcessing
  <2>1. snapshot' = snapshot \/ snapshot' = [messages |-> messages', marked |-> marked']
    BY <1>6 DEF Send, Admitted, Written, HandoffEnds, TimerFires, Handoff, Acknowledged, vars, storage, Deliver, Persisted, PersistedIf,
         TailEnds, KickFires, ShutdownBegins, SendsSettled, TurnsStopped, ShutdownEnds, ShutdownGivesUp
  <2>2. SteersRecovered \/ marked' = marked
    BY <1>6 DEF Send, Admitted, Written, HandoffEnds, TimerFires, Handoff, Acknowledged, vars, runtime, Deliver,
         TailEnds, KickFires, TakeNext, ShutdownBegins, SendsSettled, TurnsStopped, ShutdownEnds, ShutdownGivesUp
  <2>3. \A m \in marked : m \in marked' \/ Safe(m)'
    BY <1>4, <2>2, RecoveredRemembers
  <2>4. snapshot' = snapshot \/ marked' \subseteq snapshot'.marked
    BY <2>1
  <2> QED
    BY <1>4, <2>3, <2>4 DEF Remembers
<1> QED
  BY <1>5, <1>6


LEMMA NextRemembers ==
  ASSUME SteersGone, Delivery, Transcript, CountsOK, [Next]_vars, ~Restart PROVE Remembers
<1>1. CASE Commit \/ Stop
  BY <1>1, CommitRemembers, StopButtonRemembers
<1>2. ASSUME NEW m \in Messages, ReplayCommits(m) \/ ChatStarts(m) PROVE Remembers
  BY <1>2, ReplayRemembers, ChatRemembers
<1>3. ASSUME NEW m \in Messages, ReplayAdmitted(m) \/ SetupFails(m) \/ TurnAbandoned(m) \/ ChatEnds(m) PROVE Remembers
  BY <1>3, MovesRemember
<1>4. ASSUME NEW m \in Messages, Saved(m) PROVE Remembers
  <2>1. stage[m] \in Underway /\ StartTurn(m) /\ UNCHANGED <<handed, text, dropped>>
    BY <1>4 DEF Saved, Underway, ghosts
  <2> QED
    BY <2>1, StartRemembers
<1>5. CASE \/ Send \/ Admitted \/ Written \/ HandoffEnds \/ TimerFires \/ UNCHANGED vars \/ Deliver
           \/ (\E m \in Messages : Handoff(m) \/ Acknowledged(m)) \/ TailEnds \/ KickFires
           \/ ShutdownBegins \/ SendsSettled \/ TurnsStopped \/ ShutdownEnds \/ ShutdownGivesUp
  BY <1>5, RestRemembers
<1> QED
  BY <1>1, <1>2, <1>3, <1>4, <1>5 DEF Next

LEMMA SteersGoneStep ==
  ASSUME SteersGone, Delivery, Transcript, CountsOK, [Next]_vars PROVE SteersGone'
<1>1. CASE Restart
  BY <1>1 DEF Restart, SteersGone
<1>2. CASE ~Restart /\ steers' \ slot' \subseteq steers \ slot
  <2>1. SafeMoves
    BY <1>2, NextRemembers DEF Remembers
  <2>2. steers \subseteq Messages
    BY InTranscript DEF Transcript, TranscriptOK
  <2> QED
    BY <1>2, <2>1, <2>2 DEF SteersGone, SafeMoves
<1>3. CASE Deliver
  <2>1. /\ steers' = steers /\ dropped' = dropped /\ \A m \in Messages : m \in slot => handed'[m] = handed[m] + 1
        /\ \A m \in Messages : m \notin slot => handed'[m] = handed[m]
    BY <1>3 DEF Deliver
  <2>2. steers \subseteq Messages /\ slot \subseteq steers
    BY InTranscript DEF Transcript, TranscriptOK
  <2>3. ASSUME NEW m \in steers' \ slot' PROVE handed'[m] > 0 \/ m \in dropped'
    <3>1. m \in Messages /\ handed[m] \in Nat
      BY <2>1, <2>2, <2>3 DEF CountsOK
    <3>2. CASE m \in slot
      BY <2>1, <3>1, <3>2
    <3>3. CASE m \notin slot
      BY <2>1, <2>3, <3>1, <3>3 DEF SteersGone
    <3> QED
      BY <3>2, <3>3
  <2> QED
    BY <2>3 DEF SteersGone
<1>4. ASSUME NEW m \in Messages, ChatEnds(m), ~(steers' \ slot' \subseteq steers \ slot) PROVE SteersGone'
  <2>1. slot' = {} /\ steers' = steers /\ dropped' = dropped \cup slot /\ handed' = handed
    BY <1>4 DEF ChatEnds, StopProcessing, SteersRecovered, backend
  <2> QED
    BY <2>1 DEF SteersGone
<1>5. ASSUME NEW m \in Messages, ChatStarts(m) PROVE SteersGone' \/ steers' \ slot' \subseteq steers \ slot
  BY <1>5 DEF ChatStarts
<1>6. ASSUME Joins(used') PROVE steers' \ slot' \subseteq steers \ slot
  BY <1>6 DEF Joins, backend
<1>7. ASSUME SteersRecovered \/ UNCHANGED backend PROVE steers' \ slot' \subseteq steers \ slot
  BY <1>7 DEF SteersRecovered, backend
<1>8. CASE Commit \/ Stop
  BY <1>1, <1>2, <1>6, <1>7, <1>8 DEF Commit, Stop
<1>9. CASE Send \/ Admitted \/ Written \/ TailEnds \/ HandoffEnds \/ KickFires \/ TimerFires \/ UNCHANGED vars
  BY <1>1, <1>2, <1>7, <1>9 DEF Send, Admitted, Written, TailEnds, HandoffEnds, KickFires, TimerFires, StopProcessing, vars
<1>10. CASE ShutdownBegins \/ SendsSettled \/ TurnsStopped \/ ShutdownEnds \/ ShutdownGivesUp
  BY <1>1, <1>2, <1>7, <1>10 DEF ShutdownBegins, SendsSettled, TurnsStopped, ShutdownEnds, ShutdownGivesUp
<1>11. ASSUME NEW m \in Messages, ReplayAdmitted(m) \/ Saved(m) \/ Acknowledged(m) PROVE SteersGone'
  BY <1>1, <1>2, <1>7, <1>11 DEF ReplayAdmitted, Saved, Acknowledged, StopProcessing
<1>12. ASSUME NEW m \in Messages, SetupFails(m) \/ TurnAbandoned(m) \/ Handoff(m) PROVE SteersGone'
  BY <1>1, <1>2, <1>7, <1>12 DEF SetupFails, TurnAbandoned, Handoff, StopProcessing
<1>13. ASSUME NEW m \in Messages, ReplayCommits(m) PROVE SteersGone'
  BY <1>1, <1>2, <1>6, <1>7, <1>13 DEF ReplayCommits
<1> QED
  BY <1>1, <1>2, <1>3, <1>4, <1>5, <1>8, <1>9, <1>10, <1>11, <1>12, <1>13 DEF Next

\* The senders of acknowledged messages, and those who wait to be told.
LEMMA OwingKept ==
  ASSUME Owing, Remembers, CountsOK, disk' = disk, shutdown' = shutdown \/ shutdown' \notin {"no", "clean"},
         acking \subseteq acking', acked \subseteq acked', acking' \cap acked' = {},
         \A m \in Messages : stage'[m] = "saving" => m \notin acking' \cup acked',
         \A m \in (acking' \cup acked') \ (acking \cup acked) : Safe(m)' \/ Kept(m)'
  PROVE  Owing'
<1>1. ASSUME NEW m \in acking \cup acked PROVE Safe(m)' \/ Kept(m)'
  <2>1. CASE Safe(m)
    BY <2>1, SafeStays DEF Remembers
  <2>2. CASE Kept(m) /\ ~Safe(m)'
    <3>1. m \in marked'
      BY <2>2 DEF Kept, Remembers
    <3>2. m \in snapshot'.marked
      BY <2>2, <3>1 DEF Kept, Remembers
    <3> QED
      BY <2>2, <3>1, <3>2 DEF Kept
  <2> QED
    BY <2>1, <2>2 DEF Owing
<1> QED
  BY <1>1 DEF Owing

LEMMA WrittenOwing ==
  ASSUME Owing, Remembers, CountsOK, disk' = snapshot, UNCHANGED <<acking, acked, stage, shutdown, snapshot>>
  PROVE  Owing'
<1>1. ASSUME NEW m \in acking \cup acked PROVE Safe(m)' \/ Kept(m)'
  BY SafeStays DEF Remembers, Owing, Kept
<1> QED
  BY <1>1 DEF Owing

LEMMA EndedOwing ==
  ASSUME Owing, Remembers, CountsOK, disk = snapshot, UNCHANGED <<acking, acked, stage, snapshot, disk>>
  PROVE  Owing'
<1>1. ASSUME NEW m \in acking \cup acked PROVE Safe(m)' \/ Kept(m)'
  BY SafeStays DEF Remembers, Owing, Kept
<1> QED
  BY <1>1 DEF Owing

LEMMA AcknowledgedOwing ==
  ASSUME Owing, Transcript, CountsOK, Remembers, NEW m \in Messages, Acknowledged(m) PROVE Owing'
<1>1. /\ m \in acking /\ OnDisk(m) /\ acking' = acking \ {m} /\ acked' \in {acked, acked \cup {m}}
      /\ UNCHANGED <<stage, marked, snapshot, disk, shutdown>>
  BY DEF Acknowledged, runtime, storage
<1>2. Kept(m) => m \in disk.marked \/ shutdown \notin {"no", "clean"}
  BY <1>1 DEF Kept, OnDisk
<1>3. ASSUME NEW d \in acking' \cup acked' PROVE Safe(d)' \/ Kept(d)'
  <2>1. d \in acking \cup acked /\ (Safe(d) => Safe(d)')
    BY <1>1, <1>3, SafeStays DEF Remembers
  <2>2. CASE d = m
    BY <1>1, <1>2, <2>1, <2>2 DEF Kept, Owing
  <2>3. CASE d # m
    BY <1>1, <2>1, <2>3 DEF Kept, Owing
  <2> QED
    BY <2>2, <2>3
<1> QED
  BY <1>1, <1>3 DEF Owing


\* The sends and the disk are left alone.
LEMMA QuietOwing ==
  ASSUME Owing, Remembers, CountsOK, UNCHANGED <<acking, acked, disk>>,
         \A m \in Messages : stage'[m] = "saving" => stage[m] = "saving",
         shutdown' = shutdown \/ shutdown' \notin {"no", "clean"}
  PROVE  Owing'
<1>1. acking' \cap acked' = {} /\ \A m \in Messages : stage'[m] = "saving" => m \notin acking' \cup acked'
  BY DEF Owing
<1> QED
  BY <1>1, OwingKept

\* A new message joins the turn: its mark is in the snapshot.
LEMMA JoinsOwing ==
  ASSUME Owing, Remembers, Delivery, Transcript, CountsOK, NEW n \in Messages, n = used + 1, Joins(n),
         UNCHANGED <<acked, disk, shutdown>>, stage'[n] = "done",
         \A m \in Messages : stage'[m] = "saving" => stage[m] = "saving"
  PROVE  Owing'
<1>1. acking' = acking \cup {n} /\ n \in marked' /\ n \in snapshot'.marked
  BY DEF Joins, Persisted
<1>2. n \notin acking \cup acked
  BY Sizes DEF Delivery, Fresh, Blank, Transcript, TranscriptOK
<1>3. n \notin disk.messages
  BY Sizes DEF Transcript, TranscriptOK, Stored
<1>4. Kept(n)'
  BY <1>1, <1>3 DEF Kept
<1>5. acking' \cap acked' = {} /\ \A m \in Messages : stage'[m] = "saving" => m \notin acking' \cup acked'
  BY <1>1, <1>2 DEF Owing
<1> QED
  BY <1>1, <1>4, <1>5, OwingKept

LEMMA CommitOwing ==
  ASSUME Owing, Remembers, Delivery, Transcript, CountsOK, Commit PROVE Owing'
<1> DEFINE n == used + 1
<1>1. n \in Messages /\ used' = n /\ UNCHANGED <<acked, disk, shutdown>>
  BY Sizes DEF Commit, Transcript, TranscriptOK, Messages
<1>2. CASE processing
  <2>1. Joins(n) /\ stage' = [stage EXCEPT ![n] = "done"]
    BY <1>1, <1>2 DEF Commit
  <2>2. stage'[n] = "done" /\ \A m \in Messages \ {n} : stage'[m] = stage[m]
    BY <1>1, <2>1 DEF Transcript, TranscriptOK
  <2> QED
    BY <1>1, <2>1, <2>2, JoinsOwing
<1>3. CASE ~processing
  <2>1. acking' = acking /\ stage' = [stage EXCEPT ![n] = "saving"]
    BY <1>1, <1>3 DEF Commit
  <2>2. \A m \in Messages \ {n} : stage'[m] = stage[m]
    BY <1>1, <2>1 DEF Transcript, TranscriptOK
  <2>3. n \notin acking \cup acked
    BY <1>1, Sizes DEF Delivery, Fresh, Blank, Transcript, TranscriptOK
  <2>4. acking' \cap acked' = {} /\ \A m \in Messages : stage'[m] = "saving" => m \notin acking' \cup acked'
    BY <1>1, <2>1, <2>2, <2>3 DEF Owing
  <2> QED
    BY <1>1, <2>1, <2>4, OwingKept
<1> QED
  BY <1>2, <1>3

LEMMA StartStages ==
  ASSUME Transcript, NEW m \in Messages, StartTurn(m)
  PROVE  stage'[m] # "saving" /\ \A d \in Messages \ {m} : stage'[d] = stage[d]
BY DEF StartTurn, BeginTurn, QueueForRestart, Transcript, TranscriptOK

LEMMA ReplayOwing ==
  ASSUME Owing, Remembers, Delivery, Transcript, CountsOK, NEW m \in Messages, ReplayCommits(m) PROVE Owing'
<1>1. UNCHANGED <<acked, disk, shutdown>>
  BY DEF ReplayCommits
<1>2. CASE processing
  <2> DEFINE n == used + 1
  <2>1. n \in Messages /\ Joins(n) /\ stage' = [stage EXCEPT ![m] = "done", ![n] = "done"]
    BY <1>2, Sizes DEF ReplayCommits, Transcript, TranscriptOK, Messages
  <2>2. stage'[n] = "done" /\ \A d \in Messages : stage'[d] = stage[d] \/ stage'[d] = "done"
    BY <2>1 DEF Transcript, TranscriptOK
  <2>3. n = used + 1
    OBVIOUS
  <2> HIDE DEF n
  <2> QED
    BY <1>1, <2>1, <2>2, <2>3, JoinsOwing
<1>3. CASE ~processing
  <2>1. StartTurn(m) /\ acking' = acking
    BY <1>3 DEF ReplayCommits
  <2>2. \A d \in Messages : stage'[d] = "saving" => stage[d] = "saving"
    BY <2>1, StartStages
  <2> QED
    BY <1>1, <2>1, <2>2, QuietOwing
<1> QED
  BY <1>2, <1>3

\* A send is answered, and its turn begins or waits for the restart.
LEMMA SavedOwing ==
  ASSUME Owing, Remembers, Transcript, CountsOK, Quiescing, NEW m \in Messages, Saved(m) PROVE Owing'
<1>1. /\ stage[m] = "saving" /\ StartTurn(m) /\ acked' = acked \cup {m} /\ UNCHANGED <<acking, disk, shutdown>>
  BY DEF Saved
<1>2. m \notin acking \cup acked
  BY <1>1 DEF Owing
<1>3. shutdown # "clean"
  BY <1>1 DEF Quiescing, Drained, NoSends, Underway
<1>4. stage'[m] # "saving" /\ \A d \in Messages \ {m} : stage'[d] = stage[d]
  BY <1>1, StartStages
<1>5. CASE BeginTurn(m)
  <2>1. stage'[m] = "setup"
    BY <1>5 DEF BeginTurn, Transcript, TranscriptOK
  <2>2. Safe(m)'
    BY <2>1 DEF Safe
  <2>3. acking' \cap acked' = {} /\ \A d \in Messages : stage'[d] = "saving" => d \notin acking' \cup acked'
    BY <1>1, <1>2, <1>4 DEF Owing
  <2> QED
    BY <1>1, <2>2, <2>3, OwingKept
<1>6. CASE QueueForRestart(m) /\ shutdown # "no"
  <2>1. Kept(m)'
    BY <1>1, <1>3, <1>6 DEF QueueForRestart, Persisted, Kept
  <2>2. acking' \cap acked' = {} /\ \A d \in Messages : stage'[d] = "saving" => d \notin acking' \cup acked'
    BY <1>1, <1>2, <1>4 DEF Owing
  <2> QED
    BY <1>1, <2>1, <2>2, OwingKept
<1> QED
  BY <1>1, <1>5, <1>6 DEF StartTurn

LEMMA RestartOwing == ASSUME Owing, CountsOK, Restart PROVE Owing'
<1>1. /\ dropped' = dropped \cup {m \in acked : (\E d \in Messages : text[d] = text[m] /\ handed[d] > 0) \/ stage[m] \in {"setup", "halted"}}
                             \cup IF shutdown \in {"no", "clean"} THEN {} ELSE snapshot.marked \ disk.marked
      /\ acking' = {} /\ acked' = acked /\ stage' = [m \in Messages |-> "none"]
      /\ marked' = disk.marked /\ snapshot' = disk /\ disk' = disk
  BY DEF Restart
<1>2. ASSUME NEW m \in acked PROVE Safe(m)' \/ Kept(m)'
  <2>1. CASE Safe(m)
    <3>1. m \in dropped'
      BY <1>1, <2>1 DEF Safe, Reached
    <3> QED
      BY <3>1 DEF Safe
  <2>2. CASE Kept(m)
    <3>1. m \in dropped' \/ m \in disk.marked
      BY <1>1, <2>2 DEF Kept, Owing
    <3> QED
      BY <1>1, <3>1 DEF Safe, Kept
  <2> QED
    BY <2>1, <2>2 DEF Owing
<1> QED
  BY <1>1, <1>2 DEF Owing

LEMMA OwingStep ==
  ASSUME Owing, SteersGone, Delivery, Transcript, CountsOK, Quiescing, [Next]_vars PROVE Owing'
<1>1. CASE Restart
  BY <1>1, RestartOwing
<1>2. CASE ~Restart
  <2>0. Remembers
    BY <1>2, NextRemembers
  <2>1. CASE Commit
    BY <2>0, <2>1, CommitOwing
  <2>2. CASE Written
    <3>1. disk' = snapshot /\ UNCHANGED <<acking, acked, stage, shutdown, snapshot>>
      BY <2>2 DEF Written, sends, runtime
    <3> QED
      BY <2>0, <3>1, WrittenOwing
  <2>3. CASE ShutdownEnds
    <3>1. disk = snapshot /\ UNCHANGED <<acking, acked, stage, snapshot, disk>>
      BY <2>3 DEF ShutdownEnds, sends, runtime, storage
    <3> QED
      BY <2>0, <3>1, EndedOwing
  <2>4. ASSUME NEW m \in Messages, ReplayCommits(m) \/ Saved(m) \/ Acknowledged(m) PROVE Owing'
    BY <2>0, <2>4, ReplayOwing, SavedOwing, AcknowledgedOwing
  <2>5. ASSUME NEW m \in Messages, ReplayAdmitted(m) \/ SetupFails(m) \/ TurnAbandoned(m) \/ ChatStarts(m) \/ ChatEnds(m)
        PROVE  Owing'
    <3>1. UNCHANGED <<acking, acked, disk, shutdown>>
      BY <2>5 DEF ReplayAdmitted, SetupFails, TurnAbandoned, ChatStarts, ChatEnds, sends
    <3>2. \A d \in Messages : stage'[d] = "saving" => stage[d] = "saving"
      BY <2>5 DEF ReplayAdmitted, SetupFails, TurnAbandoned, ChatStarts, ChatEnds, Transcript, TranscriptOK
    <3> QED
      BY <2>0, <3>1, <3>2, QuietOwing
  <2>6. CASE \/ Send \/ Admitted \/ Deliver \/ TailEnds \/ HandoffEnds \/ KickFires \/ Stop \/ TimerFires \/ UNCHANGED vars
             \/ (\E m \in Messages : Handoff(m)) \/ ShutdownBegins \/ SendsSettled \/ TurnsStopped \/ ShutdownGivesUp
    <3>1. UNCHANGED <<acking, acked, disk>> /\ (shutdown' = shutdown \/ shutdown' \notin {"no", "clean"})
      BY <2>6 DEF Send, Admitted, Deliver, TailEnds, HandoffEnds, KickFires, Stop, TimerFires, vars, Handoff,
           ShutdownBegins, SendsSettled, TurnsStopped, ShutdownGivesUp, sends, storage
    <3>2. \A d \in Messages : stage'[d] = "saving" => stage[d] = "saving"
      BY <2>6 DEF Send, Admitted, Deliver, TailEnds, HandoffEnds, KickFires, TakeNext, Stop, TimerFires, vars, Handoff,
           ShutdownBegins, SendsSettled, TurnsStopped, ShutdownGivesUp, runtime
    <3> QED
      BY <2>0, <3>1, <3>2, QuietOwing
  <2> QED
    BY <1>2, <2>1, <2>2, <2>3, <2>4, <2>5, <2>6 DEF Next
<1> QED
  BY <1>1, <1>2

LEMMA OwingInit == Init => Owing /\ SteersGone
<1> SUFFICES ASSUME Init PROVE Owing /\ SteersGone
  OBVIOUS
<1> QED
  BY DEF Init, Owing, SteersGone

\* A sender who was told that the message is saved is not lied to: it reaches
\* the backend, or a turn in preparation carries it, or its mark is on disk
\* for a restart to queue it - whatever is stopped, paused, superseded,
\* replayed or shut down meanwhile, unless that took the message itself
\* (SessionManager.ts, sendMessage, processNextQueuedMessage and flushAllSessions).
THEOREM AcknowledgedIsNotForgotten == Spec => []NothingForgotten
<1> DEFINE Inv == CountsOK /\ Transcript /\ TurnOK /\ Quiescing /\ BoundsOK /\ Delivery /\ SteersGone /\ Owing
<1>1. Init => Inv
  BY TypesInit, TranscriptInit, QuiescingInit, DeliveryInit, OwingInit DEF TurnsTypeOK
<1>2. Inv /\ [Next]_vars => Inv'
  BY CountsStep, TranscriptStep, TurnStep, QuiescingStep, BoundsStep, DeliveryStep, SteersGoneStep, OwingStep
<1>3. Inv => NothingForgotten
  BY DEF Owing, Safe, Kept, NothingForgotten
<1> QED
  BY <1>1, <1>2, <1>3, PTL DEF Spec

================================================================================
