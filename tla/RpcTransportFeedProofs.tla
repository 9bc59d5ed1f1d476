----------------------- MODULE RpcTransportFeedProofs -----------------------
(***************************************************************************)
(* The push channel implements the event feed: the invariant that ties     *)
(* what a window still lacks to the server's buffer and to the messages on *)
(* the way, and what follows from it.                                      *)
(***************************************************************************)
EXTENDS RpcTransportProofs

----------------------------------------------------------------------------
(* How sockets, connections and clients hang together. *)

\* Only the window's socket carries messages, one connection has one client, and a client that holds a
\* socket is connected.
Wiring ==
  /\ \A s \in Sockets : link[s] => ws = s /\ accepted[s] \in {"open", "checking", "ready"}
  /\ \A s \in Sockets : ~link[s] => down[s] = <<>>
  /\ \A i \in Ids : entry[i].sock # None => i \in Active /\ accepted[entry[i].sock] = "ready"
  /\ \A i, j \in Ids : entry[i].sock # None /\ entry[i].sock = entry[j].sock => i = j

LEMMA WiringInit ==
  ASSUME Init
  PROVE  Wiring
BY DEF Init, Wiring, Unused

\* The steps that move no socket.
SocketsRest ==
  /\ UNCHANGED <<link, accepted, ws>>
  /\ \A i \in Ids : entry'[i].sock = entry[i].sock /\ (entry'[i].in = entry[i].in \/ entry[i].sock = None)
  /\ \A s \in Sockets : ~link[s] => down'[s] = down[s]

LEMMA RestKeepsWiring ==
  ASSUME Wiring, SocketsRest
  PROVE  Wiring'
BY DEF Wiring, SocketsRest, Active

LEMMA SocketsRestCases ==
  ASSUME TypeInv, Wiring,
         \/ \E w \in Workspaces : Push(w) \/ SwitchWorkspace(w)
         \/ \E i \in Ids : Forget(i)
         \/ \E n \in Events : SequenceAck(n)
         \/ Welcome \/ Receive \/ GapTimer \/ Fetched
         \/ UNCHANGED vars
  PROVE  SocketsRest
<1> USE DEF SocketsRest
<1>1. FeedTypes /\ SocketTypes /\ DownTypes /\ ClientTypes
  BY TypeParts
<1>2. ASSUME NEW w \in Workspaces, Push(w) PROVE SocketsRest
  <2>1. UNCHANGED <<link, accepted, ws>>
    BY <1>2 DEF Push, clientVars
  <2>2. \A i \in Ids : entry'[i].sock = entry[i].sock /\ entry'[i].in = entry[i].in
    BY <1>1, <1>2, PushEffect DEF Kin
  <2>3. \A s \in Sockets : ~link[s] => down'[s] = down[s]
    BY <1>1, <1>2, PushEffect
  <2> QED
    BY <2>1, <2>2, <2>3
<1>3. ASSUME NEW w \in Workspaces, SwitchWorkspace(w) PROVE SocketsRest
  <2>1. UNCHANGED <<link, accepted, ws>> /\ down' = down
    BY <1>3 DEF SwitchWorkspace, wire, clientVars
  <2>2. \A i \in Ids : entry'[i].sock = entry[i].sock /\ entry'[i].in = entry[i].in
    BY <1>1, <1>3, SwitchEffect
  <2> QED
    BY <2>1, <2>2
<1>4. ASSUME NEW i \in Ids, Forget(i) PROVE SocketsRest
  <2>1. UNCHANGED <<link, accepted, ws>> /\ down' = down
    BY <1>4 DEF Forget, wire, clientVars
  <2>2. entry[i].sock = None /\ entry'[i].sock = None /\ \A j \in Ids \ {i} : entry'[j] = entry[j]
    BY <1>1, <1>4, ForgetEffect DEF Wiring, Active, Retained
  <2> QED
    BY <2>1, <2>2
<1>5. ASSUME NEW n \in Events, SequenceAck(n) PROVE SocketsRest
  <2>1. UNCHANGED <<link, accepted, ws>> /\ down' = down
    BY <1>5 DEF SequenceAck, wire, clientVars
  <2>2. \A i \in Ids : entry'[i].sock = entry[i].sock /\ entry'[i].in = entry[i].in
    BY <1>1, <1>5, SequenceAckEffect DEF Kin
  <2> QED
    BY <2>1, <2>2
<1>6. ASSUME NEW type, Received(type), down' = [down EXCEPT ![ws] = Tail(@)], UNCHANGED <<link, accepted, ws, entry>>
      PROVE  SocketsRest
  <2>1. ws \in Sockets /\ link[ws]
    BY <1>1, <1>6, ReceivedFacts DEF Wiring, Received
  <2>2. \A s \in Sockets \ {ws} : down'[s] = down[s]
    BY <1>1, <1>6, TakenFromTheWire
  <2> QED
    BY <1>6, <2>1, <2>2
<1>7. CASE Welcome
  BY <1>6, <1>7 DEF Welcome, serverVars
<1>8. CASE Receive
  BY <1>6, <1>8 DEF Receive, serverVars
<1>9. CASE GapTimer \/ Fetched \/ UNCHANGED vars
  BY <1>9 DEF GapTimer, Fetched, vars, serverVars, wire, clientVars
<1> QED
  BY <1>2, <1>3, <1>4, <1>5, <1>7, <1>8, <1>9

LEMMA SettledKeepsWiring ==
  ASSUME TypeInv, Wiring, NEW s \in Sockets, Settled(s), NEW i \in Ids,
         entry'[i].in = "clients", entry'[i].sock = Held(s), \A j \in Ids \ {i} : entry'[j] = entry[j],
         NEW msgs, down' = Sent(s, msgs)
  PROVE  Wiring'
<1>1. SocketTypes /\ DownTypes
  BY TypeParts
<1>2. /\ accepted[s] \in {"checking", "closed"} /\ UNCHANGED <<link, ws>>
      /\ accepted'[s] = (IF accepted[s] = "closed" THEN "no" ELSE "ready")
      /\ \A r \in Sockets \ {s} : accepted'[r] = accepted[r]
  BY <1>1 DEF Settled, SocketTypes, clientVars
<1>3. \A r \in Sockets : ~link[r] => down'[r] = down[r]
  BY <1>1 DEF Sent, DownTypes
<1>4. \A j \in Ids : entry[j].sock # s
  BY <1>2, Bounds DEF Wiring
<1>5. \A r \in Sockets : link'[r] => ws' = r /\ accepted'[r] \in {"open", "checking", "ready"}
  BY <1>2 DEF Wiring
<1>6. \A j \in Ids : entry'[j].sock # None => j \in Active' /\ accepted'[entry'[j].sock] = "ready"
  <2> SUFFICES ASSUME NEW j \in Ids, entry'[j].sock # None PROVE j \in Active' /\ accepted'[entry'[j].sock] = "ready"
    OBVIOUS
  <2>1. CASE j = i
    <3>1. accepted[s] # "closed" /\ entry'[j].sock = s
      BY <2>1 DEF Held
    <3> QED
      BY <1>2, <2>1, <3>1 DEF Active
  <2>2. CASE j # i
    <3>1. entry'[j] = entry[j] /\ entry[j].sock # s /\ entry[j].sock \in Sockets
      BY <1>4, <2>2, TypeParts, FeedTypesFacts, GoodIsClient
    <3> QED
      BY <1>2, <3>1 DEF Wiring, Active
  <2> QED
    BY <2>1, <2>2
<1>7. \A j, k \in Ids : entry'[j].sock # None /\ entry'[j].sock = entry'[k].sock => j = k
  BY <1>4 DEF Wiring, Held
<1> QED
  BY <1>2, <1>3, <1>5, <1>6, <1>7 DEF Wiring

LEMMA WiringNext ==
  ASSUME TypeInv, Wiring, [Next]_vars
  PROVE  Wiring'
<1>1. FeedTypes /\ SocketTypes /\ DownTypes /\ ClientTypes
  BY TypeParts
<1>2. ASSUME NEW s \in Sockets, Reconnect(s) PROVE Wiring'
  <2>1. Settled(s)
    BY <1>2 DEF Reconnect
  <2>2. PICK i \in Ids : /\ entry'[i].in = "clients" /\ entry'[i].sock = Held(s) /\ \A j \in Ids \ {i} : entry'[j] = entry[j]
                         /\ \E msgs : down' = Sent(s, msgs)
    BY <1>1, <1>2, ReconnectEffect, Zenon
  <2>3. PICK msgs : down' = Sent(s, msgs)
    BY <2>2
  <2> QED
    BY <2>1, <2>2, <2>3, SettledKeepsWiring
<1>3. ASSUME NEW s \in Sockets, Admit(s) PROVE Wiring'
  <2>1. Settled(s)
    BY <1>3 DEF Admit
  <2>2. PICK i \in Ids : /\ entry'[i].in = "clients" /\ entry'[i].sock = Held(s) /\ \A j \in Ids \ {i} : entry'[j] = entry[j]
                         /\ \E msgs : down' = Sent(s, msgs)
    BY <1>1, <1>3, AdmitEffect, Zenon
  <2>3. PICK msgs : down' = Sent(s, msgs)
    BY <2>2
  <2> QED
    BY <2>1, <2>2, <2>3, SettledKeepsWiring
<1>4. CASE Connect
  <2>1. UNCHANGED <<entry, down>> /\ ws = None
    BY <1>4 DEF Connect
  <2>2. \A r \in Sockets : ~link[r]
    BY <2>1, Bounds DEF Wiring
  <2>3. PICK s \in Sockets : /\ accepted[s] = "no" /\ ws' = s
                             /\ \/ link' = [link EXCEPT ![s] = TRUE] /\ accepted' = [accepted EXCEPT ![s] = "open"]
                                \/ UNCHANGED <<link, accepted>>
    BY <1>4 DEF Connect, Free
  <2>4. \A i \in Ids : entry[i].sock # s
    BY <2>3, Bounds DEF Wiring
  <2>5. \A i \in Ids : entry[i].sock \in Sockets \union {None}
    BY <1>1, FeedTypesFacts, GoodIsClient
  <2>6. \A i \in Ids : entry'[i].sock # None => i \in Active' /\ accepted'[entry'[i].sock] = "ready"
    BY <1>1, <2>1, <2>3, <2>4, <2>5 DEF Wiring, Active, SocketTypes
  <2>7. \A r \in Sockets : link'[r] => ws' = r /\ accepted'[r] \in {"open", "checking", "ready"}
    BY <1>1, <2>2, <2>3 DEF SocketTypes
  <2>8. \A r \in Sockets : ~link'[r] => down'[r] = <<>>
    BY <2>1, <2>2 DEF Wiring
  <2> QED
    BY <2>1, <2>6, <2>7, <2>8 DEF Wiring
<1>5. CASE ClientClose
  <2>1. ws' = None /\ ~link[ws] /\ UNCHANGED <<link, accepted, entry, down>>
    BY <1>5 DEF ClientClose, serverVars, wire
  <2>2. \A r \in Sockets : ~link[r]
    BY <2>1 DEF Wiring
  <2> QED
    BY <2>1, <2>2 DEF Wiring, Active
<1>6. ASSUME NEW s \in Sockets, Handshake(s) PROVE Wiring'
  <2>1. accepted[s] = "open" /\ accepted' = [accepted EXCEPT ![s] = "checking"] /\ UNCHANGED <<entry, link, down, ws>>
    BY <1>6 DEF Handshake, wire, clientVars
  <2>2. \A i \in Ids : entry[i].sock # s
    BY <2>1, Bounds DEF Wiring
  <2> QED
    BY <1>1, <2>1, <2>2 DEF Wiring, Active, SocketTypes
<1>7. ASSUME NEW s \in Sockets, Break(s) PROVE Wiring'
  <2>1. /\ link' = [link EXCEPT ![s] = FALSE] /\ down' = [down EXCEPT ![s] = <<>>]
        /\ UNCHANGED <<entry, accepted, ws>>
    BY <1>7 DEF Break, serverVars, clientVars
  <2> QED
    BY <1>1, <2>1 DEF Wiring, Active, SocketTypes, DownTypes
<1>8. ASSUME NEW s \in Sockets, ServerClose(s) PROVE Wiring'
  <2>1. /\ ~link[s] /\ UNCHANGED <<link, down, ws>> /\ \A r \in Sockets \ {s} : accepted'[r] = accepted[r]
    BY <1>1, <1>8 DEF ServerClose, SocketTypes, wire, clientVars
  <2>2. \A i \in Ids : \/ entry'[i].sock = None
                       \/ entry'[i] = entry[i] /\ ~(i \in Active /\ entry[i].sock = s)
    BY <1>1, <1>8, ServerCloseEffect
  <2>3. \A i \in Ids : entry'[i].sock # None => entry'[i] = entry[i] /\ entry[i].sock # s
    BY <2>2 DEF Wiring
  <2>4. \A i \in Ids : entry[i].sock \in Sockets \union {None}
    BY <1>1, FeedTypesFacts, GoodIsClient
  <2>5. \A i \in Ids : entry'[i].sock # None => i \in Active' /\ accepted'[entry'[i].sock] = "ready"
    BY <2>1, <2>3, <2>4 DEF Wiring, Active
  <2>6. \A i, j \in Ids : entry'[i].sock # None /\ entry'[i].sock = entry'[j].sock => i = j
    BY <2>3 DEF Wiring
  <2> QED
    BY <2>1, <2>5, <2>6 DEF Wiring
<1>9. CASE Restart
  <2>1. /\ link' = [s \in Sockets |-> FALSE] /\ down' = [s \in Sockets |-> <<>>]
    BY <1>9 DEF Restart
  <2>2. \A i \in Ids : entry'[i].sock = None
    <3> SUFFICES ASSUME NEW i \in Ids PROVE entry'[i].sock = None
      OBVIOUS
    <3>1. CASE entry[i].in = "none"
      BY <1>1, <1>9, <3>1, RestartEffect DEF Wiring, Active
    <3>2. CASE entry[i].in # "none"
      BY <1>1, <1>9, <3>2, RestartEffect
    <3> QED
      BY <3>1, <3>2
  <2> QED
    BY <2>1, <2>2 DEF Wiring
<1>10. CASE SocketsRest
  BY <1>10, RestKeepsWiring
<1> QED
  BY <1>2, <1>3, <1>4, <1>5, <1>6, <1>7, <1>8, <1>9, <1>10, SocketsRestCases, StepCases, Zenon DEF Elsewhere

----------------------------------------------------------------------------
(* What the buffers hold. *)

\* A buffer holds events that were pushed, in the order they were pushed in.
Buffers ==
  \A i \in Ids :
    /\ \A q, x : Holds(entry[i], q, x) => x \in DOMAIN log
    /\ \A q, x, r, y : Holds(entry[i], q, x) /\ Holds(entry[i], r, y) /\ q < r => x < y

\* What a step may do to one client's buffer: nothing, drop its oldest events, take the event pushed
\* last, or lose all of it.
Emptied(f) == f.sent = 0 /\ f.buffer = <<>>

LEMMA EmptiedHoldsNothing ==
  ASSUME NEW f, Emptied(f)
  PROVE  \A q, x : ~Holds(f, q, x)
BY DEF Emptied, Holds, Floor

LEMMA SameFeedTrims ==
  ASSUME NEW e, NEW f, IsClient(e), SameFeed(e, f)
  PROVE  Trimmed(e, f)
<1>1. Trimmed(e, e)
  BY TrimmedSame
<1>2. Floor(f) = Floor(e) /\ \A q, x : Holds(f, q, x) <=> Holds(e, q, x)
  BY DEF SameFeed, Floor, Holds
<1> QED
  BY <1>1, <1>2 DEF Trimmed, SameFeed

LEMMA BufferMoves ==
  ASSUME TypeInv, [Next]_vars
  PROVE  \/ /\ Len(log) + 1 \in Events /\ \E w \in Workspaces : Push(w) /\ log' = Append(log, w)
            /\ \A i \in Ids : Trimmed(entry[i], entry'[i]) \/ Grew(entry[i], entry'[i], Len(log) + 1)
         \/ /\ log' = log
            /\ \A i \in Ids : Trimmed(entry[i], entry'[i]) \/ Emptied(entry'[i])
<1> DEFINE Moves == log' = log /\ \A i \in Ids : Trimmed(entry[i], entry'[i]) \/ Emptied(entry'[i])
<1>1. FeedTypes /\ SocketTypes /\ DownTypes /\ ClientTypes
  BY TypeParts
<1>2. \A i \in Ids : IsClient(entry[i]) /\ Trimmed(entry[i], entry[i])
  BY <1>1, FeedTypesFacts, TrimmedSame
<1>3. ASSUME NEW w \in Workspaces, Push(w)
      PROVE  /\ Len(log) + 1 \in Events /\ log' = Append(log, w)
             /\ \A i \in Ids : Trimmed(entry[i], entry'[i]) \/ Grew(entry[i], entry'[i], Len(log) + 1)
  <2>1. Len(log) + 1 \in Events /\ log' = Append(log, w)
        /\ \A i \in Ids : \/ Grew(entry[i], entry'[i], Len(log) + 1)
                          \/ entry'[i] = entry[i]
    BY <1>1, <1>3, PushEffect, Zenon
  <2> QED
    BY <1>2, <2>1, Zenon
<1>4. ASSUME log' = log, NEW i \in Ids, \A j \in Ids \ {i} : entry'[j] = entry[j],
             Trimmed(entry[i], entry'[i]) \/ Emptied(entry'[i])
      PROVE  Moves
  BY <1>2, <1>4
<1>5. ASSUME NEW w \in Workspaces, SwitchWorkspace(w) PROVE Moves
  <2>1. log' = log
    BY <1>5 DEF SwitchWorkspace
  <2>2. clientId \in Ids /\ \A j \in Ids \ {clientId} : entry'[j] = entry[j]
    BY <1>1, <1>5, SwitchEffect, Zenon
  <2>3. Trimmed(entry[clientId], entry'[clientId])
    BY <1>1, <1>2, <1>5, <2>2, SwitchEffect, SameFeedTrims
  <2> HIDE DEF Moves
  <2> QED
    BY <1>4, <2>1, <2>2, <2>3
<1>6. ASSUME NEW i \in Ids, Forget(i) PROVE Moves
  <2>1. log' = log
    BY <1>6 DEF Forget
  <2>2. Emptied(entry'[i]) /\ \A j \in Ids \ {i} : entry'[j] = entry[j]
    BY <1>1, <1>6, ForgetEffect DEF Emptied
  <2> HIDE DEF Moves
  <2> QED
    BY <1>4, <2>1, <2>2
<1>7. ASSUME NEW s \in Sockets, Reconnect(s) PROVE Moves
  <2>1. log' = log
    BY <1>7 DEF Reconnect, Settled
  <2>2. hello[s].id \in Ids /\ Trimmed(entry[hello[s].id], entry'[hello[s].id])
        /\ \A j \in Ids \ {hello[s].id} : entry'[j] = entry[j]
    BY <1>1, <1>7, ReconnectEffect, Zenon
  <2> HIDE DEF Moves
  <2> QED
    BY <1>4, <2>1, <2>2
<1>8. ASSUME NEW s \in Sockets, Admit(s) PROVE Moves
  <2>1. log' = log
    BY <1>8 DEF Admit, Settled
  <2>2. \E i \in Ids : Emptied(entry'[i]) /\ \A j \in Ids \ {i} : entry'[j] = entry[j]
    BY <1>1, <1>8, AdmitEffect, Zenon DEF Emptied
  <2> HIDE DEF Moves
  <2> QED
    BY <1>4, <2>1, <2>2
<1>9. ASSUME NEW s \in Sockets, ServerClose(s) PROVE Moves
  <2>1. log' = log
    BY <1>9 DEF ServerClose
  <2>2. \A i \in Ids : SameFeed(entry[i], entry'[i])
    BY <1>1, <1>9, ServerCloseEffect, Zenon
  <2> QED
    BY <1>2, <2>1, <2>2, SameFeedTrims
<1>10. ASSUME Restart PROVE Moves
  <2>1. log' = log
    BY <1>10 DEF Restart
  <2>2. \A i \in Ids : entry'[i] = entry[i] \/ Emptied(entry'[i])
    BY <1>1, <1>10, RestartEffect DEF Emptied
  <2> QED
    BY <1>2, <2>1, <2>2
<1>11. ASSUME NEW n \in Events, SequenceAck(n) PROVE Moves
  <2>1. log' = log
    BY <1>11 DEF SequenceAck
  <2>2. clientId \in Ids /\ Trimmed(entry[clientId], entry'[clientId]) /\ \A j \in Ids \ {clientId} : entry'[j] = entry[j]
    BY <1>1, <1>11, SequenceAckEffect, Zenon
  <2> HIDE DEF Moves
  <2> QED
    BY <1>4, <2>1, <2>2
<1>12. ASSUME Elsewhere PROVE Moves
  BY <1>2, <1>12, ElsewhereKeeps
<1> HIDE DEF Moves
<1>13. (\E w \in Workspaces : Push(w)) \/ Moves
  BY <1>5, <1>6, <1>7, <1>8, <1>9, <1>10, <1>11, <1>12, StepCases, Zenon
<1> QED
  BY <1>3, <1>13, Zenon DEF Moves

LEMMA PushedLog ==
  ASSUME FeedTypes, NEW w \in Workspaces, log' = Append(log, w)
  PROVE  /\ DOMAIN log' = DOMAIN log \union {Len(log) + 1} /\ log'[Len(log) + 1] = w
         /\ \A x \in DOMAIN log : x < Len(log) + 1 /\ log'[x] = log[x] /\ x \in Nat
<1>1. log \in Seq(Workspaces) /\ Len(log) \in Nat /\ DOMAIN log = 1 .. Len(log)
  BY FeedTypesFacts DEF FeedTypes
<1>2. /\ log' \in Seq(Workspaces) /\ Len(log') = Len(log) + 1 /\ log'[Len(log) + 1] = w
      /\ \A k \in 1 .. Len(log) : log'[k] = log[k]
  BY <1>1, AppendProperties
<1>3. DOMAIN log' = 1 .. Len(log) + 1
  BY <1>2, LenProperties
<1> QED
  BY <1>1, <1>2, <1>3

LEMMA BuffersInit ==
  ASSUME Init
  PROVE  Buffers
<1>1. \A i \in Ids : Emptied(entry[i])
  BY DEF Init, Unused, Emptied
<1> QED
  BY <1>1, EmptiedHoldsNothing DEF Buffers

LEMMA BuffersNext ==
  ASSUME TypeInv, Buffers, [Next]_vars
  PROVE  Buffers'
<1>1. FeedTypes
  BY TypeParts
<1> SUFFICES ASSUME NEW i \in Ids
             PROVE  /\ \A q, x : Holds(entry'[i], q, x) => x \in DOMAIN log'
                    /\ \A q, x, r, y : Holds(entry'[i], q, x) /\ Holds(entry'[i], r, y) /\ q < r => x < y
  BY DEF Buffers
<1> DEFINE e == entry[i]
           f == entry'[i]
           event == Len(log) + 1
<1>2. \A q, x : Holds(e, q, x) => x \in DOMAIN log
  BY DEF Buffers
<1>3. \A q, x, r, y : Holds(e, q, x) /\ Holds(e, r, y) /\ q < r => x < y
  BY DEF Buffers
<1>4. DOMAIN log \subseteq DOMAIN log'
  BY <1>1, BufferMoves, PushedLog
<1>5. CASE Emptied(f)
  BY <1>5, EmptiedHoldsNothing
<1>6. CASE Trimmed(e, f)
  <2>1. \A q, x : Holds(f, q, x) => Holds(e, q, x)
    BY <1>6 DEF Trimmed
  <2> QED
    BY <1>2, <1>3, <1>4, <2>1
<1>7. CASE Grew(e, f, event) /\ \E w \in Workspaces : log' = Append(log, w)
  <2>1. event \in DOMAIN log' /\ \A x \in DOMAIN log : x < event
    BY <1>1, <1>7, PushedLog
  <2>2. \A q, x : Holds(f, q, x) => Holds(e, q, x) \/ (q = f.sent /\ x = event)
    BY <1>7 DEF Grew
  <2>3. \A q, x : Holds(f, q, x) => q \in Nat /\ q <= f.sent
    <3>1. f.sent \in Nat /\ Floor(f) \in Nat
      <4>1. FeedTypes'
        BY FeedTypesNext
      <4>2. Good(f)
        BY <4>1 DEF FeedTypes
      <4>3. f.sent \in Nat /\ Len(f.buffer) \in Nat /\ Len(f.buffer) <= f.sent
        BY <4>2, GoodIsClient DEF IsClient
      <4> QED
        BY <4>3 DEF Floor
    <3> QED
      BY <3>1 DEF Holds
  <2> HIDE DEF e, f, event
  <2>4. \A q, x : Holds(f, q, x) => x \in DOMAIN log'
    BY <1>2, <1>4, <2>1, <2>2
  <2>5. ASSUME NEW q, NEW x, NEW r, NEW y, Holds(f, q, x), Holds(f, r, y), q < r PROVE x < y
    <3>1. q # f.sent
      <4>1. q \in Nat /\ r \in Nat /\ r <= f.sent
        BY <2>3, <2>5
      <4> QED
        BY <4>1, <2>5
    <3>2. Holds(e, q, x)
      BY <2>2, <2>5, <3>1
    <3>3. CASE Holds(e, r, y)
      BY <1>3, <2>5, <3>2, <3>3
    <3>4. CASE y = event
      BY <1>2, <2>1, <3>2, <3>4
    <3> QED
      BY <2>2, <2>5, <3>3, <3>4
  <2> QED
    BY <2>4, <2>5 DEF f
<1> QED
  BY <1>5, <1>6, <1>7, BufferMoves, Zenon

----------------------------------------------------------------------------
(* What is on the way to the window. *)

\* Nothing is on the way on a connection whose handshake is not through.
Idle == \A s \in Sockets : accepted[s] # "ready" => down[s] = <<>>

LEMMA IdleNext ==
  ASSUME TypeInv, Wiring, Idle, [Next]_vars
  PROVE  Idle'
<1> USE DEF Idle
<1>1. FeedTypes /\ SocketTypes /\ DownTypes /\ ClientTypes
  BY TypeParts
<1>2. ASSUME \A s \in Sockets : down'[s] = down[s] /\ (accepted'[s] = accepted[s] \/ down[s] = <<>>) PROVE Idle'
  BY <1>2
<1>3. ASSUME NEW w \in Workspaces, Push(w) PROVE Idle'
  <2>1. accepted' = accepted
    BY <1>3 DEF Push
  <2>2. \A s \in Sockets : down'[s] = down[s] \/ \E i \in Active : entry[i].sock = s
    BY <1>1, <1>3, PushEffect
  <2> QED
    BY <2>1, <2>2, Bounds DEF Wiring, Active
<1>4. ASSUME NEW s \in Sockets, Settled(s), NEW msgs, down' = Sent(s, msgs) PROVE Idle'
  <2>1. /\ accepted[s] \in {"checking", "closed"} /\ accepted'[s] = (IF accepted[s] = "closed" THEN "no" ELSE "ready")
        /\ \A r \in Sockets \ {s} : accepted'[r] = accepted[r]
    BY <1>1, <1>4 DEF Settled, SocketTypes
  <2>2. \A r \in Sockets : down'[r] = down[r] \/ (r = s /\ link[s])
    BY <1>1, <1>4 DEF Sent, DownTypes
  <2>3. link[s] => accepted[s] # "closed"
    BY DEF Wiring
  <2> QED
    BY <2>1, <2>2, <2>3
<1>5. ASSUME NEW s \in Sockets, Reconnect(s) PROVE Idle'
  <2>1. Settled(s) /\ \E msgs : down' = Sent(s, msgs)
    BY <1>1, <1>5, ReconnectEffect, Zenon DEF Reconnect
  <2> QED
    BY <1>4, <2>1
<1>6. ASSUME NEW s \in Sockets, Admit(s) PROVE Idle'
  <2>1. Settled(s) /\ \E msgs : down' = Sent(s, msgs)
    BY <1>1, <1>6, AdmitEffect, Zenon DEF Admit
  <2> QED
    BY <1>4, <2>1
<1>7. ASSUME NEW s \in Sockets, Handshake(s) PROVE Idle'
  BY <1>1, <1>7 DEF Handshake, SocketTypes, wire
<1>8. ASSUME NEW s \in Sockets, Break(s) PROVE Idle'
  BY <1>1, <1>8 DEF Break, DownTypes, serverVars
<1>9. ASSUME NEW s \in Sockets, ServerClose(s) PROVE Idle'
  <2>1. ~link[s] /\ down' = down /\ \A r \in Sockets \ {s} : accepted'[r] = accepted[r]
    BY <1>1, <1>9 DEF ServerClose, SocketTypes, wire
  <2> QED
    BY <2>1 DEF Wiring
<1>10. CASE Restart
  BY <1>10 DEF Restart
<1>11. CASE Connect
  <2>1. down' = down /\ \A s \in Sockets : accepted'[s] = accepted[s] \/ accepted[s] = "no"
    BY <1>1, <1>11 DEF Connect, SocketTypes, Free
  <2> QED
    BY <2>1
<1>12. ASSUME NEW type, Received(type), down' = [down EXCEPT ![ws] = Tail(@)], accepted' = accepted PROVE Idle'
  <2>1. ws \in Sockets /\ down[ws] # <<>> /\ \A s \in Sockets \ {ws} : down'[s] = down[s]
    BY <1>1, <1>12, ReceivedFacts, TakenFromTheWire DEF Received
  <2> QED
    BY <1>12, <2>1
<1>13. CASE Welcome
  BY <1>12, <1>13 DEF Welcome, serverVars
<1>14. CASE Receive
  BY <1>12, <1>14 DEF Receive, serverVars
<1>15. CASE \/ \E w \in Workspaces : SwitchWorkspace(w)
            \/ \E i \in Ids : Forget(i)
            \/ \E n \in Events : SequenceAck(n)
            \/ ClientClose \/ GapTimer \/ Fetched \/ UNCHANGED vars
  BY <1>15 DEF SwitchWorkspace, Forget, SequenceAck, ClientClose, GapTimer, Fetched, vars, serverVars, wire
<1> QED
  BY <1>3, <1>5, <1>6, <1>7, <1>8, <1>9, <1>10, <1>11, <1>13, <1>14, <1>15, StepCases, Zenon DEF Elsewhere

\* The events on a connection bear the last numbers its client was sent, in order; those the client's
\* buffer still reaches back to are the ones it holds.
Aligned(e, msgs) ==
  /\ \A k \in 1 .. Len(msgs) : msgs[k].type = "event" =>
       /\ msgs[k].seq = e.sent - Len(msgs) + k
       /\ msgs[k].seq > Floor(e) => Holds(e, msgs[k].seq, msgs[k].event)
  /\ \A k, l \in 1 .. Len(msgs) :
       msgs[k].type = "event" /\ msgs[l].type = "event" /\ k < l => msgs[k].event < msgs[l].event

Known(msgs, known) == \A k \in 1 .. Len(msgs) : msgs[k].type = "event" => msgs[k].event \in known

Flight ==
  /\ \A s \in Sockets : Known(down[s], DOMAIN log)
  /\ \A i \in Ids : entry[i].sock # None => Aligned(entry[i], down[entry[i].sock])

LEMMA AlignedTrimmed ==
  ASSUME NEW e, NEW f, NEW msgs \in Seq(Messages), IsClient(e), IsClient(f), Trimmed(e, f), Aligned(e, msgs)
  PROVE  Aligned(f, msgs)
<1>1. Floor(e) \in Int /\ Floor(f) \in Int /\ Floor(e) <= Floor(f) /\ f.sent = e.sent
  BY DEF IsClient, Trimmed, Floor
<1>2. ASSUME NEW k \in 1 .. Len(msgs), msgs[k].type = "event"
      PROVE  /\ msgs[k].seq = f.sent - Len(msgs) + k
             /\ msgs[k].seq > Floor(f) => Holds(f, msgs[k].seq, msgs[k].event)
  <2>1. msgs[k].seq \in Int
    <3>1. msgs[k] \in Messages
      BY ElementOfSeq
    <3>2. msgs[k].seq \in Events
      BY <1>2, <3>1, MessageFields
    <3> QED
      BY <3>2, Bounds DEF Events
  <2>2. msgs[k].seq = e.sent - Len(msgs) + k /\ (msgs[k].seq > Floor(e) => Holds(e, msgs[k].seq, msgs[k].event))
    BY <1>2 DEF Aligned
  <2>3. msgs[k].seq > Floor(f) => msgs[k].seq > Floor(e)
    BY <1>1, <2>1
  <2> QED
    BY <1>1, <2>2, <2>3 DEF Trimmed
<1>3. \A k, l \in 1 .. Len(msgs) :
       msgs[k].type = "event" /\ msgs[l].type = "event" /\ k < l => msgs[k].event < msgs[l].event
  BY DEF Aligned
<1> QED
  BY <1>2, <1>3 DEF Aligned

LEMMA AlignedTail ==
  ASSUME NEW e, IsClient(e), NEW msgs \in Seq(Messages), Len(msgs) > 0, Aligned(e, msgs),
         NEW rest \in Seq(Messages), Len(rest) = Len(msgs) - 1, \A k \in 1 .. Len(msgs) - 1 : rest[k] = msgs[k + 1]
  PROVE  Aligned(e, rest)
<1>1. Len(msgs) \in Nat /\ Len(rest) \in Nat /\ e.sent \in Nat
  BY LenProperties DEF IsClient
<1>2. \A k \in 1 .. Len(rest) : k + 1 \in 1 .. Len(msgs) /\ rest[k] = msgs[k + 1]
  BY <1>1
<1>3. ASSUME NEW k \in 1 .. Len(rest), rest[k].type = "event"
      PROVE  /\ rest[k].seq = e.sent - Len(rest) + k
             /\ rest[k].seq > Floor(e) => Holds(e, rest[k].seq, rest[k].event)
  <2>1. /\ msgs[k + 1].seq = e.sent - Len(msgs) + (k + 1)
        /\ msgs[k + 1].seq > Floor(e) => Holds(e, msgs[k + 1].seq, msgs[k + 1].event)
    BY <1>2, <1>3 DEF Aligned
  <2>2. e.sent - Len(msgs) + (k + 1) = e.sent - Len(rest) + k
    <3> DEFINE m == Len(msgs)
               n == Len(rest)
               sent == e.sent
    <3>1. m \in Nat /\ n \in Nat /\ sent \in Nat /\ n = m - 1 /\ k \in Nat
      BY <1>1
    <3> HIDE DEF m, n, sent
    <3>2. sent - m + (k + 1) = sent - n + k
      BY <3>1
    <3> QED
      BY <3>2 DEF m, n, sent
  <2> QED
    BY <1>2, <2>1, <2>2
<1>4. ASSUME NEW k \in 1 .. Len(rest), NEW l \in 1 .. Len(rest), rest[k].type = "event", rest[l].type = "event", k < l
      PROVE  rest[k].event < rest[l].event
  <2>1. k + 1 < l + 1
    BY <1>1, <1>4
  <2> QED
    BY <1>2, <1>4, <2>1 DEF Aligned
<1> QED
  BY <1>3, <1>4 DEF Aligned

LEMMA AlignedAppend ==
  ASSUME NEW e, NEW f, NEW event \in Events, IsClient(e), IsClient(f), Grew(e, f, event),
         NEW msgs \in Seq(Messages), Aligned(e, msgs),
         \A k \in 1 .. Len(msgs) : msgs[k].type = "event" => msgs[k].event < event
  PROVE  Aligned(f, Append(msgs, Event(e.sent + 1, event)))
<1> DEFINE more == Append(msgs, Event(e.sent + 1, event))
           len == Len(msgs)
<1>1. len \in Nat /\ e.sent \in Nat /\ f.sent = e.sent + 1
  BY LenProperties DEF IsClient, Grew
<1>2. Len(more) = len + 1 /\ more[len + 1] = Event(e.sent + 1, event) /\ \A k \in 1 .. len : more[k] = msgs[k]
  BY <1>1
<1> HIDE DEF more
<1>3. Floor(e) \in Int /\ Floor(f) \in Int /\ Floor(e) <= Floor(f)
  BY DEF IsClient, Grew, Floor
<1>4. ASSUME NEW k \in 1 .. len + 1, more[k].type = "event"
      PROVE  /\ more[k].seq = f.sent - (len + 1) + k
             /\ more[k].seq > Floor(f) => Holds(f, more[k].seq, more[k].event)
  <2>1. CASE k = len + 1
    <3>1. more[k].seq = f.sent /\ more[k].event = event
      BY <1>1, <1>2, <2>1 DEF Event
    <3>2. f.sent > Floor(f) => Holds(f, f.sent, event)
      BY DEF Grew
    <3>3. f.sent - (len + 1) + k = f.sent
      BY <1>1, <2>1
    <3> QED
      BY <3>1, <3>2, <3>3
  <2>2. CASE k # len + 1
    <3>1. k \in 1 .. len /\ more[k] = msgs[k]
      BY <1>1, <1>2, <2>2
    <3>2. /\ msgs[k].seq = e.sent - len + k
          /\ msgs[k].seq > Floor(e) => Holds(e, msgs[k].seq, msgs[k].event)
      BY <1>4, <3>1 DEF Aligned
    <3>3. e.sent - len + k = f.sent - (len + 1) + k /\ e.sent - len + k \in Int
      BY SMTT(20), <1>1
    <3>4. msgs[k].seq > Floor(f) => msgs[k].seq > Floor(e)
      BY <1>3, <3>2, <3>3
    <3> QED
      BY <3>1, <3>2, <3>3, <3>4 DEF Grew
  <2> QED
    BY <2>1, <2>2
<1>5. ASSUME NEW k \in 1 .. len + 1, NEW l \in 1 .. len + 1, more[k].type = "event", more[l].type = "event", k < l
      PROVE  more[k].event < more[l].event
  <2>1. k \in 1 .. len /\ more[k] = msgs[k]
    BY <1>1, <1>2, <1>5
  <2>2. CASE l = len + 1
    BY <1>2, <1>5, <2>1, <2>2 DEF Event
  <2>3. CASE l # len + 1
    <3>1. l \in 1 .. len /\ more[l] = msgs[l]
      BY <1>1, <1>2, <2>3
    <3> QED
      BY <1>5, <2>1, <3>1 DEF Aligned
  <2> QED
    BY <2>2, <2>3
<1>6. Aligned(f, more)
  BY <1>2, <1>4, <1>5 DEF Aligned
<1> QED
  BY <1>6 DEF more

LEMMA AlignedEmpty ==
  ASSUME NEW e
  PROVE  Aligned(e, <<>>)
<1>1. \A k \in 1 .. Len(<<>>) : FALSE
  OBVIOUS
<1> QED
  BY <1>1, Zenon DEF Aligned

LEMMA AlignedReplay ==
  ASSUME NEW i, NEW lastSeq, NEW stale, NEW missed, NEW msgs, Replay(msgs, i, lastSeq, stale, missed),
         IsClient(entry'[i]), Buffers', i \in Ids
  PROVE  Aligned(entry'[i], msgs) /\ Known(msgs, DOMAIN log')
<1> DEFINE f == entry'[i]
<1>1. missed \in Nat /\ Len(msgs) = missed + 1 /\ f.sent \in Nat /\ msgs[1].type = "ack"
  BY DEF Replay, IsClient, Acknowledgement
<1>2. ASSUME NEW k \in 1 .. Len(msgs), msgs[k].type = "event"
      PROVE  k \in 2 .. missed + 1 /\ \E x : msgs[k] = Event(f.sent - Len(msgs) + k, x) /\ Holds(f, f.sent - Len(msgs) + k, x)
  <2>1. k \in 2 .. missed + 1
    BY <1>1, <1>2
  <2>2. \E x : msgs[k] = Event(f.sent - (missed + 1) + k, x) /\ Holds(f, f.sent - (missed + 1) + k, x)
    BY <2>1, Zenon DEF Replay
  <2> QED
    BY <1>1, <2>1, <2>2, Zenon
<1>3. \A k \in 1 .. Len(msgs) : msgs[k].type = "event" =>
        /\ msgs[k].seq = f.sent - Len(msgs) + k /\ Holds(f, msgs[k].seq, msgs[k].event)
  <2> SUFFICES ASSUME NEW k \in 1 .. Len(msgs), msgs[k].type = "event"
               PROVE  msgs[k].seq = f.sent - Len(msgs) + k /\ Holds(f, msgs[k].seq, msgs[k].event)
    OBVIOUS
  <2> DEFINE q == f.sent - Len(msgs) + k
  <2>1. PICK x : msgs[k] = Event(q, x) /\ Holds(f, q, x)
    BY <1>2
  <2> HIDE DEF q
  <2>2. msgs[k].seq = q /\ msgs[k].event = x
    BY <2>1 DEF Event
  <2> QED
    BY <2>1, <2>2 DEF q
<1>4. \A k \in 1 .. Len(msgs) : msgs[k].type = "event" => msgs[k].event \in DOMAIN log'
  BY <1>3 DEF Buffers
<1>5. ASSUME NEW k \in 1 .. Len(msgs), NEW l \in 1 .. Len(msgs), msgs[k].type = "event", msgs[l].type = "event", k < l
      PROVE  msgs[k].event < msgs[l].event
  <2> DEFINE a == msgs[k]
             b == msgs[l]
  <2>1. a.seq = f.sent - Len(msgs) + k /\ b.seq = f.sent - Len(msgs) + l
        /\ Holds(f, a.seq, a.event) /\ Holds(f, b.seq, b.event)
    BY <1>3, <1>5
  <2> HIDE DEF a, b
  <2>2. a.seq < b.seq
    BY <1>1, <1>5, <2>1
  <2>3. a.event < b.event
    BY <2>1, <2>2 DEF Buffers
  <2> QED
    BY <2>3 DEF a, b
<1> QED
  BY <1>3, <1>4, <1>5 DEF Aligned, Known

LEMMA FlightInit ==
  ASSUME Init
  PROVE  Flight
<1>1. \A i \in Ids : entry[i].sock = None
  BY DEF Init, Unused
<1>2. \A s \in Sockets : Known(down[s], DOMAIN log)
  <2> SUFFICES ASSUME NEW s \in Sockets PROVE Known(<<>>, DOMAIN log)
    BY DEF Init
  <2>1. \A k \in 1 .. Len(<<>>) : FALSE
    OBVIOUS
  <2> QED
    BY <2>1, Zenon DEF Known
<1> QED
  BY <1>1, <1>2 DEF Flight

\* The steps that send nothing and leave what the socket of each client carries aligned with its buffer.
LEMMA FlightRests ==
  ASSUME TypeInv, Flight, FeedTypes', down' = down, log' = log,
         \A i \in Ids : entry'[i].sock # None => entry'[i].sock = entry[i].sock /\ Trimmed(entry[i], entry'[i])
  PROVE  Flight'
<1>1. \A i \in Ids : IsClient(entry[i]) /\ entry[i].sock \in Sockets \union {None}
  BY TypeParts, FeedTypesFacts, GoodIsClient
<1>2. \A i \in Ids : IsClient(entry'[i])
  BY GoodIsClient DEF FeedTypes
<1>3. ASSUME NEW i \in Ids, entry'[i].sock # None PROVE Aligned(entry'[i], down'[entry'[i].sock])
  <2> DEFINE s == entry[i].sock
             msgs == down[s]
  <2>1. s \in Sockets /\ s # None /\ entry'[i].sock = s
    BY <1>1, <1>3
  <2>2. msgs \in Seq(Messages) /\ Aligned(entry[i], msgs)
    BY <2>1, TypeParts DEF Flight, DownTypes
  <2> HIDE DEF msgs
  <2>3. Aligned(entry'[i], msgs)
    BY <1>1, <1>2, <1>3, <2>2, AlignedTrimmed
  <2> QED
    BY <2>1, <2>3, Zenon DEF msgs
<1>4. \A s \in Sockets : Known(down'[s], DOMAIN log')
  BY DEF Flight
<1> QED
  BY <1>3, <1>4, Zenon DEF Flight

LEMMA FlightPush ==
  ASSUME TypeInv, Wiring, Flight, FeedTypes', NEW w \in Workspaces, Push(w)
  PROVE  Flight'
<1> DEFINE event == Len(log) + 1
<1>1. FeedTypes /\ DownTypes
  BY TypeParts
<1>2. /\ event \in Events /\ log' = Append(log, w)
      /\ \A i \in Ids : /\ Kin(entry[i], entry'[i])
                        /\ Matches(i, w) => Grew(entry[i], entry'[i], event)
                        /\ ~Matches(i, w) => entry'[i] = entry[i]
      /\ \A s \in Sockets :
           \/ /\ link[s]
              /\ \E i \in Active : /\ Matches(i, w) /\ entry[i].sock = s
                                   /\ down'[s] = Append(down[s], Event(entry[i].sent + 1, event))
           \/ /\ down'[s] = down[s]
              /\ \A i \in Active : Matches(i, w) /\ entry[i].sock = s => ~link[s]
  BY <1>1, PushEffect, Zenon
<1>3. event \in DOMAIN log' /\ DOMAIN log \subseteq DOMAIN log' /\ \A x \in DOMAIN log : x < event
  BY <1>1, <1>2, PushedLog
<1>4. \A i \in Ids : IsClient(entry[i]) /\ IsClient(entry'[i]) /\ entry[i].sock \in Sockets \union {None}
  BY <1>1, FeedTypesFacts, GoodIsClient DEF FeedTypes
<1> HIDE DEF event
<1>5. ASSUME NEW s \in Sockets PROVE Known(down'[s], DOMAIN log')
  <2>1. down[s] \in Seq(Messages) /\ Known(down[s], DOMAIN log')
    BY <1>1, <1>3 DEF Flight, Known, DownTypes
  <2>2. CASE down'[s] = down[s]
    BY <2>1, <2>2
  <2>3. ASSUME NEW n, down'[s] = Append(down[s], Event(n, event)) PROVE Known(down'[s], DOMAIN log')
    <3> DEFINE msgs == down[s]
               m == Event(n, event)
    <3>1. m.event = event
      BY DEF Event
    <3> HIDE DEF m, msgs
    <3>2. down'[s] = Append(msgs, m) /\ msgs \in Seq(Messages) /\ Known(msgs, DOMAIN log')
      BY <2>1, <2>3 DEF m, msgs
    <3>3. Len(down'[s]) = Len(msgs) + 1 /\ Len(msgs) \in Nat
          /\ \A k \in 1 .. Len(msgs) + 1 : down'[s][k] = IF k = Len(msgs) + 1 THEN m ELSE msgs[k]
      BY <3>2
    <3> QED
      BY <1>3, <3>1, <3>2, <3>3 DEF Known
  <2> QED
    BY <1>2, <2>2, <2>3
<1>6. ASSUME NEW i \in Ids, entry'[i].sock # None PROVE Aligned(entry'[i], down'[entry'[i].sock])
  <2> DEFINE s == entry[i].sock
  <2>1. entry'[i].sock = s /\ s \in Sockets /\ s # None /\ i \in Active
    BY <1>2, <1>4, <1>6 DEF Kin, Wiring
  <2>2. down[s] \in Seq(Messages) /\ Aligned(entry[i], down[s]) /\ Known(down[s], DOMAIN log)
    BY <1>1, <2>1 DEF Flight, DownTypes
  <2>3. \A j \in Active : entry[j].sock = s => j = i
    BY <2>1 DEF Wiring, Active
  <2> HIDE DEF s
  <2>4. CASE Matches(i, w) /\ link[s]
    <3>1. down'[s] = Append(down[s], Event(entry[i].sent + 1, event))
      BY <1>2, <2>1, <2>3, <2>4 DEF s
    <3>2. \A k \in 1 .. Len(down[s]) : down[s][k].type = "event" => down[s][k].event < event
      BY <1>3, <2>2 DEF Known
    <3>3. Grew(entry[i], entry'[i], event)
      BY <1>2, <2>4
    <3>4. Aligned(entry'[i], Append(down[s], Event(entry[i].sent + 1, event)))
      BY <1>2, <1>4, <2>2, <3>2, <3>3, AlignedAppend
    <3> QED
      BY <2>1, <3>1, <3>4, Zenon
  <2>5. CASE ~link[s]
    <3>1. down'[s] = down[s] /\ down[s] = <<>>
      BY <1>2, <2>1, <2>5 DEF Wiring
    <3> QED
      BY <2>1, <3>1, AlignedEmpty
  <2>6. CASE ~Matches(i, w)
    <3>1. entry'[i] = entry[i]
      BY <1>2, <2>6
    <3>2. down'[s] = down[s]
      BY <1>2, <2>1, <2>3, <2>6
    <3> QED
      BY <2>1, <2>2, <3>1, <3>2
  <2> QED
    BY <2>4, <2>5, <2>6
<1> QED
  BY <1>5, <1>6, Zenon DEF Flight

LEMMA FlightSettled ==
  ASSUME TypeInv, Wiring, Idle, Flight, log' = log, NEW s \in Sockets, Settled(s),
         NEW i \in Ids, entry'[i].sock = Held(s), \A j \in Ids \ {i} : entry'[j] = entry[j],
         NEW msgs \in Seq(Messages), down' = Sent(s, msgs), Aligned(entry'[i], msgs), Known(msgs, DOMAIN log)
  PROVE  Flight'
<1>1. FeedTypes /\ SocketTypes /\ DownTypes
  BY TypeParts
<1>2. accepted[s] # "ready" /\ down[s] = <<>>
  BY DEF Settled, Idle
<1>3. \A j \in Ids : entry[j].sock # s /\ entry[j].sock \in Sockets \union {None}
  BY <1>1, <1>2, FeedTypesFacts, GoodIsClient, Bounds DEF Wiring
<1>4. <<>> \o msgs = msgs
  BY ConcatEmptySeq
<1>5. (down'[s] = msgs \/ down'[s] = <<>>) /\ \A r \in Sockets \ {s} : down'[r] = down[r]
  BY <1>1, <1>2, <1>4 DEF Sent, DownTypes
<1>6. ASSUME NEW r \in Sockets PROVE Known(down'[r], DOMAIN log')
  <2>1. Known(down[r], DOMAIN log)
    BY DEF Flight
  <2>2. CASE r = s
    <3>1. Known(down'[s], DOMAIN log)
      BY <1>2, <1>5, <2>1, <2>2
    <3> QED
      BY <2>2, <3>1
  <2>3. CASE r # s
    BY <1>5, <2>1, <2>3
  <2> QED
    BY <2>2, <2>3
<1>7. ASSUME NEW j \in Ids, entry'[j].sock # None PROVE Aligned(entry'[j], down'[entry'[j].sock])
  <2>1. CASE j = i
    <3>1. entry'[j].sock = s
      BY <1>7, <2>1 DEF Held
    <3>2. Aligned(entry'[i], down'[s])
      BY <1>5, AlignedEmpty
    <3> QED
      BY <2>1, <3>1, <3>2
  <2>2. CASE j # i
    <3>1. entry'[j] = entry[j] /\ entry[j].sock \in Sockets \ {s}
      BY <1>3, <1>7, <2>2
    <3>2. down'[entry[j].sock] = down[entry[j].sock]
      BY <1>5, <3>1
    <3> QED
      BY <1>7, <3>1, <3>2 DEF Flight
  <2> QED
    BY <2>1, <2>2
<1> QED
  BY <1>6, <1>7, Zenon DEF Flight

LEMMA FlightTaken ==
  ASSUME TypeInv, Wiring, Flight, log' = log, entry' = entry,
         NEW type, Received(type), down' = [down EXCEPT ![ws] = Tail(@)]
  PROVE  Flight'
<1>1. FeedTypes /\ DownTypes /\ ClientTypes
  BY TypeParts
<1> DEFINE msgs == down[ws]
           rest == Tail(msgs)
<1>2. /\ ws \in Sockets /\ msgs \in Seq(Messages) /\ Len(msgs) \in Nat /\ Len(msgs) > 0
      /\ rest \in Seq(Messages) /\ Len(rest) = Len(msgs) - 1 /\ \A k \in 1 .. Len(msgs) - 1 : rest[k] = msgs[k + 1]
  BY <1>1, ReceivedFacts
<1>3. down'[ws] = rest /\ \A s \in Sockets \ {ws} : down'[s] = down[s]
  BY <1>1, TakenFromTheWire
<1>4. Known(rest, DOMAIN log)
  <2>1. Known(msgs, DOMAIN log)
    BY <1>2 DEF Flight
  <2> HIDE DEF msgs, rest
  <2>2. \A k \in 1 .. Len(rest) : k + 1 \in 1 .. Len(msgs) /\ rest[k] = msgs[k + 1]
    BY <1>2
  <2> QED
    BY <2>1, <2>2 DEF Known
<1>5. \A s \in Sockets : Known(down'[s], DOMAIN log')
  BY <1>3, <1>4 DEF Flight
<1>6. ASSUME NEW i \in Ids, entry[i].sock # None PROVE Aligned(entry[i], down'[entry[i].sock])
  <2>1. entry[i].sock \in Sockets /\ IsClient(entry[i]) /\ Aligned(entry[i], down[entry[i].sock])
    BY <1>1, <1>6, FeedTypesFacts, GoodIsClient DEF Flight
  <2>2. CASE entry[i].sock = ws
    <3>1. Aligned(entry[i], msgs)
      BY <2>1, <2>2
    <3> HIDE DEF msgs, rest
    <3>2. Aligned(entry[i], rest)
      BY <1>2, <2>1, <3>1, AlignedTail
    <3> QED
      BY <1>3, <2>2, <3>2
  <2>3. CASE entry[i].sock # ws
    BY <1>3, <2>1, <2>3
  <2> QED
    BY <2>2, <2>3
<1> QED
  BY <1>5, <1>6, Zenon DEF Flight

LEMMA FlightNext ==
  ASSUME TypeInv, Wiring, Idle, Buffers, Flight, [Next]_vars
  PROVE  Flight'
<1>1. FeedTypes /\ SocketTypes /\ DownTypes /\ ClientTypes
  BY TypeParts
<1>2. FeedTypes' /\ Buffers'
  BY FeedTypesNext, BuffersNext
<1>3. \A i \in Ids : IsClient(entry[i]) /\ IsClient(entry'[i]) /\ Trimmed(entry[i], entry[i])
  BY <1>1, <1>2, FeedTypesFacts, TrimmedSame, GoodIsClient DEF FeedTypes
<1>4. ASSUME NEW w \in Workspaces, Push(w) PROVE Flight'
  BY <1>2, <1>4, FlightPush
<1>5. ASSUME NEW s \in Sockets, Reconnect(s) PROVE Flight'
  <2> DEFINE i == hello[s].id
  <2>1. i \in Ids /\ entry'[i].sock = Held(s) /\ \A j \in Ids \ {i} : entry'[j] = entry[j]
    BY <1>1, <1>5, ReconnectEffect, Zenon
  <2>2. PICK msgs, missed, stale : Replay(msgs, i, hello[s].lastSeq, stale, missed) /\ down' = Sent(s, msgs)
    BY <1>1, <1>5, ReconnectEffect, Zenon
  <2>3. Settled(s) /\ log' = log
    BY <1>5 DEF Reconnect, Settled
  <2> HIDE DEF i
  <2>4. msgs \in Seq(Messages)
    BY <2>2 DEF Replay
  <2>5. Aligned(entry'[i], msgs) /\ Known(msgs, DOMAIN log')
    BY <1>2, <1>3, <2>1, <2>2, AlignedReplay
  <2> QED
    BY <2>1, <2>2, <2>3, <2>4, <2>5, FlightSettled
<1>6. ASSUME NEW s \in Sockets, Admit(s) PROVE Flight'
  <2>1. PICK i \in Ids :
          /\ entry'[i].sock = Held(s) /\ \A j \in Ids \ {i} : entry'[j] = entry[j]
          /\ down' = Sent(s, <<Acknowledgement(i, FALSE, FALSE)>>)
          /\ <<Acknowledgement(i, FALSE, FALSE)>> \in Seq(Messages)
    BY <1>1, <1>6, AdmitEffect, Zenon
  <2>2. Settled(s) /\ log' = log
    BY <1>6 DEF Admit, Settled
  <2> DEFINE ack == Acknowledgement(i, FALSE, FALSE)
             msgs == <<ack>>
  <2>3. ack.type = "ack"
    BY DEF Acknowledgement
  <2> HIDE DEF ack
  <2>4. Len(msgs) = 1 /\ msgs[1] = ack
    OBVIOUS
  <2> HIDE DEF msgs
  <2>5. \A k \in 1 .. Len(msgs) : msgs[k].type # "event"
    BY <2>3, <2>4
  <2>6. Aligned(entry'[i], msgs) /\ Known(msgs, DOMAIN log)
    BY <2>5, Zenon DEF Aligned, Known
  <2>7. msgs \in Seq(Messages) /\ down' = Sent(s, msgs)
    BY <2>1 DEF msgs, ack
  <2> QED
    BY <2>1, <2>2, <2>6, <2>7, FlightSettled
<1>7. ASSUME NEW w \in Workspaces, SwitchWorkspace(w) PROVE Flight'
  <2>1. log' = log /\ down' = down
    BY <1>7 DEF SwitchWorkspace, wire
  <2>2. \A i \in Ids : entry'[i].sock = entry[i].sock /\ Trimmed(entry[i], entry'[i])
    <3>1. clientId \in Ids /\ \A j \in Ids \ {clientId} : entry'[j] = entry[j]
      BY <1>1, <1>7, SwitchEffect, Zenon
    <3>2. entry'[clientId].sock = entry[clientId].sock /\ Trimmed(entry[clientId], entry'[clientId])
      BY <1>1, <1>3, <1>7, <3>1, SwitchEffect, SameFeedTrims
    <3> QED
      BY <1>3, <3>1, <3>2
  <2> QED
    BY <1>2, <2>1, <2>2, FlightRests
<1>8. ASSUME NEW i \in Ids, Forget(i) PROVE Flight'
  <2>1. log' = log /\ down' = down
    BY <1>8 DEF Forget, wire
  <2>2. entry'[i].sock = None /\ \A j \in Ids \ {i} : entry'[j] = entry[j]
    BY <1>1, <1>8, ForgetEffect
  <2> QED
    BY <1>2, <1>3, <2>1, <2>2, FlightRests
<1>9. ASSUME NEW s \in Sockets, ServerClose(s) PROVE Flight'
  <2>1. log' = log /\ down' = down
    BY <1>9 DEF ServerClose, wire
  <2>2. \A i \in Ids : entry'[i].sock = None \/ entry'[i] = entry[i]
    BY <1>1, <1>9, ServerCloseEffect, Zenon
  <2> QED
    BY <1>2, <1>3, <2>1, <2>2, FlightRests
<1>10. ASSUME NEW n \in Events, SequenceAck(n) PROVE Flight'
  <2>1. log' = log /\ down' = down
    BY <1>10 DEF SequenceAck, wire
  <2>2. \A i \in Ids : entry'[i].sock = entry[i].sock /\ Trimmed(entry[i], entry'[i])
    BY <1>1, <1>3, <1>10, SequenceAckEffect DEF Kin
  <2> QED
    BY <1>2, <2>1, <2>2, FlightRests
<1>11. ASSUME \A s \in Sockets : down'[s] = <<>> \/ down'[s] = down[s], log' = log, entry' = entry PROVE Flight'
  <2>1. \A k \in 1 .. Len(<<>>) : FALSE
    OBVIOUS
  <2>2. Known(<<>>, DOMAIN log)
    BY <2>1, Zenon DEF Known
  <2>3. \A s \in Sockets : Known(down'[s], DOMAIN log')
    BY <1>11, <2>2 DEF Flight
  <2>4. ASSUME NEW i \in Ids, entry[i].sock # None PROVE Aligned(entry[i], down'[entry[i].sock])
    <3>1. entry[i].sock \in Sockets
      BY <1>1, <2>4, FeedTypesFacts, GoodIsClient
    <3> QED
      BY <1>11, <2>4, <3>1, AlignedEmpty DEF Flight
  <2> QED
    BY <1>11, <2>3, <2>4 DEF Flight
<1>12. ASSUME NEW s \in Sockets, Break(s) PROVE Flight'
  BY <1>1, <1>11, <1>12 DEF Break, serverVars, DownTypes
<1>13. CASE Restart
  <2>1. \A k \in 1 .. Len(<<>>) : FALSE
    OBVIOUS
  <2>2. Known(<<>>, DOMAIN log')
    BY <2>1, Zenon DEF Known
  <2>3. \A s \in Sockets : down'[s] = <<>>
    BY <1>13 DEF Restart
  <2>4. \A i \in Ids : entry'[i].sock \in Sockets \union {None}
    BY <1>2, GoodIsClient DEF FeedTypes
  <2>5. \A i \in Ids : entry'[i].sock # None => Aligned(entry'[i], down'[entry'[i].sock])
    BY <2>3, <2>4, AlignedEmpty
  <2> QED
    BY <2>2, <2>3, <2>5 DEF Flight
<1>14. CASE Welcome
  BY <1>14, FlightTaken DEF Welcome, serverVars
<1>15. CASE Receive
  BY <1>15, FlightTaken DEF Receive, serverVars
<1>16. CASE Connect \/ ClientClose \/ GapTimer \/ Fetched \/ UNCHANGED vars
  BY <1>11, <1>16 DEF Connect, ClientClose, GapTimer, Fetched, vars, serverVars, wire
<1>17. ASSUME NEW s \in Sockets, Handshake(s) PROVE Flight'
  BY <1>11, <1>17 DEF Handshake, wire
<1> QED
  BY <1>4, <1>5, <1>6, <1>7, <1>8, <1>9, <1>10, <1>12, <1>13, <1>14, <1>15, <1>16, <1>17, StepCases, Zenon DEF Elsewhere

----------------------------------------------------------------------------
(* The window's connection. *)

Alive(i) == entry[i].in \in {"clients", "disconnected"}

Opening == ws # None /\ link[ws] /\ accepted[ws] # "ready"
Reading == ws # None /\ link[ws] /\ accepted[ws] = "ready"

\* Whom the window takes itself for.
Identity ==
  /\ connected <=> clientId # None
  /\ connected => ws # None /\ snapshot = None
  /\ snapshot # None => snapshot.lastSeq = lastContiguous
  /\ lastContiguous <= lastSeen
  /\ MyEntry = None => owes

\* The server knows the client, and while it keeps it, has sent it what the window acknowledges.
ClientKnown ==
  MyEntry # None =>
    /\ entry[MyEntry].in # "none"
    /\ Alive(MyEntry) => lastContiguous <= entry[MyEntry].sent

OpeningOK == Opening => ~connected /\ hello[ws] = snapshot /\ (reconnects <=> snapshot # None)

\* The acknowledgement is the first message of a connection; what is behind it continues the numbers
\* the window has seen, unless it says otherwise.
AwaitingOK ==
  (Reading /\ ~connected) =>
    LET m == down[ws][1]
    IN  /\ down[ws] # <<>> /\ m.type = "ack" /\ entry[m.id].sock = ws
        /\ reconnects <=> snapshot # None
        /\ m.reconnected => snapshot # None /\ m.id = snapshot.id
        /\ \A k \in 2 .. Len(down[ws]) : down[ws][k].type = "event"
        /\ m.reconnected /\ ~m.stale => entry[m.id].sent + 1 <= Len(down[ws]) + lastSeen

ServingOK ==
  (Reading /\ connected) =>
    /\ entry[clientId].sock = ws
    /\ \A k \in 1 .. Len(down[ws]) : down[ws][k].type = "event"
    /\ toldStale \/ lastSeen = 0 \/ entry[clientId].sent <= Len(down[ws]) + lastSeen

Connection == Identity /\ ClientKnown /\ OpeningOK /\ AwaitingOK /\ ServingOK

LEMMA MyEntryType ==
  ASSUME ClientTypes
  PROVE  MyEntry \in Ids \union {None}
<1>1. ASSUME snapshot # None PROVE snapshot.id \in Ids
  BY <1>1 DEF ClientTypes, Snapshots
<1> QED
  BY <1>1 DEF MyEntry, ClientTypes

LEMMA ReceivedIsReading ==
  ASSUME TypeInv, Wiring, Idle, NEW type, Received(type)
  PROVE  ws \in Sockets /\ Reading
<1>1. ws \in Sockets /\ ws # None /\ down[ws] # <<>>
  BY TypeParts, Bounds DEF Received, ClientTypes
<1> QED
  BY <1>1 DEF Wiring, Idle, Reading

\* A client the server knows stays known; while it is kept its buffer is only trimmed or added to, and
\* only a switch of the workspace re-routes it.
LEMMA KnownStaysKnown ==
  ASSUME TypeInv, [Next]_vars, NEW i \in Ids, entry[i].in # "none"
  PROVE  /\ entry'[i].in # "none"
         /\ entry'[i].workspace = entry[i].workspace \/ \E w \in Workspaces : SwitchWorkspace(w)
         /\ Alive(i)' => /\ Alive(i)
                         /\ \/ Trimmed(entry[i], entry'[i])
                            \/ \E w \in Workspaces : Push(w) /\ Matches(i, w) /\ Grew(entry[i], entry'[i], Len(log) + 1)
<1> USE DEF Alive
<1> DEFINE Kept == /\ entry'[i].in # "none"
                   /\ entry'[i].workspace = entry[i].workspace \/ \E w \in Workspaces : SwitchWorkspace(w)
                   /\ Alive(i)' => /\ Alive(i)
                                   /\ \/ Trimmed(entry[i], entry'[i])
                                      \/ \E w \in Workspaces : Push(w) /\ Matches(i, w) /\ Grew(entry[i], entry'[i], Len(log) + 1)
<1>1. FeedTypes /\ SocketTypes /\ DownTypes /\ ClientTypes
  BY TypeParts
<1>2. IsClient(entry[i]) /\ Trimmed(entry[i], entry[i])
  BY <1>1, FeedTypesFacts, TrimmedSame
<1>3. ASSUME entry'[i] = entry[i] PROVE Kept
  BY <1>2, <1>3
<1>4. ASSUME NEW w \in Workspaces, Push(w) PROVE Kept
  <2>1. /\ Kin(entry[i], entry'[i])
        /\ \/ Matches(i, w) /\ Grew(entry[i], entry'[i], Len(log) + 1)
           \/ entry'[i] = entry[i]
    BY <1>1, <1>4, PushEffect, Zenon
  <2> QED
    BY <1>3, <1>4, <2>1 DEF Kin
<1>5. ASSUME NEW w \in Workspaces, SwitchWorkspace(w) PROVE Kept
  <2>1. CASE i = clientId
    <3>1. SameFeed(entry[i], entry'[i]) /\ entry'[i].in = entry[i].in
      BY <1>1, <1>5, <2>1, SwitchEffect
    <3>2. Trimmed(entry[i], entry'[i])
      BY <1>2, <3>1, SameFeedTrims
    <3> QED
      BY <1>5, <3>1, <3>2
  <2>2. CASE i # clientId
    BY <1>1, <1>3, <1>5, <2>2, SwitchEffect
  <2> QED
    BY <2>1, <2>2
<1>6. ASSUME NEW j \in Ids, Forget(j) PROVE Kept
  <2>1. CASE i = j
    BY <1>1, <1>6, <2>1, ForgetEffect
  <2>2. CASE i # j
    BY <1>1, <1>3, <1>6, <2>2, ForgetEffect
  <2> QED
    BY <2>1, <2>2
<1>7. ASSUME NEW s \in Sockets, Reconnect(s) PROVE Kept
  <2>1. CASE i = hello[s].id
    <3>1. /\ Trimmed(entry[i], entry'[i]) /\ entry'[i].in = "clients" /\ i \in Retained
          /\ entry'[i].workspace = Home /\ entry[i].workspace = Home
      BY <1>1, <1>7, <2>1, ReconnectEffect, Zenon
    <3> QED
      BY <3>1 DEF Retained
  <2>2. CASE i # hello[s].id
    <3>1. \A j \in Ids \ {hello[s].id} : entry'[j] = entry[j]
      BY <1>1, <1>7, ReconnectEffect, Zenon
    <3> QED
      BY <1>3, <2>2, <3>1
  <2> QED
    BY <2>1, <2>2
<1>8. ASSUME NEW s \in Sockets, Admit(s) PROVE Kept
  <2>1. \E k \in Ids : entry[k].in = "none" /\ \A j \in Ids \ {k} : entry'[j] = entry[j]
    BY <1>1, <1>8, AdmitEffect, Zenon
  <2>2. entry'[i] = entry[i]
    BY <2>1
  <2> QED
    BY <1>3, <2>2
<1>9. ASSUME NEW s \in Sockets, ServerClose(s) PROVE Kept
  <2>1. /\ SameFeed(entry[i], entry'[i]) /\ entry'[i].workspace = entry[i].workspace
        /\ (i \in Active /\ entry'[i].in = "disconnected") \/ entry'[i] = entry[i]
    BY <1>1, <1>9, ServerCloseEffect, Zenon
  <2>2. Trimmed(entry[i], entry'[i])
    BY <1>2, <2>1, SameFeedTrims
  <2> QED
    BY <1>3, <2>1, <2>2 DEF Active
<1>10. ASSUME Restart PROVE Kept
  BY <1>1, <1>10, RestartEffect
<1>11. ASSUME NEW n \in Events, SequenceAck(n) PROVE Kept
  <2>1. CASE i = clientId
    <3>1. Kin(entry[i], entry'[i]) /\ Trimmed(entry[i], entry'[i])
      BY <1>1, <1>11, <2>1, SequenceAckEffect
    <3> QED
      BY <3>1 DEF Kin
  <2>2. CASE i # clientId
    BY <1>1, <1>3, <1>11, <2>2, SequenceAckEffect
  <2> QED
    BY <2>1, <2>2
<1>12. ASSUME Elsewhere PROVE Kept
  BY <1>3, <1>12, ElsewhereKeeps
<1> HIDE DEF Kept
<1>13. Kept
  BY <1>4, <1>5, <1>6, <1>7, <1>8, <1>9, <1>10, <1>11, <1>12, StepCases, Zenon
<1> QED
  BY <1>13 DEF Kept

\* What a step of the server does to a connection that serves the window: nothing, trim the client's
\* buffer, or push one more event down it.
LineRests(j) ==
  /\ down'[ws] = down[ws] /\ Trimmed(entry[j], entry'[j])
  /\ \A w \in Workspaces : Push(w) => ~Matches(j, w)

LinePushed(j, w) ==
  /\ Push(w) /\ Matches(j, w) /\ log' = Append(log, w) /\ Len(log) + 1 \in Events
  /\ down'[ws] = Append(down[ws], Event(entry[j].sent + 1, Len(log) + 1))
  /\ Grew(entry[j], entry'[j], Len(log) + 1)

LEMMA LinePush ==
  ASSUME TypeInv, Wiring, ws \in Sockets, link[ws], NEW j \in Ids, entry[j].sock = ws, NEW w \in Workspaces, Push(w)
  PROVE  entry'[j].sock = ws /\ (LineRests(j) \/ LinePushed(j, w))
<1>1. FeedTypes /\ DownTypes
  BY TypeParts
<1>2. /\ Len(log) + 1 \in Events /\ log' = Append(log, w) /\ Kin(entry[j], entry'[j])
      /\ Matches(j, w) => Grew(entry[j], entry'[j], Len(log) + 1)
      /\ ~Matches(j, w) => entry'[j] = entry[j]
      /\ \/ /\ link[ws]
            /\ \E i \in Active : /\ Matches(i, w) /\ entry[i].sock = ws
                                 /\ down'[ws] = Append(down[ws], Event(entry[i].sent + 1, Len(log) + 1))
         \/ /\ down'[ws] = down[ws]
            /\ \A i \in Active : Matches(i, w) /\ entry[i].sock = ws => ~link[ws]
  BY <1>1, PushEffect, Zenon
<1>3. IsClient(entry[j]) /\ Trimmed(entry[j], entry[j]) /\ ws # None
  BY <1>1, FeedTypesFacts, TrimmedSame, Bounds
<1>4. j \in Active /\ \A i \in Active : entry[i].sock = ws => i = j
  BY <1>3 DEF Wiring, Active
<1>5. entry'[j].sock = ws
  BY <1>2 DEF Kin
<1>6. CASE Matches(j, w)
  <2>1. down'[ws] = Append(down[ws], Event(entry[j].sent + 1, Len(log) + 1))
    BY <1>2, <1>4, <1>6
  <2> QED
    BY <1>2, <1>5, <1>6, <2>1 DEF LinePushed
<1>7. CASE ~Matches(j, w)
  <2>1. down'[ws] = down[ws] /\ entry'[j] = entry[j]
    BY <1>2, <1>4, <1>7
  <2>2. \A v \in Workspaces : Push(v) => v = w
    <3>1. ASSUME NEW v \in Workspaces, Push(v) PROVE v = w
      <4>1. log' = Append(log, v) /\ log' = Append(log, w)
        BY <1>2, <3>1 DEF Push
      <4>2. log'[Len(log) + 1] = v /\ log'[Len(log) + 1] = w
        BY <1>1, <4>1, PushedLog
      <4> QED
        BY <4>2
    <3> QED
      BY <3>1
  <2> QED
    BY <1>3, <1>5, <1>7, <2>1, <2>2 DEF LineRests
<1> QED
  BY <1>6, <1>7

LEMMA NotAPush ==
  ASSUME FeedTypes, log' = log
  PROVE  \A w \in Workspaces : ~Push(w)
<1> SUFFICES ASSUME NEW w \in Workspaces, Push(w) PROVE FALSE
  OBVIOUS
<1>1. log' = Append(log, w) /\ log \in Seq(Workspaces)
  BY DEF Push, FeedTypes
<1>2. Len(log') = Len(log) + 1 /\ Len(log) \in Nat
  BY <1>1
<1> QED
  BY <1>2

LEMMA LineOfServer ==
  ASSUME TypeInv, Wiring, ServerSide, ws \in Sockets, Reading, Reading', NEW j \in Ids, entry[j].sock = ws
  PROVE  /\ entry'[j].sock = ws /\ ws' = ws
         /\ LineRests(j) \/ \E w \in Workspaces : LinePushed(j, w)
<1>1. FeedTypes /\ SocketTypes /\ DownTypes /\ ClientTypes
  BY TypeParts
<1>2. IsClient(entry[j]) /\ Trimmed(entry[j], entry[j]) /\ ws # None /\ link[ws] /\ accepted[ws] = "ready"
  BY <1>1, FeedTypesFacts, TrimmedSame, Bounds DEF Reading
<1>3. j \in Active
  BY <1>2 DEF Wiring
<1>4. ws' = ws /\ link'[ws]
  BY ServerSideKeeps DEF clientVars, Reading
<1> DEFINE Goal == entry'[j].sock = ws /\ (LineRests(j) \/ \E w \in Workspaces : LinePushed(j, w))
<1>5. ASSUME log' = log, down'[ws] = down[ws], entry'[j].sock = entry[j].sock, Trimmed(entry[j], entry'[j]) PROVE Goal
  BY <1>1, <1>5, NotAPush DEF LineRests
<1>6. ASSUME NEW w \in Workspaces, Push(w) PROVE Goal
  BY <1>2, <1>6, LinePush, Zenon
<1>7. ASSUME NEW w \in Workspaces, SwitchWorkspace(w) PROVE Goal
  <2>1. log' = log /\ down' = down
    BY <1>7 DEF SwitchWorkspace, wire
  <2>2. entry'[j].sock = entry[j].sock /\ (SameFeed(entry[j], entry'[j]) \/ entry'[j] = entry[j])
    BY <1>1, <1>7, SwitchEffect
  <2>3. Trimmed(entry[j], entry'[j])
    BY <1>2, <2>2, SameFeedTrims
  <2> HIDE DEF Goal
  <2> QED
    BY <1>5, <2>1, <2>2, <2>3
<1>8. ASSUME NEW i \in Ids, Forget(i) PROVE Goal
  <2>1. log' = log /\ down' = down
    BY <1>8 DEF Forget, wire
  <2>2. i # j
    BY <1>3, <1>8 DEF Forget, Retained, Active
  <2>3. entry'[j] = entry[j]
    BY <1>1, <1>8, <2>2, ForgetEffect
  <2> HIDE DEF Goal
  <2> QED
    BY <1>2, <1>5, <2>1, <2>3
<1>9. ASSUME NEW n \in Events, SequenceAck(n) PROVE Goal
  <2>1. log' = log /\ down' = down
    BY <1>9 DEF SequenceAck, wire
  <2>2. entry'[j].sock = entry[j].sock /\ Trimmed(entry[j], entry'[j])
    BY <1>1, <1>2, <1>9, SequenceAckEffect DEF Kin
  <2> HIDE DEF Goal
  <2> QED
    BY <1>5, <2>1, <2>2
<1>10. ASSUME NEW s \in Sockets, ServerClose(s) PROVE Goal
  <2>1. log' = log /\ down' = down /\ ~link[s]
    BY <1>10 DEF ServerClose, wire
  <2>2. s # ws
    BY <1>2, <2>1
  <2>3. entry'[j] = entry[j]
    BY <1>1, <1>10, <2>2, ServerCloseEffect
  <2> HIDE DEF Goal
  <2> QED
    BY <1>2, <1>5, <2>1, <2>3
<1>11. ASSUME NEW s \in Sockets, Reconnect(s) \/ Admit(s) PROVE Goal
  <2>1. Settled(s) /\ log' = log
    BY <1>11 DEF Reconnect, Admit, Settled
  <2>2. s # ws
    BY <1>2, <2>1 DEF Settled
  <2>3. \E i \in Ids : /\ i \notin Active /\ \A k \in Ids \ {i} : entry'[k] = entry[k]
                      /\ \E msgs : down' = Sent(s, msgs)
    <3>1. CASE Reconnect(s)
      BY <1>1, <3>1, ReconnectEffect DEF Retained, Active
    <3>2. CASE Admit(s)
      BY <1>1, <3>2, AdmitEffect DEF Active
    <3> QED
      BY <1>11, <3>1, <3>2
  <2>4. entry'[j] = entry[j] /\ down'[ws] = down[ws]
    BY <1>1, <1>3, <2>2, <2>3 DEF Sent, DownTypes
  <2> HIDE DEF Goal
  <2> QED
    BY <1>2, <1>5, <2>1, <2>4
<1>12. ASSUME NEW s \in Sockets, Handshake(s) \/ Break(s) PROVE Goal
  <2>1. log' = log /\ entry' = entry
    BY <1>12 DEF Handshake, Break, serverVars
  <2>2. down'[ws] = down[ws]
    <3>1. CASE Handshake(s)
      BY <3>1 DEF Handshake, wire
    <3>2. CASE Break(s)
      BY <1>1, <1>4, <3>2 DEF Break, DownTypes, SocketTypes
    <3> QED
      BY <1>12, <3>1, <3>2
  <2> HIDE DEF Goal
  <2> QED
    BY <1>2, <1>5, <2>1, <2>2
<1>13. ASSUME Restart PROVE Goal
  BY <1>4, <1>13 DEF Restart
<1>14. ASSUME Fetched \/ UNCHANGED vars PROVE Goal
  <2>1. log' = log /\ entry' = entry /\ down' = down
    BY <1>14 DEF Fetched, vars, serverVars, wire
  <2> HIDE DEF Goal
  <2> QED
    BY <1>2, <1>5, <2>1
<1> HIDE DEF Goal
<1>15. Goal
  BY <1>6, <1>7, <1>8, <1>9, <1>10, <1>11, <1>12, <1>13, <1>14, Zenon DEF ServerSide
<1> QED
  BY <1>4, <1>15 DEF Goal

\* Only an answered handshake makes a connection one that is read.
LEMMA ReadingBegins ==
  ASSUME TypeInv, Wiring, ServerSide, ws \in Sockets, Reading', ~Reading
  PROVE  Opening /\ (Reconnect(ws) \/ Admit(ws)) /\ ws' = ws
<1>1. SocketTypes
  BY TypeParts
<1>2. ws' = ws /\ ws # None /\ link'[ws] /\ accepted'[ws] = "ready"
  BY ServerSideKeeps DEF clientVars, Reading
<1>3. ASSUME NEW s \in Sockets, Handshake(s) \/ ServerClose(s) \/ Break(s) PROVE FALSE
  <2>1. link[ws]
    BY <1>1, <1>2, <1>3 DEF Handshake, ServerClose, Break, wire, SocketTypes
  <2>2. accepted[ws] = "ready"
    BY <1>1, <1>2, <1>3 DEF Handshake, ServerClose, Break, serverVars, SocketTypes
  <2> QED
    BY <1>2, <2>1, <2>2 DEF Reading
<1>4. ASSUME NEW s \in Sockets, Settled(s) PROVE s = ws /\ Opening
  <2>1. link[ws]
    BY <1>2, <1>4 DEF Settled
  <2>2. accepted[ws] # "ready"
    BY <1>2, <2>1 DEF Reading
  <2>3. s = ws
    BY <1>1, <1>2, <1>4, <2>2 DEF Settled, SocketTypes
  <2> QED
    BY <1>2, <2>1, <2>2, <2>3 DEF Opening
<1>5. ASSUME \/ \E w \in Workspaces : Push(w) \/ SwitchWorkspace(w)
             \/ \E i \in Ids : Forget(i)
             \/ \E n \in Events : SequenceAck(n)
             \/ Fetched \/ UNCHANGED vars
      PROVE  FALSE
  <2>1. link' = link /\ accepted' = accepted
    BY <1>5 DEF Push, SwitchWorkspace, Forget, SequenceAck, Fetched, vars, serverVars, wire
  <2> QED
    BY <1>2, <2>1 DEF Reading
<1>6. ~Restart
  BY <1>2 DEF Restart
<1>7. PICK s \in Sockets : Reconnect(s) \/ Admit(s)
  BY <1>3, <1>5, <1>6, Zenon DEF ServerSide
<1>8. Settled(s)
  BY <1>7 DEF Reconnect, Admit
<1> QED
  BY <1>2, <1>4, <1>7, <1>8

LEMMA ConnectionInit ==
  ASSUME Init
  PROVE  Connection
BY Bounds DEF Init, Connection, Identity, ClientKnown, OpeningOK, AwaitingOK, ServingOK, Opening, Reading, MyEntry

LEMMA WelcomeAwaited ==
  ASSUME TypeInv, Wiring, Idle, Connection, Welcome
  PROVE  /\ ws \in Sockets /\ Reading /\ ~connected /\ clientId = None
         /\ Head(down[ws]) = down[ws][1] /\ down[ws][1].id \in Ids /\ down[ws][1].type = "ack"
         /\ down[ws][1].reconnected \in BOOLEAN /\ down[ws][1].stale \in BOOLEAN
         /\ down[ws] \in Seq(Messages) /\ Len(down[ws]) \in Nat /\ Len(down[ws]) > 0
         /\ down'[ws] = Tail(down[ws]) /\ Len(down'[ws]) = Len(down[ws]) - 1
         /\ \A k \in 1 .. Len(down[ws]) - 1 : down'[ws][k] = down[ws][k + 1]
<1>1. DownTypes /\ ClientTypes /\ Received("ack") /\ down' = [down EXCEPT ![ws] = Tail(@)]
  BY TypeParts DEF Welcome
<1>2. ws \in Sockets /\ Reading
  BY <1>1, ReceivedIsReading
<1>3. /\ down[ws] \in Seq(Messages) /\ Len(down[ws]) \in Nat /\ Len(down[ws]) > 0
      /\ Head(down[ws]) = down[ws][1] /\ down[ws][1] \in Messages /\ down[ws][1].type = "ack"
      /\ Len(Tail(down[ws])) = Len(down[ws]) - 1
      /\ \A k \in 1 .. Len(down[ws]) - 1 : Tail(down[ws])[k] = down[ws][k + 1]
  BY <1>1, ReceivedFacts
<1>4. down'[ws] = Tail(down[ws])
  BY <1>1, TakenFromTheWire
<1>5. down[ws][1].id \in Ids /\ down[ws][1].reconnected \in BOOLEAN /\ down[ws][1].stale \in BOOLEAN
  BY <1>3, MessageFields
<1>6. ~connected
  <2>1. 1 \in 1 .. Len(down[ws])
    BY <1>3
  <2> QED
    BY <1>2, <1>3, <2>1 DEF Connection, ServingOK
<1>7. clientId = None
  BY <1>6 DEF Connection, Identity
<1> QED
  BY <1>2, <1>3, <1>4, <1>5, <1>6, <1>7

LEMMA ReceiveServed ==
  ASSUME TypeInv, Wiring, Idle, Flight, Connection, Receive
  PROVE  /\ ws \in Sockets /\ Reading /\ connected /\ clientId \in Ids /\ snapshot = None
         /\ Head(down[ws]) = down[ws][1] /\ down[ws][1].type = "event"
         /\ down[ws][1].seq \in Events /\ down[ws][1].event \in Events
         /\ down[ws][1].seq + Len(down[ws]) = entry[clientId].sent + 1 /\ down[ws][1].seq <= entry[clientId].sent
         /\ entry[clientId].sock = ws /\ Aligned(entry[clientId], down[ws])
         /\ down[ws] \in Seq(Messages) /\ Len(down[ws]) \in Nat /\ Len(down[ws]) > 0
         /\ down'[ws] = Tail(down[ws]) /\ Len(down'[ws]) = Len(down[ws]) - 1
         /\ \A k \in 1 .. Len(down[ws]) - 1 : down'[ws][k] = down[ws][k + 1]
<1>1. FeedTypes /\ DownTypes /\ ClientTypes /\ Received("event") /\ down' = [down EXCEPT ![ws] = Tail(@)]
  BY TypeParts DEF Receive
<1>2. ws \in Sockets /\ Reading
  BY <1>1, ReceivedIsReading
<1>3. /\ down[ws] \in Seq(Messages) /\ Len(down[ws]) \in Nat /\ Len(down[ws]) > 0
      /\ Head(down[ws]) = down[ws][1] /\ down[ws][1] \in Messages /\ down[ws][1].type = "event"
      /\ Len(Tail(down[ws])) = Len(down[ws]) - 1
      /\ \A k \in 1 .. Len(down[ws]) - 1 : Tail(down[ws])[k] = down[ws][k + 1]
  BY <1>1, ReceivedFacts
<1>4. down'[ws] = Tail(down[ws])
  BY <1>1, TakenFromTheWire
<1>5. connected
  BY <1>2, <1>3 DEF Connection, AwaitingOK
<1>6. clientId \in Ids /\ snapshot = None
  BY <1>1, <1>5 DEF Connection, Identity, ClientTypes
<1>7. entry[clientId].sock = ws /\ Aligned(entry[clientId], down[ws])
  BY <1>2, <1>5, <1>6, Bounds DEF Connection, ServingOK, Flight
<1> DEFINE m == down[ws][1]
           len == Len(down[ws])
           sent == entry[clientId].sent
<1>8. m.seq \in Events /\ m.event \in Events /\ m.seq = sent - len + 1
  <2>1. 1 \in 1 .. Len(down[ws])
    BY <1>3
  <2> QED
    BY <1>3, <1>7, <2>1, MessageFields DEF Aligned
<1>9. len \in Nat /\ len > 0 /\ sent \in Nat
  BY <1>1, <1>3, <1>6, FeedTypesFacts
<1> HIDE DEF m, len, sent
<1>10. m.seq + len = sent + 1 /\ m.seq <= sent
  BY <1>8, <1>9
<1> QED
  BY <1>2, <1>3, <1>4, <1>5, <1>6, <1>7, <1>8, <1>10 DEF m, len, sent

LEMMA IdentityNext ==
  ASSUME TypeInv, Wiring, Idle, Flight, Connection, [Next]_vars
  PROVE  Identity'
<1> USE DEF Identity
<1>1. ClientTypes /\ WindowTypes /\ Identity
  BY TypeParts DEF Connection
<1>2. lastSeen \in Nat /\ lastContiguous \in Nat
  BY <1>1, Bounds DEF ClientTypes
<1>3. CASE ServerSide
  <2>1. UNCHANGED clientVars /\ MyEntry' = MyEntry
    BY <1>3, ServerSideKeeps DEF clientVars, MyEntry
  <2>2. CASE Fetched
    <3>1. MyEntry # None
      BY <1>1, <2>2 DEF Fetched, Served, MyEntry
    <3> QED
      BY <1>1, <2>1, <3>1 DEF clientVars
  <2>3. ASSUME owes' = owes \/ owes' PROVE Identity'
    BY <1>1, <2>1, <2>3 DEF clientVars
  <2>4. CASE \E w \in Workspaces : Push(w) \/ SwitchWorkspace(w)
    BY <2>3, <2>4 DEF Push, SwitchWorkspace, window
  <2>5. CASE \E s \in Sockets : Handshake(s) \/ Reconnect(s) \/ Admit(s) \/ Break(s) \/ ServerClose(s)
    BY <2>3, <2>5 DEF Handshake, Reconnect, Admit, Settled, Break, ServerClose, window
  <2>6. CASE \/ \E i \in Ids : Forget(i)
             \/ Restart
             \/ \E n \in Events : SequenceAck(n)
             \/ UNCHANGED vars
    BY <2>3, <2>6 DEF Forget, Restart, SequenceAck, vars, window
  <2> QED
    BY <1>3, <2>2, <2>4, <2>5, <2>6, Zenon DEF ServerSide
<1>4. CASE Connect
  BY <1>1, <1>4 DEF Connect, MyEntry, window
<1>5. CASE ClientClose
  <2>1. clientId' = None /\ owes' = owes /\ lastContiguous' = lastContiguous /\ lastSeen' = lastSeen /\ ~connected'
    BY <1>5 DEF ClientClose
  <2>2. CASE clientId # None
    <3>1. snapshot' = [id |-> clientId, lastSeq |-> lastContiguous]
      BY <1>5, <2>2 DEF ClientClose
    <3>2. MyEntry' = clientId
      BY <1>1, <2>1, <2>2, <3>1, Bounds DEF MyEntry, ClientTypes, Snapshots
    <3> QED
      BY <1>1, <2>1, <2>2, <3>1, <3>2
  <2>3. CASE clientId = None
    BY <1>1, <1>5, <2>1, <2>3 DEF ClientClose, MyEntry
  <2> QED
    BY <2>2, <2>3
<1>6. CASE Welcome
  <2>1. ws \in Sockets /\ down[ws][1].id \in Ids /\ Head(down[ws]) = down[ws][1]
    BY <1>6, WelcomeAwaited
  <2>2. /\ connected' = TRUE /\ clientId' = down[ws][1].id /\ snapshot' = None /\ ws' = ws
        /\ \/ lastSeen' = lastSeen /\ lastContiguous' = lastContiguous
           \/ lastSeen' = 0 /\ lastContiguous' = 0
    BY <1>6, <2>1 DEF Welcome
  <2>3. MyEntry' # None
    BY <2>1, <2>2, Bounds DEF MyEntry
  <2> QED
    BY <1>1, <1>2, <2>1, <2>2, <2>3, Bounds
<1>7. CASE Receive
  <2>1. connected /\ snapshot = None /\ down[ws][1].seq \in Nat /\ Head(down[ws]) = down[ws][1]
    BY <1>7, ReceiveServed, Bounds
  <2>2. /\ lastSeen' = down[ws][1].seq /\ UNCHANGED <<connected, clientId, snapshot, ws, owes>>
        /\ \/ Gap(down[ws][1].seq) /\ lastContiguous' = lastContiguous
           \/ lastContiguous' = down[ws][1].seq
    BY <1>7, <2>1 DEF Receive
  <2>3. lastContiguous' <= lastSeen'
    BY <1>1, <1>2, <2>1, <2>2 DEF Gap
  <2> QED
    BY <1>1, <2>1, <2>2, <2>3 DEF MyEntry
<1>8. CASE GapTimer
  BY <1>1, <1>8 DEF GapTimer, MyEntry
<1> QED
  BY <1>3, <1>4, <1>5, <1>6, <1>7, <1>8, Zenon DEF Next, ServerSide

LEMMA ClientKnownNext ==
  ASSUME TypeInv, Wiring, Idle, Flight, Connection, [Next]_vars
  PROVE  ClientKnown'
<1> USE DEF ClientKnown
<1>1. FeedTypes /\ ClientTypes /\ ClientKnown /\ Identity
  BY TypeParts DEF Connection
<1>2. lastSeen \in Nat /\ lastContiguous \in Nat /\ MyEntry \in Ids \union {None}
  BY <1>1, MyEntryType, Bounds DEF ClientTypes
<1>3. \A i \in Ids : entry[i].sent \in Nat /\ IsClient(entry[i])
  BY <1>1, FeedTypesFacts
<1>4. ASSUME MyEntry' = MyEntry, lastContiguous' = lastContiguous PROVE ClientKnown'
  <2> SUFFICES ASSUME NEW i \in Ids, MyEntry = i
               PROVE  entry'[i].in # "none" /\ (Alive(i)' => lastContiguous <= entry'[i].sent)
    BY <1>2, <1>4 DEF Alive
  <2>1. entry[i].in # "none" /\ (Alive(i) => lastContiguous <= entry[i].sent)
    BY <1>1, Bounds
  <2>2. entry'[i].in # "none" /\ (Alive(i)' => Alive(i) /\ (entry'[i].sent = entry[i].sent \/ entry'[i].sent = entry[i].sent + 1))
    BY <2>1, KnownStaysKnown DEF Trimmed, Grew
  <2> QED
    BY <1>2, <1>3, <2>1, <2>2
<1>5. CASE ServerSide
  BY <1>4, <1>5, ServerSideKeeps DEF clientVars, MyEntry
<1>6. CASE Connect
  BY <1>4, <1>6 DEF Connect, MyEntry
<1>7. CASE ClientClose
  <2>1. clientId' = None /\ lastContiguous' = lastContiguous
    BY <1>7 DEF ClientClose
  <2>2. MyEntry' = MyEntry
    <3>1. CASE clientId # None
      <4>1. snapshot' = [id |-> clientId, lastSeq |-> lastContiguous]
        BY <1>7, <3>1 DEF ClientClose
      <4> QED
        BY <1>1, <2>1, <3>1, <4>1, Bounds DEF MyEntry, ClientTypes, Snapshots
    <3>2. CASE clientId = None
      BY <1>7, <2>1, <3>2 DEF ClientClose, MyEntry
    <3> QED
      BY <3>1, <3>2
  <2> QED
    BY <1>4, <2>1, <2>2
<1>8. CASE Welcome
  <2> DEFINE m == down[ws][1]
             i == m.id
  <2>1. /\ ws \in Sockets /\ Reading /\ ~connected /\ clientId = None /\ i \in Ids /\ Head(down[ws]) = m
        /\ m.reconnected \in BOOLEAN
    BY <1>8, WelcomeAwaited
  <2>2. /\ clientId' = i /\ entry' = entry
        /\ lastContiguous' = IF m.reconnected THEN lastContiguous ELSE 0
    BY <1>8, <2>1 DEF Welcome, serverVars
  <2>3. entry[i].sock = ws /\ (m.reconnected => snapshot # None /\ i = snapshot.id)
    BY <2>1 DEF Connection, AwaitingOK
  <2> HIDE DEF i, m
  <2>4. MyEntry' = i
    BY <2>1, <2>2, Bounds DEF MyEntry
  <2>5. i \in Active
    BY <2>1, <2>3, Bounds DEF Wiring
  <2>6. entry[i].in = "clients" /\ (m.reconnected => MyEntry = i)
    BY <2>1, <2>3, <2>5 DEF Active, MyEntry
  <2>7. lastContiguous' <= entry[i].sent
    BY <1>1, <1>2, <1>3, <2>1, <2>2, <2>3, <2>6, Bounds DEF Alive
  <2> QED
    BY <2>2, <2>4, <2>6, <2>7
<1>9. CASE Receive
  <2> DEFINE m == down[ws][1]
             i == clientId
  <2>1. /\ connected /\ i \in Ids /\ m.seq \in Nat /\ m.seq <= entry[i].sent /\ Head(down[ws]) = m /\ entry[i].sock = ws /\ ws \in Sockets
    BY <1>9, ReceiveServed, Bounds
  <2>2. clientId' = i /\ entry' = entry /\ lastContiguous' \in {lastContiguous, m.seq}
    BY <1>9, <2>1 DEF Receive, serverVars
  <2> HIDE DEF m
  <2>3. MyEntry = i /\ MyEntry' = i /\ i # None
    BY <2>1, <2>2, Bounds DEF MyEntry
  <2>4. entry[i].in = "clients"
    BY <2>1, Bounds DEF Wiring, Active
  <2>5. lastContiguous' <= entry[i].sent
    BY <1>1, <2>1, <2>2, <2>3, <2>4 DEF Alive
  <2> QED
    BY <2>2, <2>3, <2>4, <2>5
<1>10. CASE GapTimer
  BY <1>4, <1>10 DEF GapTimer, MyEntry
<1> QED
  BY <1>5, <1>6, <1>7, <1>8, <1>9, <1>10, Zenon DEF Next, ServerSide

LEMMA OpeningNext ==
  ASSUME TypeInv, Wiring, Idle, Flight, Connection, [Next]_vars
  PROVE  OpeningOK'
<1> USE DEF OpeningOK, Opening
<1>1. SocketTypes /\ ClientTypes /\ OpeningOK
  BY TypeParts DEF Connection
<1>2. ASSUME UNCHANGED <<link, accepted, hello, clientVars>> PROVE OpeningOK'
  BY <1>1, <1>2 DEF clientVars
<1>3. CASE \/ \E w \in Workspaces : Push(w) \/ SwitchWorkspace(w)
           \/ \E i \in Ids : Forget(i)
           \/ \E n \in Events : SequenceAck(n)
           \/ Fetched \/ UNCHANGED vars
  BY <1>2, <1>3 DEF Push, SwitchWorkspace, Forget, SequenceAck, Fetched, vars, serverVars, wire
<1>4. ASSUME NEW s \in Sockets, Handshake(s) \/ Break(s) \/ ServerClose(s) PROVE OpeningOK'
  <2>1. UNCHANGED clientVars
    BY <1>4 DEF Handshake, Break, ServerClose
  <2>2. ASSUME NEW r \in Sockets, link'[r], accepted'[r] # "ready"
        PROVE  link[r] /\ accepted[r] # "ready" /\ hello'[r] = hello[r]
    <3>1. CASE Handshake(s)
      BY <1>1, <2>2, <3>1 DEF Handshake, wire, SocketTypes
    <3>2. CASE Break(s)
      BY <1>1, <2>2, <3>2 DEF Break, serverVars, SocketTypes
    <3>3. CASE ServerClose(s)
      <4>1. r # s
        BY <2>2, <3>3 DEF ServerClose, wire
      <4> QED
        BY <1>1, <2>2, <3>3, <4>1 DEF ServerClose, wire, SocketTypes
    <3> QED
      BY <1>4, <3>1, <3>2, <3>3
  <2>3. Opening' => Opening /\ hello'[ws] = hello[ws] /\ ws' = ws
    BY <1>1, <2>1, <2>2 DEF clientVars, ClientTypes
  <2> QED
    BY <1>1, <2>1, <2>3 DEF clientVars
<1>5. ASSUME NEW s \in Sockets, Settled(s) PROVE OpeningOK'
  <2>1. UNCHANGED <<link, clientVars>> /\ accepted[s] \in {"checking", "closed"}
        /\ accepted' = [accepted EXCEPT ![s] = IF @ = "closed" THEN "no" ELSE "ready"]
        /\ hello' = [hello EXCEPT ![s] = None]
    BY <1>5 DEF Settled
  <2>2. Opening' => ws # s
    BY <1>1, <2>1 DEF Wiring, SocketTypes, clientVars
  <2>3. Opening' => Opening /\ hello'[ws] = hello[ws]
    BY <1>1, <2>1, <2>2 DEF SocketTypes, ClientTypes, clientVars
  <2> QED
    BY <1>1, <2>1, <2>3 DEF clientVars
<1>6. CASE Restart
  <2>1. ~Opening'
    BY <1>1, <1>6 DEF Restart, clientVars, ClientTypes
  <2> QED
    BY <2>1
<1>7. CASE Connect
  <2>1. ws = None /\ ~connected /\ UNCHANGED <<connected, snapshot>>
    BY <1>7 DEF Connect, Connection, Identity
  <2>2. PICK s \in Sockets : /\ ws' = s
                             /\ \/ /\ hello' = [hello EXCEPT ![s] = snapshot] /\ reconnects' = (snapshot # None)
                                \/ link' = link
    BY <1>7 DEF Connect
  <2>3. CASE hello' = [hello EXCEPT ![s] = snapshot] /\ reconnects' = (snapshot # None)
    BY <1>1, <2>1, <2>2, <2>3 DEF SocketTypes
  <2>4. CASE link' = link
    <3>1. ~link[s]
      BY <2>1, Bounds DEF Wiring
    <3> QED
      BY <2>2, <2>4, <3>1
  <2> QED
    BY <2>2, <2>3, <2>4
<1>8. CASE ClientClose
  BY <1>8 DEF ClientClose
<1>9. ASSUME NEW type, Received(type), UNCHANGED <<ws, link, accepted>> PROVE OpeningOK'
  BY <1>9, ReceivedIsReading DEF Reading
<1>10. CASE Welcome
  BY <1>9, <1>10 DEF Welcome, serverVars
<1>11. CASE Receive
  BY <1>9, <1>11 DEF Receive, serverVars
<1>12. CASE GapTimer
  BY <1>1, <1>12 DEF GapTimer, serverVars, wire
<1> QED
  BY <1>3, <1>4, <1>5, <1>6, <1>7, <1>8, <1>10, <1>11, <1>12, Zenon DEF Next, Reconnect, Admit

LEMMA SettledLine ==
  ASSUME TypeInv, Wiring, Idle, ws \in Sockets, Opening, Settled(ws), NEW msgs \in Seq(Messages), down' = Sent(ws, msgs)
  PROVE  down'[ws] = msgs /\ Held(ws) = ws
<1>1. DownTypes /\ link[ws] /\ accepted[ws] = "checking" /\ down[ws] = <<>>
  BY TypeParts DEF Opening, Settled, Wiring, Idle
<1>2. down[ws] \o msgs = msgs
  BY <1>1, ConcatEmptySeq
<1> QED
  BY <1>1, <1>2 DEF Sent, DownTypes, Held

LEMMA AwaitingNext ==
  ASSUME TypeInv, Wiring, Idle, Flight, Connection, [Next]_vars
  PROVE  AwaitingOK'
<1>1. FeedTypes /\ SocketTypes /\ DownTypes /\ ClientTypes /\ Identity /\ AwaitingOK /\ OpeningOK
  BY TypeParts DEF Connection
<1>2. lastSeen \in Nat /\ lastContiguous \in Nat /\ lastContiguous <= lastSeen
  BY <1>1, Bounds DEF ClientTypes, Identity
<1> SUFFICES ASSUME Reading', ~connected'
             PROVE  LET m == down'[ws'][1]
                    IN  /\ down'[ws'] # <<>> /\ m.type = "ack" /\ entry'[m.id].sock = ws'
                        /\ reconnects' <=> snapshot' # None
                        /\ m.reconnected => snapshot' # None /\ m.id = snapshot'.id
                        /\ \A k \in 2 .. Len(down'[ws']) : down'[ws'][k].type = "event"
                        /\ m.reconnected /\ ~m.stale => entry'[m.id].sent + 1 <= Len(down'[ws']) + lastSeen'
  BY DEF AwaitingOK
<1>3. CASE ServerSide /\ Reading
  <2>1. UNCHANGED clientVars
    BY <1>3, ServerSideKeeps
  <2> DEFINE msgs == down[ws]
             m == msgs[1]
             j == m.id
  <2>2. ws \in Sockets /\ ~connected
    BY <1>1, <1>3, <2>1 DEF Reading, ClientTypes, clientVars
  <2>3. /\ msgs # <<>> /\ m.type = "ack" /\ entry[j].sock = ws
        /\ reconnects <=> snapshot # None
        /\ m.reconnected => snapshot # None /\ j = snapshot.id
        /\ \A k \in 2 .. Len(msgs) : msgs[k].type = "event"
        /\ m.reconnected /\ ~m.stale => entry[j].sent + 1 <= Len(msgs) + lastSeen
    BY <1>1, <1>3, <2>2 DEF AwaitingOK
  <2>4. msgs \in Seq(Messages) /\ Len(msgs) \in Nat /\ Len(msgs) > 0 /\ m \in Messages
    BY <1>1, <2>2, <2>3, EmptySeq, LenProperties, ElementOfSeq DEF DownTypes
  <2>5. j \in Ids
    BY <2>3, <2>4, MessageFields
  <2>6. entry[j].sent \in Nat
    BY <1>1, <2>5, FeedTypesFacts
  <2>7. entry'[j].sock = ws /\ (LineRests(j) \/ \E w \in Workspaces : LinePushed(j, w))
    BY <1>3, <2>2, <2>3, <2>5, LineOfServer
  <2>8. CASE LineRests(j)
    <3>1. down'[ws] = msgs /\ entry'[j].sent = entry[j].sent
      BY <2>8 DEF LineRests, Trimmed
    <3> HIDE DEF msgs
    <3> QED
      BY <2>1, <2>3, <2>7, <3>1 DEF clientVars
  <2>9. CASE \E w \in Workspaces : LinePushed(j, w)
    <3> DEFINE n == Event(entry[j].sent + 1, Len(log) + 1)
               more == Append(msgs, n)
    <3>1. down'[ws] = more /\ entry'[j].sent = entry[j].sent + 1
      BY <2>9 DEF LinePushed, Grew
    <3>2. n.type = "event"
      BY DEF Event
    <3> HIDE DEF msgs, n
    <3>3. Len(more) = Len(msgs) + 1 /\ more[Len(msgs) + 1] = n /\ \A k \in 1 .. Len(msgs) : more[k] = msgs[k]
      BY <2>4
    <3> HIDE DEF more
    <3>4. more # <<>> /\ more[1] = msgs[1]
      BY <2>4, <3>3, EmptySeq
    <3>5. \A k \in 2 .. Len(more) : more[k].type = "event"
      BY <2>3, <2>4, <3>2, <3>3
    <3>6. m.reconnected /\ ~m.stale => entry'[j].sent + 1 <= Len(more) + lastSeen
      BY <1>2, <2>3, <2>4, <2>6, <3>1, <3>3
    <3> QED
      BY <2>1, <2>3, <2>7, <3>1, <3>4, <3>5, <3>6 DEF clientVars
  <2> QED
    BY <2>7, <2>8, <2>9
<1>4. CASE ServerSide /\ ~Reading
  <2>1. UNCHANGED clientVars
    BY <1>4, ServerSideKeeps
  <2>2. ws \in Sockets
    BY <1>1, <2>1 DEF Reading, ClientTypes, clientVars
  <2>3. Opening /\ (Reconnect(ws) \/ Admit(ws))
    BY <1>4, <2>2, ReadingBegins
  <2>4. Settled(ws)
    BY <2>3 DEF Reconnect, Admit
  <2>5. hello[ws] = snapshot /\ (reconnects <=> snapshot # None)
    BY <1>1, <2>3 DEF OpeningOK
  <2>6. CASE Reconnect(ws)
    <3> DEFINE i == snapshot.id
               seq == snapshot.lastSeq
    <3>1. i \in Ids /\ entry'[i].sock = Held(ws) /\ snapshot \in Snapshots /\ entry'[i].sent = entry[i].sent
      BY <1>1, <2>2, <2>5, <2>6, ReconnectEffect
    <3>2. PICK msgs, missed, stale : stale \in BOOLEAN /\ Replay(msgs, i, seq, stale, missed) /\ down' = Sent(ws, msgs)
      BY <1>1, <2>2, <2>5, <2>6, ReconnectEffect, Zenon
    <3>3. snapshot # None /\ seq = lastContiguous /\ entry[i].sent \in Nat
      BY <1>1, <3>1, Bounds, FeedTypesFacts DEF Identity
    <3>4. msgs \in Seq(Messages)
      BY <3>2 DEF Replay
    <3>5. down'[ws] = msgs /\ entry'[i].sock = ws
      BY <2>2, <2>3, <2>4, <3>1, <3>2, <3>4, SettledLine
    <3>6. /\ missed \in Nat /\ Len(msgs) = missed + 1 /\ msgs[1] = Acknowledgement(i, TRUE, stale)
          /\ ~stale => (missed = 0 /\ seq >= entry'[i].sent) \/ missed = entry'[i].sent - seq
      BY <3>2, Zenon DEF Replay
    <3>7. msgs[1].type = "ack" /\ msgs[1].id = i /\ msgs[1].reconnected = TRUE /\ msgs[1].stale = stale
      BY <3>6 DEF Acknowledgement
    <3>8. \A k \in 2 .. Len(msgs) : msgs[k].type = "event"
      <4> SUFFICES ASSUME NEW k \in 2 .. Len(msgs) PROVE msgs[k].type = "event"
        OBVIOUS
      <4>0. k \in 2 .. missed + 1
        BY <3>6
      <4>1. \A l \in 2 .. missed + 1 :
              \E x \in Events : msgs[l] = Event(entry'[i].sent - (missed + 1) + l, x)
        BY <3>2, Zenon DEF Replay
      <4>2. PICK x \in Events : msgs[k] = Event(entry'[i].sent - (missed + 1) + k, x)
        BY <4>0, <4>1, Zenon
      <4> QED
        BY <4>2 DEF Event
    <3>9. ~stale => entry'[i].sent + 1 <= Len(msgs) + lastSeen
      <4> DEFINE sent == entry[i].sent
                 len == Len(msgs)
      <4>1. sent \in Nat /\ len = missed + 1 /\ (~stale => (missed = 0 /\ lastContiguous >= sent) \/ missed = sent - lastContiguous)
        BY <3>1, <3>3, <3>6
      <4> HIDE DEF sent, len
      <4>2. ~stale => sent + 1 <= len + lastSeen
        BY <1>2, <3>6, <4>1
      <4> QED
        BY <3>1, <4>2 DEF sent, len
    <3>10. msgs # <<>>
      BY <3>4, <3>6, EmptySeq
    <3> HIDE DEF i
    <3>11. clientVars' = clientVars /\ ws' = ws /\ snapshot' = snapshot /\ reconnects' = reconnects /\ lastSeen' = lastSeen
      BY <2>1 DEF clientVars
    <3> QED
      BY <2>5, <3>3, <3>5, <3>7, <3>8, <3>9, <3>10, <3>11 DEF i
  <2>7. CASE Admit(ws)
    <3>1. PICK i \in Ids :
            /\ entry'[i].sock = Held(ws)
            /\ down' = Sent(ws, <<Acknowledgement(i, FALSE, FALSE)>>)
            /\ <<Acknowledgement(i, FALSE, FALSE)>> \in Seq(Messages)
      BY <1>1, <2>2, <2>7, AdmitEffect
    <3> DEFINE ack == Acknowledgement(i, FALSE, FALSE)
               msgs == <<ack>>
    <3>2. ack.type = "ack" /\ ack.id = i /\ ack.reconnected = FALSE
      BY DEF Acknowledgement
    <3>3. down'[ws] = msgs /\ entry'[i].sock = ws
      BY <2>2, <2>3, <2>4, <3>1, SettledLine
    <3> HIDE DEF ack
    <3>4. msgs # <<>> /\ msgs[1] = ack /\ Len(msgs) = 1
      OBVIOUS
    <3> HIDE DEF msgs
    <3>5. \A k \in 2 .. Len(msgs) : FALSE
      BY <3>4
    <3> QED
      BY <2>1, <2>5, <3>2, <3>3, <3>4, <3>5 DEF clientVars
  <2> QED
    BY <2>3, <2>6, <2>7
<1>5. CASE Connect
  <2>1. ws = None
    BY <1>5 DEF Connect
  <2>2. PICK s \in Sockets : ws' = s /\ (accepted' = [accepted EXCEPT ![s] = "open"] \/ link' = link)
    BY <1>5 DEF Connect
  <2>3. ~link[s]
    BY <2>1, Bounds DEF Wiring
  <2> QED
    BY <1>1, <2>2, <2>3 DEF Reading, SocketTypes
<1>6. CASE ClientClose
  BY <1>6 DEF ClientClose, Reading
<1>7. CASE Welcome
  BY <1>7 DEF Welcome
<1>8. CASE Receive
  <2>1. connected' = connected
    BY <1>8 DEF Receive
  <2> QED
    BY <1>8, <2>1, ReceiveServed
<1>9. CASE GapTimer
  <2>1. UNCHANGED <<entry, down, link, accepted, ws, connected, reconnects, snapshot, lastSeen>>
    BY <1>9 DEF GapTimer, serverVars, wire
  <2> QED
    BY <1>1, <2>1 DEF AwaitingOK, Reading
<1> QED
  BY <1>3, <1>4, <1>5, <1>6, <1>7, <1>8, <1>9, Zenon DEF Next, ServerSide

LEMMA ServingNext ==
  ASSUME TypeInv, Wiring, Idle, Flight, Connection, [Next]_vars
  PROVE  ServingOK'
<1>1. FeedTypes /\ SocketTypes /\ DownTypes /\ ClientTypes /\ Identity /\ AwaitingOK /\ OpeningOK /\ ServingOK
  BY TypeParts DEF Connection
<1>2. lastSeen \in Nat
  BY <1>1, Bounds DEF ClientTypes
<1> SUFFICES ASSUME Reading', connected'
             PROVE  /\ entry'[clientId'].sock = ws'
                    /\ \A k \in 1 .. Len(down'[ws']) : down'[ws'][k].type = "event"
                    /\ toldStale' \/ lastSeen' = 0 \/ entry'[clientId'].sent <= Len(down'[ws']) + lastSeen'
  BY DEF ServingOK
<1>3. CASE ServerSide
  <2>1. UNCHANGED clientVars
    BY <1>3, ServerSideKeeps
  <2>0. toldStale' = toldStale
    <3>1. CASE \E w \in Workspaces : Push(w) \/ SwitchWorkspace(w)
      BY <3>1 DEF Push, SwitchWorkspace, window
    <3>2. CASE \E s \in Sockets : Handshake(s) \/ Reconnect(s) \/ Admit(s) \/ Break(s) \/ ServerClose(s)
      BY <3>2 DEF Handshake, Reconnect, Admit, Settled, Break, ServerClose, window
    <3>3. CASE \/ \E i \in Ids : Forget(i)
               \/ Restart \/ Fetched
               \/ \E n \in Events : SequenceAck(n)
               \/ UNCHANGED vars
      BY <3>3 DEF Forget, Restart, Fetched, SequenceAck, vars, window
    <3> QED
      BY <1>3, <3>1, <3>2, <3>3, Zenon DEF ServerSide
  <2> DEFINE msgs == down[ws]
             j == clientId
  <2>2. ws \in Sockets /\ connected /\ j \in Ids
    BY <1>1, <2>1 DEF Reading, ClientTypes, clientVars, Identity
  <2>3. Reading
    BY <1>1, <1>3, <2>2, ReadingBegins DEF OpeningOK
  <2>4. /\ entry[j].sock = ws
        /\ \A k \in 1 .. Len(msgs) : msgs[k].type = "event"
        /\ toldStale \/ lastSeen = 0 \/ entry[j].sent <= Len(msgs) + lastSeen
    BY <1>1, <2>2, <2>3 DEF ServingOK
  <2>5. msgs \in Seq(Messages) /\ Len(msgs) \in Nat /\ entry[j].sent \in Nat
    BY <1>1, <2>2, LenProperties, FeedTypesFacts DEF DownTypes
  <2>7. entry'[j].sock = ws /\ (LineRests(j) \/ \E w \in Workspaces : LinePushed(j, w))
    BY <1>3, <2>2, <2>3, <2>4, LineOfServer
  <2>8. CASE LineRests(j)
    <3>1. down'[ws] = msgs /\ entry'[j].sent = entry[j].sent
      BY <2>8 DEF LineRests, Trimmed
    <3> QED
      BY <2>0, <2>1, <2>4, <2>7, <3>1 DEF clientVars
  <2>9. CASE \E w \in Workspaces : LinePushed(j, w)
    <3> DEFINE n == Event(entry[j].sent + 1, Len(log) + 1)
               more == Append(msgs, n)
    <3>1. down'[ws] = more /\ entry'[j].sent = entry[j].sent + 1
      BY <2>9 DEF LinePushed, Grew
    <3>2. n.type = "event"
      BY DEF Event
    <3> HIDE DEF msgs, n
    <3>3. Len(more) = Len(msgs) + 1 /\ more[Len(msgs) + 1] = n /\ \A k \in 1 .. Len(msgs) : more[k] = msgs[k]
      BY <2>5
    <3> HIDE DEF more
    <3>5. \A k \in 1 .. Len(more) : more[k].type = "event"
      BY <2>4, <2>5, <3>2, <3>3
    <3>6. toldStale \/ lastSeen = 0 \/ entry'[j].sent <= Len(more) + lastSeen
      BY <1>2, <2>4, <2>5, <3>1, <3>3
    <3> QED
      BY <2>0, <2>1, <2>7, <3>1, <3>5, <3>6 DEF clientVars
  <2> QED
    BY <2>7, <2>8, <2>9
<1>5. CASE Connect
  <2>1. ws = None /\ connected' = connected
    BY <1>5 DEF Connect
  <2> QED
    BY <1>1, <2>1 DEF Identity
<1>6. CASE ClientClose
  BY <1>6 DEF ClientClose
<1>7. CASE Welcome
  <2> DEFINE msgs == down[ws]
             m == msgs[1]
             i == m.id
             rest == down'[ws]
  <2>1. /\ ws \in Sockets /\ Reading /\ ~connected /\ i \in Ids /\ Head(msgs) = m
        /\ m.reconnected \in BOOLEAN /\ m.stale \in BOOLEAN
        /\ Len(msgs) \in Nat /\ Len(msgs) > 0 /\ Len(rest) = Len(msgs) - 1
        /\ \A k \in 1 .. Len(msgs) - 1 : rest[k] = msgs[k + 1]
    BY <1>7, WelcomeAwaited
  <2>2. /\ clientId' = i /\ entry' = entry /\ ws' = ws
        /\ lastSeen' = IF m.reconnected THEN lastSeen ELSE 0
        /\ toldStale' = (reconnects /\ (m.stale \/ ~m.reconnected))
    BY <1>7, <2>1 DEF Welcome, serverVars
  <2>3. /\ entry[i].sock = ws /\ (reconnects <=> snapshot # None)
        /\ m.reconnected => snapshot # None /\ i = snapshot.id
        /\ \A k \in 2 .. Len(msgs) : msgs[k].type = "event"
        /\ m.reconnected /\ ~m.stale => entry[i].sent + 1 <= Len(msgs) + lastSeen
    BY <1>1, <2>1 DEF AwaitingOK
  <2>4. entry[i].sent \in Nat
    BY <1>1, <2>1, FeedTypesFacts
  <2> HIDE DEF rest, msgs, i, m
  <2>5. \A k \in 1 .. Len(rest) : rest[k].type = "event"
    <3> SUFFICES ASSUME NEW k \in 1 .. Len(rest) PROVE rest[k].type = "event"
      OBVIOUS
    <3>1. k \in 1 .. Len(msgs) - 1 /\ k + 1 \in 2 .. Len(msgs)
      BY <2>1
    <3> QED
      BY <2>1, <2>3, <3>1
  <2>6. toldStale' \/ lastSeen' = 0 \/ entry[i].sent <= Len(rest) + lastSeen'
    <3>1. CASE m.reconnected
      <4>1. ~m.stale => entry[i].sent <= Len(rest) + lastSeen
        BY <1>2, <2>1, <2>3, <2>4, <3>1
      <4> QED
        BY <2>2, <2>3, <3>1, <4>1
    <3>2. CASE ~m.reconnected
      BY <2>2, <3>2
    <3> QED
      BY <3>1, <3>2
  <2> QED
    BY <2>2, <2>3, <2>5, <2>6 DEF rest
<1>8. CASE Receive
  <2> DEFINE msgs == down[ws]
             m == msgs[1]
             rest == down'[ws]
  <2>1. /\ ws \in Sockets /\ Reading /\ connected /\ clientId \in Ids /\ Head(msgs) = m /\ m.seq \in Nat
        /\ m.seq + Len(msgs) = entry[clientId].sent + 1
        /\ Len(msgs) \in Nat /\ Len(msgs) > 0 /\ Len(rest) = Len(msgs) - 1
        /\ \A k \in 1 .. Len(msgs) - 1 : rest[k] = msgs[k + 1]
    BY <1>8, ReceiveServed, Bounds
  <2>2. /\ clientId' = clientId /\ entry' = entry /\ ws' = ws /\ lastSeen' = m.seq
    BY <1>8, <2>1 DEF Receive, serverVars
  <2>3. entry[clientId].sock = ws /\ \A k \in 1 .. Len(msgs) : msgs[k].type = "event"
    BY <1>1, <2>1 DEF ServingOK
  <2>4. entry[clientId].sent \in Nat
    BY <1>1, <2>1, FeedTypesFacts
  <2> HIDE DEF rest, msgs, m
  <2>5. \A k \in 1 .. Len(rest) : rest[k].type = "event"
    BY <2>1, <2>3
  <2>6. entry[clientId].sent <= Len(rest) + m.seq
    BY <2>1, <2>4
  <2> QED
    BY <2>2, <2>3, <2>5, <2>6 DEF rest
<1>9. CASE GapTimer
  <2>1. UNCHANGED <<entry, down, link, accepted, ws, connected, clientId, lastSeen, toldStale>>
    BY <1>9 DEF GapTimer, serverVars, wire
  <2> QED
    BY <1>1, <2>1 DEF ServingOK, Reading
<1> QED
  BY <1>3, <1>5, <1>6, <1>7, <1>8, <1>9, Zenon DEF Next, ServerSide

LEMMA ConnectionNext ==
  ASSUME TypeInv, Wiring, Idle, Flight, Connection, [Next]_vars
  PROVE  Connection'
BY IdentityNext, ClientKnownNext, OpeningNext, AwaitingNext, ServingNext DEF Connection

----------------------------------------------------------------------------
(* What the window still lacks. *)

Current == ~owes /\ ~gapDue /\ ~Misrouted

Missing == Due \ view

\* The connection is one the window reads on from where it was.
TakenUpLine == Reading /\ (connected \/ (down[ws][1].reconnected /\ ~down[ws][1].stale))

OnItsWay(x) ==
  \E k \in 1 .. Len(down[ws]) :
    down[ws][k].type = "event" /\ down[ws][k].event = x /\ down[ws][k].seq > lastContiguous

\* A reconnect from what the window acknowledges gives it x again, or is told stale.
Replayable(e, x) == \E q : Holds(e, q, x) /\ q > lastContiguous
Retains(e) == Floor(e) > lastContiguous \/ \A x \in Missing : Replayable(e, x)

\* A window that counts as current lacks nothing but what is on its way or can be replayed to it.
Owed ==
  /\ view \subseteq Due
  /\ Current => /\ Alive(MyEntry) => Retains(entry[MyEntry])
                /\ TakenUpLine => \A x \in Missing : OnItsWay(x)

LEMMA OwedInit ==
  ASSUME Init
  PROVE  Owed
BY DEF Init, Owed, Current

\* Steps that change nothing of what the window lacks, and keep its client's buffer.
LEMMA RetainsTrimmed ==
  ASSUME NEW e, NEW f, IsClient(e), IsClient(f), Trimmed(e, f), Retains(e), lastContiguous \in Nat
  PROVE  Retains(f)
<1>1. Floor(e) \in Int /\ Floor(f) \in Int /\ Floor(e) <= Floor(f)
  BY DEF IsClient, Trimmed, Floor
<1>2. CASE Floor(f) > lastContiguous
  BY <1>2 DEF Retains
<1>3. CASE ~(Floor(f) > lastContiguous)
  <2>1. ~(Floor(e) > lastContiguous)
    BY <1>1, <1>3
  <2> SUFFICES ASSUME NEW x \in Missing PROVE Replayable(f, x)
    BY DEF Retains
  <2>2. PICK q : Holds(e, q, x) /\ q > lastContiguous
    BY <2>1 DEF Retains, Replayable
  <2>3. q \in Int
    <3>1. e.sent \in Int
      BY DEF IsClient
    <3> QED
      BY <1>1, <2>2, <3>1 DEF Holds
  <2>4. q > Floor(f)
    BY <1>1, <1>3, <2>2, <2>3
  <2>5. Holds(f, q, x)
    BY <2>2, <2>4 DEF Trimmed
  <2> QED
    BY <2>2, <2>5 DEF Replayable
<1> QED
  BY <1>2, <1>3

LEMMA CurrentHasClient ==
  ASSUME TypeInv, Connection, Current
  PROVE  MyEntry \in Ids /\ MyEntry # None /\ entry[MyEntry].in # "none"
         /\ (Alive(MyEntry) => lastContiguous <= entry[MyEntry].sent)
<1>1. MyEntry \in Ids \union {None}
  BY TypeParts, MyEntryType
<1>2. MyEntry # None
  BY DEF Current, Connection, Identity
<1> QED
  BY <1>1, <1>2 DEF Connection, ClientKnown

\* Nothing but a switch of the workspace re-routes the window.
LEMMA RoutingKept ==
  ASSUME TypeInv, Connection, [Next]_vars, MyEntry' = MyEntry, shown' = shown
  PROVE  Misrouted' <=> Misrouted
<1>1. CASE MyEntry = None
  BY <1>1 DEF Misrouted
<1>2. CASE MyEntry # None
  <2>1. MyEntry \in Ids /\ entry[MyEntry].in # "none"
    BY <1>2, TypeParts, MyEntryType DEF Connection, ClientKnown
  <2>2. PICK i \in Ids : MyEntry = i
    BY <2>1
  <2>3. \A w \in Workspaces : ~SwitchWorkspace(w)
    BY DEF SwitchWorkspace
  <2>4. entry'[i].workspace = entry[i].workspace
    BY <2>1, <2>2, <2>3, KnownStaysKnown
  <2> QED
    BY <1>2, <2>2, <2>4 DEF Misrouted
<1> QED
  BY <1>1, <1>2

LEMMA OwedQuiet ==
  ASSUME TypeInv, Wiring, Idle, Flight, Connection, Owed, [Next]_vars, log' = log, shown' = shown, view' = view,
         MyEntry' = MyEntry, lastContiguous' = lastContiguous, Current' => ~owes /\ ~gapDue,
         (Current /\ TakenUpLine') => \A x \in Missing : OnItsWay(x)'
  PROVE  Owed'
<1>1. Due' = Due /\ Missing' = Missing
  BY DEF Due, Missing
<1>2. view' \subseteq Due'
  BY <1>1 DEF Owed
<1>3. SUFFICES ASSUME Current'
               PROVE  /\ (Alive(MyEntry) => Retains(entry[MyEntry]))'
                      /\ TakenUpLine' => \A x \in Missing' : OnItsWay(x)'
  BY <1>2 DEF Owed
<1>4. Current
  BY <1>3, RoutingKept DEF Current
<1>5. PICK i \in Ids : MyEntry = i /\ entry[i].in # "none"
  BY <1>4, CurrentHasClient
<1>6. IsClient(entry[i]) /\ IsClient(entry'[i]) /\ lastContiguous \in Nat
  BY TypeParts, FeedTypesFacts, FeedTypesNext, GoodIsClient, Bounds DEF FeedTypes, ClientTypes
<1>7. Alive(i)' => Alive(i) /\ Trimmed(entry[i], entry'[i])
  BY <1>5, KnownStaysKnown, NotAPush, TypeParts
<1>8. Alive(i) => Retains(entry[i])
  BY <1>4, <1>5 DEF Owed
<1>9. Alive(i)' => Retains(entry'[i])
  BY <1>6, <1>7, <1>8, RetainsTrimmed
<1>10. Retains(entry'[i]) => Retains(entry[i])'
  BY <1>1 DEF Retains, Replayable
<1>11. (Alive(MyEntry) => Retains(entry[MyEntry]))'
  BY <1>5, <1>9, <1>10 DEF Alive, Retains, Replayable
<1> QED
  BY <1>1, <1>4, <1>11

LEMMA ReplayDelivers ==
  ASSUME TypeInv, Wiring, Idle, Buffers, Flight, Connection, Owed, [Next]_vars, ws \in Sockets, ws' = ws,
         lastContiguous' = lastContiguous, Opening, Reconnect(ws), Current, TakenUpLine', ~connected', NEW x \in Missing
  PROVE  OnItsWay(x)'
<1>1. FeedTypes /\ SocketTypes /\ DownTypes /\ ClientTypes
  BY TypeParts
<1>2. ~connected /\ clientId = None /\ hello[ws] = snapshot
  BY DEF Connection, OpeningOK, Identity
<1> DEFINE h == hello[ws]
           j == h.id
<1>3. PICK i \in Ids : i = j
  BY <1>1, ReconnectEffect, Zenon
<1>4. /\ i \in Retained /\ Good(entry'[i]) /\ Trimmed(entry[i], entry'[i]) /\ entry'[i].sent = entry[i].sent
      /\ h \in Snapshots
  BY <1>1, <1>3, ReconnectEffect, Zenon
<1>5. PICK msgs, missed, stale : stale \in BOOLEAN /\ Replay(msgs, i, h.lastSeq, stale, missed) /\ down' = Sent(ws, msgs)
  BY <1>1, <1>3, ReconnectEffect, Zenon
<1>6. MyEntry = i /\ h.lastSeq = lastContiguous
  BY <1>2, <1>3, <1>4, Bounds DEF MyEntry, Connection, Identity
<1> HIDE DEF h, j
<1>7. Alive(i) /\ lastContiguous <= entry[i].sent /\ Retains(entry[i])
  BY <1>4, <1>6, CurrentHasClient DEF Alive, Retained, Owed
<1>8. lastContiguous \in Nat /\ IsClient(entry[i]) /\ IsClient(entry'[i])
  BY <1>1, <1>4, FeedTypesFacts, GoodIsClient, Bounds DEF ClientTypes
<1>9. Retains(entry'[i])
  BY <1>4, <1>7, <1>8, RetainsTrimmed
<1>10. msgs \in Seq(Messages) /\ missed \in Nat /\ Len(msgs) = missed + 1 /\ msgs[1] = Acknowledgement(i, TRUE, stale)
  BY <1>5 DEF Replay
<1>11. down'[ws] = msgs
  <2>1. Settled(ws)
    BY DEF Reconnect
  <2> QED
    BY <1>5, <1>10, <2>1, SettledLine
<1>12. ~stale
  BY <1>10, <1>11 DEF TakenUpLine, Acknowledgement
<1> DEFINE f == entry'[i]
           sent == f.sent
           floor == Floor(f)
<1>13. sent \in Nat /\ floor \in Nat /\ floor <= sent /\ lastContiguous <= sent
  BY <1>4, <1>7, <1>8 DEF IsClient, Floor
<1>14. ~stale => (missed = 0 /\ lastContiguous >= sent) \/ missed = sent - lastContiguous
  BY <1>5, <1>6, Zenon DEF Replay
<1>15. missed = sent - lastContiguous
  <2> HIDE DEF sent
  <2> QED
    BY <1>8, <1>12, <1>13, <1>14
<1>16. \A k \in 2 .. missed + 1 :
         \E y \in Events : msgs[k] = Event(sent - (missed + 1) + k, y) /\ Holds(f, sent - (missed + 1) + k, y)
  BY <1>5, Zenon DEF Replay
<1>17. \A q, y : Holds(f, q, y) => q \in floor + 1 .. sent /\ y = f.buffer[q - floor]
  BY DEF Holds
<1> HIDE DEF f, sent, floor
<1>18. ~(floor > lastContiguous)
  <2> SUFFICES ASSUME floor > lastContiguous PROVE FALSE
    OBVIOUS
  <2>1. 2 \in 2 .. missed + 1 /\ sent - (missed + 1) + 2 = lastContiguous + 1
    BY <1>8, <1>13, <1>15
  <2>2. lastContiguous + 1 \in floor + 1 .. sent
    BY <1>16, <1>17, <2>1
  <2> QED
    BY <1>8, <1>13, <2>2
<1>19. Replayable(f, x)
  BY <1>9, <1>18 DEF Retains, f, floor
<1>20. PICK q : Holds(f, q, x) /\ q > lastContiguous
  BY <1>19 DEF Replayable
<1>21. q \in floor + 1 .. sent /\ x = f.buffer[q - floor]
  BY <1>17, <1>20
<1> DEFINE k == q - lastContiguous + 1
<1>22. k \in 2 .. missed + 1 /\ sent - (missed + 1) + k = q /\ k \in 1 .. Len(msgs)
  BY <1>8, <1>10, <1>13, <1>15, <1>20, <1>21
<1> HIDE DEF k
<1>23. PICK y \in Events : msgs[k] = Event(q, y) /\ Holds(f, q, y)
  BY <1>16, <1>22
<1>24. y = x
  BY <1>17, <1>21, <1>23
<1>25. msgs[k].type = "event" /\ msgs[k].event = x /\ msgs[k].seq = q
  BY <1>23, <1>24 DEF Event
<1> QED
  BY <1>11, <1>20, <1>22, <1>25 DEF OnItsWay

\* What the window reads from is the connection of the client it takes itself for.
LEMMA LineOfWindow ==
  ASSUME TypeInv, Connection, Reading, ws \in Sockets
  PROVE  \E j \in Ids : /\ entry[j].sock = ws
                        /\ connected => j = clientId
                        /\ ~connected => /\ j = down[ws][1].id /\ Len(down[ws]) > 0
                                         /\ down[ws][1].reconnected => j = MyEntry
<1>1. DownTypes /\ ClientTypes /\ Identity
  BY TypeParts DEF Connection
<1>2. CASE connected
  BY <1>1, <1>2 DEF Connection, ServingOK, ClientTypes, Identity
<1>3. CASE ~connected
  <2> DEFINE m == down[ws][1]
  <2>1. /\ down[ws] # <<>> /\ m.type = "ack" /\ entry[m.id].sock = ws
        /\ m.reconnected => snapshot # None /\ m.id = snapshot.id
    BY <1>3 DEF Connection, AwaitingOK
  <2>2. m \in Messages /\ Len(down[ws]) > 0
    BY <1>1, <2>1, EmptySeq, LenProperties, ElementOfSeq DEF DownTypes
  <2>3. m.id \in Ids
    BY <2>1, <2>2, MessageFields
  <2>4. m.reconnected => m.id = MyEntry
    BY <1>1, <1>3, <2>1 DEF Identity, MyEntry
  <2> QED
    BY <1>3, <2>1, <2>2, <2>3, <2>4
<1> QED
  BY <1>2, <1>3

LEMMA OwedServerQuiet ==
  ASSUME TypeInv, Wiring, Idle, Buffers, Flight, Connection, Owed, [Next]_vars, ServerSide,
         log' = log, shown' = shown, view' = view, owes' = owes
  PROVE  Owed'
<1>1. FeedTypes /\ SocketTypes /\ DownTypes /\ ClientTypes
  BY TypeParts
<1>2. UNCHANGED clientVars
  BY ServerSideKeeps
<1>3. /\ MyEntry' = MyEntry /\ lastContiguous' = lastContiguous /\ gapDue' = gapDue
      /\ ws' = ws /\ connected' = connected
  BY <1>2 DEF clientVars, MyEntry
<1>4. Current' => ~owes /\ ~gapDue
  BY <1>3 DEF Current
<1>5. ASSUME Current, TakenUpLine', NEW x \in Missing
      PROVE  OnItsWay(x)'
  <2>1. ws \in Sockets /\ Reading'
    BY <1>1, <1>3, <1>5 DEF TakenUpLine, Reading, ClientTypes
  <2>2. CASE Reading
    <3>1. PICK j \in Ids : entry[j].sock = ws
      BY <2>1, <2>2, LineOfWindow
    <3>2. LineRests(j)
      BY <1>1, <2>1, <2>2, <3>1, LineOfServer, NotAPush DEF LinePushed
    <3>3. down'[ws'] = down[ws]
      BY <1>3, <3>2 DEF LineRests
    <3>4. TakenUpLine
      BY <1>3, <1>5, <2>2, <3>3 DEF TakenUpLine
    <3>5. OnItsWay(x)
      BY <1>5, <3>4 DEF Owed
    <3> QED
      BY <1>3, <3>3, <3>5 DEF OnItsWay
  <2>3. CASE ~Reading
    <3>1. Opening /\ (Reconnect(ws) \/ Admit(ws))
      BY <2>1, <2>3, ReadingBegins
    <3>2. ~connected'
      BY <1>3, <3>1 DEF Connection, OpeningOK
    <3>3. CASE Reconnect(ws)
      BY <1>3, <1>5, <2>1, <3>1, <3>2, <3>3, ReplayDelivers
    <3>4. CASE Admit(ws)
      <4>1. PICK i \in Ids : /\ down' = Sent(ws, <<Acknowledgement(i, FALSE, FALSE)>>)
                             /\ <<Acknowledgement(i, FALSE, FALSE)>> \in Seq(Messages)
        BY <1>1, <2>1, <3>4, AdmitEffect
      <4> DEFINE ack == Acknowledgement(i, FALSE, FALSE)
                 msgs == <<ack>>
      <4>2. ack.reconnected = FALSE
        BY DEF Acknowledgement
      <4>3. Settled(ws)
        BY <3>4 DEF Admit
      <4>4. down'[ws] = msgs
        BY <2>1, <3>1, <4>1, <4>3, SettledLine
      <4> HIDE DEF ack
      <4>5. msgs[1] = ack
        OBVIOUS
      <4> HIDE DEF msgs
      <4>6. ~TakenUpLine'
        BY <1>3, <3>2, <4>2, <4>4, <4>5 DEF TakenUpLine
      <4> QED
        BY <1>5, <4>6
    <3> QED
      BY <3>1, <3>3, <3>4
  <2> QED
    BY <2>2, <2>3
<1> QED
  BY <1>3, <1>4, <1>5, OwedQuiet

LEMMA ConnectingKeepsEntry ==
  ASSUME ClientTypes, Connect \/ ClientClose
  PROVE  MyEntry' = MyEntry
<1>1. CASE Connect
  BY <1>1 DEF Connect, MyEntry
<1>2. CASE ClientClose /\ clientId # None
  <2>1. clientId' = None /\ snapshot' = [id |-> clientId, lastSeq |-> lastContiguous]
    BY <1>2 DEF ClientClose
  <2> QED
    BY <1>2, <2>1, Bounds DEF MyEntry, ClientTypes, Snapshots
<1>3. CASE ClientClose /\ clientId = None
  BY <1>3 DEF ClientClose, MyEntry
<1> QED
  BY <1>1, <1>2, <1>3

LEMMA OwedConnecting ==
  ASSUME TypeInv, Wiring, Idle, Buffers, Flight, Connection, Owed, [Next]_vars, Connect \/ ClientClose
  PROVE  Owed'
<1>1. FeedTypes /\ SocketTypes /\ DownTypes /\ ClientTypes
  BY TypeParts
<1>2. UNCHANGED <<log, shown, view, owes, gapDue, lastContiguous>>
  BY DEF Connect, ClientClose, window
<1>3. MyEntry' = MyEntry
  BY <1>1, ConnectingKeepsEntry
<1>4. ~Reading'
  <2>1. CASE Connect
    <3>1. ws = None
      BY <2>1 DEF Connect
    <3>2. PICK s \in Sockets : ws' = s /\ (accepted' = [accepted EXCEPT ![s] = "open"] \/ link' = link)
      BY <2>1 DEF Connect
    <3>3. ~link[s]
      BY <3>1, Bounds DEF Wiring
    <3> QED
      BY <1>1, <3>2, <3>3 DEF Reading, SocketTypes
  <2>2. CASE ClientClose
    BY <2>2 DEF ClientClose, Reading
  <2> QED
    BY <2>1, <2>2
<1>5. ~TakenUpLine'
  BY <1>4 DEF TakenUpLine
<1>6. Current' => ~owes /\ ~gapDue
  BY <1>2 DEF Current
<1> QED
  BY <1>2, <1>3, <1>5, <1>6, OwedQuiet

LEMMA WelcomeKeepsEntry ==
  ASSUME TypeInv, Wiring, Idle, Connection, Welcome, ~owes'
  PROVE  /\ ~owes /\ MyEntry' = MyEntry /\ lastContiguous' = lastContiguous
         /\ down[ws][1].reconnected /\ ~down[ws][1].stale
<1>1. ClientTypes /\ WindowTypes /\ Identity
  BY TypeParts DEF Connection
<1> DEFINE m == down[ws][1]
<1>2. /\ ws \in Sockets /\ Reading /\ ~connected /\ clientId = None /\ m.id \in Ids /\ Head(down[ws]) = m
      /\ m.reconnected \in BOOLEAN /\ m.stale \in BOOLEAN
  BY WelcomeAwaited
<1>3. /\ clientId' = m.id
      /\ lastContiguous' = IF m.reconnected THEN lastContiguous ELSE 0
      /\ owes' = (owes \/ (reconnects /\ (m.stale \/ ~m.reconnected)))
  BY <1>2 DEF Welcome
<1>4. (reconnects <=> snapshot # None) /\ (m.reconnected => snapshot # None /\ m.id = snapshot.id)
  BY <1>2 DEF Connection, AwaitingOK
<1> HIDE DEF m
<1>5. ~owes /\ MyEntry # None
  BY <1>1, <1>3 DEF Identity
<1>6. snapshot # None
  BY <1>2, <1>5 DEF MyEntry
<1>7. m.reconnected /\ ~m.stale /\ m.id = snapshot.id
  BY <1>2, <1>3, <1>4, <1>6
<1>8. MyEntry' = MyEntry /\ lastContiguous' = lastContiguous
  BY <1>2, <1>3, <1>6, <1>7, Bounds DEF MyEntry
<1> QED
  BY <1>5, <1>7, <1>8 DEF m

LEMMA OwedWelcome ==
  ASSUME TypeInv, Wiring, Idle, Buffers, Flight, Connection, Owed, [Next]_vars, Welcome
  PROVE  Owed'
<1> DEFINE msgs == down[ws]
           m == msgs[1]
           rest == down'[ws]
<1>1. /\ Reading /\ m.type = "ack"
      /\ Len(msgs) \in Nat /\ Len(msgs) > 0 /\ Len(rest) = Len(msgs) - 1
      /\ \A k \in 1 .. Len(msgs) - 1 : rest[k] = msgs[k + 1]
  BY WelcomeAwaited
<1>2. UNCHANGED <<log, ws, gapDue, shown, view>>
  BY DEF Welcome
<1> HIDE DEF rest, m, msgs
<1>3. CASE owes'
  BY <1>2, <1>3 DEF Owed, Current, Due
<1>4. CASE ~owes'
  <2>1. /\ ~owes /\ MyEntry' = MyEntry /\ lastContiguous' = lastContiguous
        /\ down[ws][1].reconnected /\ ~down[ws][1].stale
    BY <1>4, WelcomeKeepsEntry
  <2>2. TakenUpLine
    BY <1>1, <2>1 DEF TakenUpLine
  <2>3. ASSUME Current, NEW x \in Missing PROVE OnItsWay(x)'
    <3>1. PICK k \in 1 .. Len(msgs) : msgs[k].type = "event" /\ msgs[k].event = x /\ msgs[k].seq > lastContiguous
      BY <2>2, <2>3 DEF Owed, OnItsWay, msgs
    <3>2. k # 1
      BY <1>1, <3>1 DEF m
    <3>3. k - 1 \in 1 .. Len(rest) /\ rest[k - 1] = msgs[k]
      BY <1>1, <3>1, <3>2
    <3> QED
      BY <1>2, <2>1, <3>1, <3>3 DEF OnItsWay, rest
  <2>4. Current' => ~owes /\ ~gapDue
    BY <1>2, <2>1 DEF Current
  <2> QED
    BY <1>2, <2>1, <2>3, <2>4, OwedQuiet
<1> QED
  BY <1>3, <1>4

LEMMA OwedPush ==
  ASSUME TypeInv, Wiring, Idle, Buffers, Flight, Connection, Owed, [Next]_vars, NEW w \in Workspaces, Push(w)
  PROVE  Owed'
<1>1. FeedTypes /\ SocketTypes /\ DownTypes /\ ClientTypes
  BY TypeParts
<1> DEFINE n == Len(log) + 1
<1>2. UNCHANGED <<accepted, link, ws, connected, clientId, snapshot, lastContiguous, gapDue, shown, view, owes>>
  BY DEF Push, clientVars, window
<1>3. /\ n \in Events /\ log' = Append(log, w)
      /\ \A i \in Ids : /\ Kin(entry[i], entry'[i])
                        /\ Matches(i, w) => Grew(entry[i], entry'[i], n)
                        /\ ~Matches(i, w) => entry'[i] = entry[i]
  BY <1>1, PushEffect, Zenon
<1>4. MyEntry' = MyEntry
  BY <1>2 DEF MyEntry
<1>5. /\ DOMAIN log' = DOMAIN log \union {n} /\ log'[n] = w
      /\ \A x \in DOMAIN log : log'[x] = log[x]
  BY <1>1, <1>3, PushedLog
<1> HIDE DEF n
<1>6. Due \subseteq Due' /\ Due' \subseteq Due \union {n} /\ (n \in Due' => w = shown \/ n \in Due)
  BY <1>2, <1>5 DEF Due
<1>7. view' \subseteq Due' /\ Missing' \subseteq Missing \union {n} /\ (w # shown => Missing' = Missing)
  BY <1>2, <1>6 DEF Owed, Missing
<1> SUFFICES ASSUME Current'
             PROVE  /\ (Alive(MyEntry) => Retains(entry[MyEntry]))'
                    /\ TakenUpLine' => \A x \in Missing' : OnItsWay(x)'
  BY <1>7 DEF Owed
<1>8. Current
  BY <1>2, <1>4, RoutingKept DEF Current
<1>9. PICK i \in Ids : MyEntry = i
  BY <1>8, CurrentHasClient
<1>10. i # None /\ entry[i].in # "none" /\ (Alive(i) => lastContiguous <= entry[i].sent) /\ entry[i].workspace = shown
  BY <1>8, <1>9, CurrentHasClient DEF Current, Misrouted
<1> DEFINE e == entry[i]
           f == entry'[i]
<1>11. /\ e.sent \in Nat /\ lastContiguous \in Nat /\ Floor(e) \in Int /\ Floor(f) \in Int
  <2>1. IsClient(e) /\ IsClient(f)
    BY <1>1, FeedTypesFacts, FeedTypesNext, GoodIsClient DEF FeedTypes
  <2> QED
    BY SMTT(20), <1>1, <2>1, Bounds DEF IsClient, Floor, ClientTypes
<1>12. Alive(i)' => Alive(i)
  BY <1>3 DEF Alive, Kin
<1>13. Alive(i) => (Matches(i, w) <=> w = shown)
  BY <1>10 DEF Alive, Matches, Active, Retained
<1>14. ASSUME Alive(i)' PROVE Retains(entry[i])'
  <2>1. Alive(i) /\ Retains(e) /\ lastContiguous <= e.sent
    BY <1>8, <1>9, <1>10, <1>12, <1>14 DEF Owed
  <2>2. CASE w = shown
    <3>1. Grew(e, f, n)
      BY <1>3, <1>13, <2>1, <2>2
    <3> HIDE DEF e, f
    <3>2. CASE Floor(f) > lastContiguous
      BY <1>2, <3>2 DEF Retains, f
    <3>3. CASE ~(Floor(f) > lastContiguous)
      <4>1. ~(Floor(e) > lastContiguous)
        BY <1>11, <3>1, <3>3 DEF Grew
      <4>2. ASSUME NEW x \in Missing PROVE Replayable(f, x)
        <5>1. PICK q : Holds(e, q, x) /\ q > lastContiguous
          BY <2>1, <4>1, <4>2 DEF Retains, Replayable
        <5>2. q \in Int
          BY <1>11, <5>1 DEF Holds
        <5>3. q > Floor(f)
          BY <1>11, <3>3, <5>1, <5>2
        <5> QED
          BY <3>1, <5>1, <5>3 DEF Grew, Replayable
      <4>3. Replayable(f, n)
        <5>1. f.sent = e.sent + 1
          BY <3>1 DEF Grew
        <5>2. f.sent > Floor(f) /\ f.sent > lastContiguous
          BY <1>11, <2>1, <3>3, <5>1
        <5>3. Holds(f, f.sent, n)
          BY <3>1, <5>2 DEF Grew
        <5> QED
          BY <5>2, <5>3 DEF Replayable
      <4>4. \A x \in Missing' : Replayable(f, x)
        BY <1>7, <4>2, <4>3
      <4>5. \A x : Replayable(f, x) => Replayable(entry[i], x)'
        BY <1>2 DEF Replayable, f
      <4> QED
        BY <4>4, <4>5 DEF Retains
    <3> QED
      BY <3>2, <3>3
  <2>3. CASE w # shown
    <3>1. entry'[i] = entry[i] /\ Missing' = Missing
      BY <1>3, <1>7, <1>13, <2>1, <2>3
    <3> QED
      BY <1>2, <2>1, <3>1 DEF Retains, Replayable
  <2> QED
    BY <2>2, <2>3
<1>15. (Alive(MyEntry) => Retains(entry[MyEntry]))'
  BY <1>4, <1>9, <1>14 DEF Alive, Retains, Replayable
<1>16. ASSUME TakenUpLine', NEW x \in Missing' PROVE OnItsWay(x)'
  <2>1. ws \in Sockets /\ Reading /\ link[ws]
    BY <1>1, <1>2, <1>16 DEF TakenUpLine, Reading, ClientTypes
  <2>2. PICK j \in Ids : /\ entry[j].sock = ws
                         /\ connected => j = clientId
                         /\ ~connected => /\ j = down[ws][1].id /\ Len(down[ws]) > 0
                                          /\ down[ws][1].reconnected => j = MyEntry
    BY <2>1, LineOfWindow
  <2>3. LineRests(j) \/ LinePushed(j, w)
    BY <2>1, <2>2, LinePush
  <2> DEFINE msgs == down[ws]
             msg == Event(entry[j].sent + 1, n)
             more == Append(msgs, msg)
  <2>4. msgs \in Seq(Messages) /\ Len(msgs) \in Nat
    BY <1>1, <2>1, LenProperties DEF DownTypes
  <2>5. down'[ws'] = msgs \/ (down'[ws'] = more /\ LinePushed(j, w))
    BY <1>2, <2>3 DEF LineRests, LinePushed, n
  <2>6. msg.type = "event" /\ msg.seq = entry[j].sent + 1 /\ msg.event = n
    BY DEF Event
  <2> HIDE DEF msg, msgs
  <2>7. Len(more) = Len(msgs) + 1 /\ more[Len(msgs) + 1] = msg /\ \A k \in 1 .. Len(msgs) : more[k] = msgs[k]
    BY <2>4
  <2> HIDE DEF more
  <2>8. TakenUpLine
    <3>1. ~connected => down'[ws'][1] = msgs[1]
      BY <2>2, <2>4, <2>5, <2>7 DEF msgs
    <3> QED
      BY <1>2, <1>16, <2>1, <3>1 DEF TakenUpLine, msgs
  <2>9. CASE x \in Missing
    <3>1. PICK k \in 1 .. Len(msgs) : msgs[k].type = "event" /\ msgs[k].event = x /\ msgs[k].seq > lastContiguous
      BY <1>8, <2>8, <2>9 DEF Owed, OnItsWay, msgs
    <3>2. k \in 1 .. Len(down'[ws']) /\ down'[ws'][k] = msgs[k]
      BY <2>4, <2>5, <2>7, <3>1
    <3> QED
      BY <1>2, <3>1, <3>2 DEF OnItsWay
  <2>10. CASE x \notin Missing
    <3>1. x = n /\ w = shown
      BY <1>7, <1>16, <2>10
    <3>2. j = i
      BY <1>1, <1>9, <2>1, <2>2, <2>8 DEF TakenUpLine, MyEntry, Connection, Identity
    <3>3. entry[i].in = "clients"
      BY <2>1, <2>2, <3>2, Bounds DEF Wiring, Active
    <3>4. Alive(i) /\ Matches(i, w)
      BY <1>13, <3>1, <3>3 DEF Alive
    <3>5. LinePushed(j, w)
      BY <2>3, <3>2, <3>4 DEF LineRests
    <3>6. down'[ws'] = more
      BY <1>2, <3>5 DEF LinePushed, more, msgs, msg, n
    <3>7. msg.seq > lastContiguous /\ msg.event = x
      BY <1>10, <1>11, <2>6, <3>1, <3>2, <3>4
    <3>8. Len(msgs) + 1 \in 1 .. Len(down'[ws'])
      BY <2>4, <2>7, <3>6
    <3> QED
      BY <1>2, <2>6, <2>7, <3>6, <3>7, <3>8 DEF OnItsWay
  <2> QED
    BY <2>9, <2>10
<1> QED
  BY <1>15, <1>16

LEMMA OwedReceive ==
  ASSUME TypeInv, Wiring, Idle, Buffers, Flight, Connection, Owed, [Next]_vars, Receive
  PROVE  Owed'
<1>1. FeedTypes /\ DownTypes /\ ClientTypes
  BY TypeParts
<1> DEFINE i == clientId
           msgs == down[ws]
           m == msgs[1]
           rest == down'[ws]
           e == entry[i]
<1>2. /\ ws \in Sockets /\ Reading /\ connected /\ i \in Ids /\ i # None
      /\ Head(msgs) = m /\ m.seq \in Nat /\ m.seq + Len(msgs) = e.sent + 1
      /\ e.sock = ws /\ Aligned(e, msgs)
      /\ Len(msgs) \in Nat /\ Len(msgs) > 0 /\ Len(rest) = Len(msgs) - 1
      /\ \A k \in 1 .. Len(msgs) - 1 : rest[k] = msgs[k + 1]
  BY ReceiveServed, Bounds
<1>3. /\ UNCHANGED <<log, entry, ws, connected, clientId, snapshot, shown, owes>>
      /\ gapDue' = (gapDue \/ Gap(m.seq))
      /\ lastContiguous' = IF Gap(m.seq) THEN lastContiguous ELSE m.seq
      /\ view' = view \union ({m.event} \intersect Due)
  BY <1>2 DEF Receive, serverVars
<1>4. MyEntry = i /\ MyEntry' = i
  BY <1>2, <1>3 DEF MyEntry
<1>5. Due' = Due /\ view' \subseteq Due' /\ Missing' = Missing \ {m.event}
  BY <1>3 DEF Owed, Due, Missing
<1> SUFFICES ASSUME Current'
             PROVE  /\ (Alive(MyEntry) => Retains(entry[MyEntry]))'
                    /\ TakenUpLine' => \A x \in Missing' : OnItsWay(x)'
  BY <1>5 DEF Owed
<1>6. Current /\ lastContiguous' = m.seq
  BY <1>3, <1>4 DEF Current, Misrouted
<1>7. TakenUpLine
  BY <1>2 DEF TakenUpLine
<1>8. e.sent \in Nat /\ Floor(e) \in Int
  <2>1. IsClient(e)
    BY <1>1, <1>2, FeedTypesFacts
  <2> QED
    BY <2>1 DEF IsClient, Floor
<1>9. ASSUME NEW x \in Missing'
      PROVE  \E k \in 2 .. Len(msgs) :
               /\ msgs[k].type = "event" /\ msgs[k].event = x /\ msgs[k].seq > m.seq
               /\ ~(Floor(e) > m.seq) => Holds(e, msgs[k].seq, x)
  <2>1. PICK k \in 1 .. Len(msgs) : msgs[k].type = "event" /\ msgs[k].event = x
    BY <1>5, <1>6, <1>7, <1>9 DEF Owed, OnItsWay
  <2>2. k # 1
    BY <1>5, <1>9, <2>1
  <2>3. msgs[k].seq = e.sent - Len(msgs) + k /\ (msgs[k].seq > Floor(e) => Holds(e, msgs[k].seq, msgs[k].event))
    BY <1>2, <2>1 DEF Aligned
  <2> HIDE DEF m, msgs, e
  <2>4. k \in 2 .. Len(msgs) /\ msgs[k].seq > m.seq /\ msgs[k].seq \in Int
    BY SMTT(20), <1>2, <1>8, <2>1, <2>2, <2>3
  <2>5. ~(Floor(e) > m.seq) => msgs[k].seq > Floor(e)
    BY <1>2, <1>8, <2>4
  <2> QED
    BY <2>1, <2>3, <2>4, <2>5
<1> HIDE DEF m, msgs, rest
<1>10. ASSUME NEW x \in Missing' PROVE OnItsWay(x)'
  <2>1. PICK k \in 2 .. Len(msgs) : msgs[k].type = "event" /\ msgs[k].event = x /\ msgs[k].seq > m.seq
    BY <1>9, <1>10
  <2>2. k - 1 \in 1 .. Len(rest) /\ rest[k - 1] = msgs[k]
    BY <1>2, <2>1
  <2>3. rest = down'[ws']
    BY <1>3 DEF rest
  <2> QED
    BY <1>6, <2>1, <2>2, <2>3 DEF OnItsWay
<1>11. Retains(e)'
  <2>1. Floor(e)' = Floor(e) /\ \A q, x : Holds(e, q, x)' <=> Holds(e, q, x)
    BY <1>3 DEF Floor, Holds
  <2>2. CASE Floor(e) > m.seq
    BY <1>6, <2>1, <2>2 DEF Retains
  <2>3. CASE ~(Floor(e) > m.seq)
    <3>1. ASSUME NEW x \in Missing' PROVE Replayable(e, x)'
      <4>1. \E k \in 2 .. Len(msgs) : msgs[k].seq > m.seq /\ Holds(e, msgs[k].seq, x)
        BY <1>9, <2>3, <3>1
      <4>2. PICK q : q > m.seq /\ Holds(e, q, x)
        BY <4>1
      <4>3. Holds(e, q, x)'
        BY <2>1, <4>2
      <4> QED
        BY <1>6, <4>2, <4>3 DEF Replayable
    <3> QED
      BY <3>1 DEF Retains
  <2> QED
    BY <2>2, <2>3
<1>12. Retains(entry[MyEntry])'
  BY <1>3, <1>4, <1>11 DEF Retains, Replayable
<1> QED
  BY <1>10, <1>12

LEMMA OwedFetching ==
  ASSUME TypeInv, Connection, Owed, [Next]_vars, GapTimer \/ Fetched \/ \E w \in Workspaces : SwitchWorkspace(w)
  PROVE  Owed'
<1>1. CASE GapTimer
  BY <1>1 DEF GapTimer, Owed, Current, Due
<1>2. CASE \E w \in Workspaces : SwitchWorkspace(w)
  BY <1>2 DEF SwitchWorkspace, Owed, Current
<1>3. CASE Fetched
  <2>1. /\ UNCHANGED <<log, shown, clientId, snapshot>> /\ view' = IF Misrouted THEN view ELSE Due
    BY <1>3 DEF Fetched, clientVars
  <2>2. Misrouted' <=> Misrouted
    BY <2>1, RoutingKept DEF MyEntry
  <2>3. Due' = Due /\ view' \subseteq Due'
    BY <2>1 DEF Due, Owed
  <2>4. Current' => Missing' = {}
    BY <2>1, <2>2, <2>3 DEF Current, Missing
  <2> QED
    BY <2>3, <2>4 DEF Owed, Retains
<1> QED
  BY <1>1, <1>2, <1>3

LEMMA OwedNext ==
  ASSUME TypeInv, Wiring, Idle, Buffers, Flight, Connection, Owed, [Next]_vars
  PROVE  Owed'
<1>1. ASSUME ServerSide, log' = log, UNCHANGED window PROVE Owed'
  BY <1>1, OwedServerQuiet DEF window
<1>2. CASE \E i \in Ids : Forget(i)
  BY <1>1, <1>2 DEF ServerSide, Forget
<1>3. CASE \E s \in Sockets : Handshake(s) \/ Reconnect(s) \/ Admit(s) \/ Break(s) \/ ServerClose(s)
  BY <1>1, <1>3 DEF ServerSide, Handshake, Reconnect, Admit, Settled, Break, ServerClose
<1>4. CASE Restart \/ UNCHANGED vars \/ \E n \in Events : SequenceAck(n)
  BY <1>1, <1>4 DEF ServerSide, Restart, SequenceAck, vars
<1>5. CASE Connect \/ ClientClose
  BY <1>5, OwedConnecting
<1>6. CASE Welcome
  BY <1>6, OwedWelcome
<1>7. CASE Receive
  BY <1>7, OwedReceive
<1>8. CASE \E w \in Workspaces : Push(w)
  BY <1>8, OwedPush
<1>9. CASE GapTimer \/ Fetched \/ \E w \in Workspaces : SwitchWorkspace(w)
  BY <1>9, OwedFetching
<1> QED
  BY <1>2, <1>3, <1>4, <1>5, <1>6, <1>7, <1>8, <1>9, Zenon DEF Next

----------------------------------------------------------------------------
(* What the window can rely on. *)

FeedInv == TypeInv /\ Wiring /\ Idle /\ Buffers /\ Flight /\ Connection /\ Owed

LEMMA FeedInvInit ==
  ASSUME Init
  PROVE  FeedInv
<1>1. Idle
  BY DEF Init, Idle
<1> QED
  BY <1>1, TypeInvInit, WiringInit, BuffersInit, FlightInit, ConnectionInit, OwedInit DEF FeedInv

LEMMA FeedInvNext ==
  ASSUME FeedInv, [Next]_vars
  PROVE  FeedInv'
BY TypeInvNext, WiringNext, IdleNext, BuffersNext, FlightNext, ConnectionNext, OwedNext DEF FeedInv

LEMMA FeedInvariant == Spec => []FeedInv
<1>1. Init => FeedInv
  BY FeedInvInit
<1>2. FeedInv /\ [Next]_vars => FeedInv'
  BY FeedInvNext
<1> QED
  BY <1>1, <1>2, PTL DEF Spec

\* A window that is served, owes no fetch and has no message outstanding holds every event of the
\* workspace it shows, however often server.ts replayed, evicted or trimmed its buffer
\* (server.ts:488-533, client.ts:692-694).
THEOREM QuietIsCurrent == Spec => []QuietMeansCurrent
<1>1. FeedInv => QuietMeansCurrent
  <2> SUFFICES ASSUME FeedInv, Served, down[ws] = <<>>, ~owes, ~gapDue, ~Misrouted, NEW x \in Due, x \notin view
               PROVE  FALSE
    BY DEF QuietMeansCurrent
  <2>1. ws # None /\ link[ws] /\ connected
    BY DEF Served, FeedInv, Connection, Identity
  <2>2. Reading
    BY <2>1 DEF FeedInv, Connection, OpeningOK, Opening, Reading
  <2>3. x \in Missing /\ Current /\ TakenUpLine
    BY <2>1, <2>2 DEF Missing, Current, TakenUpLine
  <2>4. OnItsWay(x)
    BY <2>3 DEF FeedInv, Owed
  <2>5. Len(down[ws]) = 0
    OBVIOUS
  <2>6. PICK k \in 1 .. Len(down[ws]) : TRUE
    BY <2>4 DEF OnItsWay
  <2> QED
    BY <2>5, <2>6
<1> QED
  BY <1>1, FeedInvariant, PTL

LEMMA GapStep ==
  ASSUME FeedInv, [Next]_vars, ~gapDue, gapDue'
  PROVE  toldStale
<1>1. TypeInv /\ Wiring /\ Idle /\ Flight /\ Connection /\ FeedTypes /\ ClientTypes
  BY TypeParts DEF FeedInv
<1>2. ~ServerSide
  BY ServerSideKeeps DEF clientVars
<1>3. ~(Connect \/ ClientClose \/ Welcome \/ GapTimer)
  BY DEF Connect, ClientClose, Welcome, GapTimer
<1>4. Receive
  BY <1>2, <1>3, Zenon DEF Next, ServerSide
<1> DEFINE m == down[ws][1]
           len == Len(down[ws])
           sent == entry[clientId].sent
<1>5. /\ Reading /\ connected /\ clientId \in Ids /\ Head(down[ws]) = m
      /\ m.seq \in Nat /\ m.seq + len = sent + 1 /\ len \in Nat
  BY <1>1, <1>4, ReceiveServed, Bounds
<1>6. Gap(m.seq)
  BY <1>4, <1>5 DEF Receive
<1>7. toldStale \/ lastSeen = 0 \/ sent <= len + lastSeen
  BY <1>1, <1>5 DEF Connection, ServingOK
<1>8. sent \in Nat /\ lastSeen \in Nat
  BY <1>1, <1>5, FeedTypesFacts, Bounds DEF ClientTypes
<1> HIDE DEF m, len, sent
<1> QED
  BY <1>5, <1>6, <1>7, <1>8 DEF Gap

\* The window finds a gap in the sequence (client.ts:692, handleSequenceGap) only on a connection whose
\* acknowledgement declared it stale: server and client number alike on every other.
THEOREM GapsOnlyAfterStale == Spec => GapOnlyAfterStale
<1>1. FeedInv /\ [Next]_vars => [~gapDue /\ gapDue' => toldStale]_vars
  BY GapStep
<1> QED
  BY <1>1, FeedInvariant, PTL DEF Spec, GapOnlyAfterStale

----------------------------------------------------------------------------
(* The event feed. *)

\* A step that shows the window nothing new is no step of the feed, or makes the window doubt.
LEMMA FeedStutters ==
  ASSUME Owed, log' = log, shown' = shown, view' = view, Current' => Current
  PROVE  [Feed!Next]_(Feed!feedVars)
<1>1. view \subseteq Feed!Due
  BY DEF Owed, Due, Feed!Due
<1>2. CASE Current'
  BY <1>2 DEF Current, Feed!feedVars
<1>3. CASE ~Current'
  BY <1>1, <1>3 DEF Current, Feed!Next, Feed!Drift
<1> QED
  BY <1>2, <1>3

LEMMA FeedReceive ==
  ASSUME FeedInv, [Next]_vars, Receive
  PROVE  [Feed!Next]_(Feed!feedVars)
<1>1. TypeInv /\ Wiring /\ Idle /\ Flight /\ Connection /\ Owed
  BY DEF FeedInv
<1> DEFINE m == down[ws][1]
           x == m.event
<1>2. /\ ws \in Sockets /\ Reading /\ connected /\ clientId \in Ids /\ Head(down[ws]) = m
      /\ m.type = "event" /\ x \in Nat /\ Aligned(entry[clientId], down[ws])
      /\ Len(down[ws]) \in Nat /\ Len(down[ws]) > 0
  BY <1>1, ReceiveServed, Bounds
<1>3. /\ UNCHANGED <<log, entry, clientId, snapshot, shown, owes>>
      /\ gapDue' = (gapDue \/ Gap(m.seq))
      /\ view' = view \union ({x} \intersect Due)
  BY <1>2 DEF Receive, serverVars
<1>4. Misrouted' <=> Misrouted
  BY <1>3 DEF Misrouted, MyEntry
<1>5. Due = Feed!Due /\ view \subseteq Due
  BY <1>1 DEF Due, Feed!Due, Owed
<1>6. Current' => Current
  BY <1>3, <1>4 DEF Current
<1>7. CASE x \notin Due
  BY <1>1, <1>3, <1>6, <1>7, FeedStutters
<1>8. CASE x \in Due /\ Current /\ ~Current'
  BY <1>3, <1>5, <1>8 DEF Current, Feed!Next, Feed!Drift
<1>9. CASE x \in Due /\ (Current' <=> Current)
  <2>1. Current => {d \in Due : d < x} \subseteq view
    <3> SUFFICES ASSUME Current, NEW d \in Due, d < x, d \notin view PROVE FALSE
      OBVIOUS
    <3>1. OnItsWay(d)
      BY <1>1, <1>2 DEF Owed, Missing, TakenUpLine
    <3>2. PICK k \in 1 .. Len(down[ws]) : down[ws][k].type = "event" /\ down[ws][k].event = d
      BY <3>1 DEF OnItsWay
    <3>3. CASE k = 1
      BY <1>2, <3>2, <3>3
    <3>4. CASE k # 1
      <4>1. 1 \in 1 .. Len(down[ws]) /\ 1 < k
        BY <1>2, <3>2, <3>4
      <4>2. x < d
        BY <1>2, <3>2, <4>1 DEF Aligned
      <4>3. d \in Nat
        BY <1>1, TypeParts, FeedTypesFacts DEF Due
      <4> QED
        BY <1>2, <4>2, <4>3
    <3> QED
      BY <3>3, <3>4
  <2> HIDE DEF x
  <2>2. view' = view \union {x}
    BY <1>3, <1>9
  <2> QED
    BY <1>3, <1>5, <1>9, <2>1, <2>2 DEF Current, Feed!Next, Feed!Deliver
<1> QED
  BY <1>6, <1>7, <1>8, <1>9

LEMMA FeedFetched ==
  ASSUME FeedInv, [Next]_vars, Fetched
  PROVE  [Feed!Next]_(Feed!feedVars)
<1>1. /\ UNCHANGED <<log, entry, clientId, snapshot, shown, gapDue>> /\ ~owes'
      /\ view' = IF Misrouted THEN view ELSE Due
  BY DEF Fetched, serverVars, clientVars
<1>2. (Misrouted' <=> Misrouted) /\ Owed
  BY <1>1 DEF Misrouted, MyEntry, FeedInv
<1>3. Due = Feed!Due /\ view \subseteq Due /\ Feed!Due' = Feed!Due
  BY <1>1, <1>2 DEF Due, Feed!Due, Owed
<1>4. CASE Current'
  <2>1. view' = Feed!Due
    BY <1>1, <1>2, <1>3, <1>4 DEF Current
  <2> QED
    BY <1>1, <1>4, <2>1 DEF Current, Feed!Next, Feed!Refresh
<1>5. CASE ~Current'
  <2>1. view \subseteq view' /\ view' \subseteq Feed!Due
    BY <1>1, <1>3
  <2> QED
    BY <1>1, <1>5, <2>1 DEF Current, Feed!Next, Feed!Drift
<1> QED
  BY <1>4, <1>5

LEMMA FeedWelcome ==
  ASSUME FeedInv, [Next]_vars, Welcome
  PROVE  [Feed!Next]_(Feed!feedVars)
<1>1. TypeInv /\ Wiring /\ Idle /\ Connection /\ Owed /\ ClientTypes /\ Identity
  BY TypeParts DEF FeedInv, Connection
<1>2. UNCHANGED <<log, shown, view, gapDue>> /\ (owes => owes')
  BY DEF Welcome
<1>3. ~owes' => MyEntry' = MyEntry
  BY <1>1, WelcomeKeepsEntry
<1>4. Current' => Current
  BY <1>1, <1>2, <1>3, RoutingKept DEF Current
<1> QED
  BY <1>1, <1>2, <1>4, FeedStutters

LEMMA FeedStep ==
  ASSUME FeedInv, [Next]_vars
  PROVE  [Feed!Next]_(Feed!feedVars)
<1>1. TypeInv /\ Connection /\ Owed /\ ClientTypes
  BY TypeParts DEF FeedInv
<1>2. ASSUME UNCHANGED <<log, shown, view, owes, gapDue>>, MyEntry' = MyEntry
      PROVE  [Feed!Next]_(Feed!feedVars)
  <2>1. Current' => Current
    BY <1>1, <1>2, RoutingKept DEF Current
  <2> QED
    BY <1>1, <1>2, <2>1, FeedStutters
<1>3. CASE \/ \E i \in Ids : Forget(i)
           \/ \E s \in Sockets : Handshake(s) \/ Reconnect(s) \/ Admit(s) \/ Break(s) \/ ServerClose(s)
           \/ Restart \/ UNCHANGED vars
           \/ \E n \in Events : SequenceAck(n)
  <2>1. ServerSide
    BY <1>3 DEF ServerSide
  <2>2. gapDue' = gapDue /\ MyEntry' = MyEntry
    BY <2>1, ServerSideKeeps DEF clientVars, MyEntry
  <2>3. log' = log /\ UNCHANGED window
    BY <1>3 DEF Forget, Handshake, Reconnect, Admit, Settled, Break, ServerClose, Restart, SequenceAck, vars
  <2> QED
    BY <1>2, <2>2, <2>3 DEF window
<1>4. CASE Connect \/ ClientClose
  <2>1. UNCHANGED <<log, shown, view, owes, gapDue>>
    BY <1>4 DEF Connect, ClientClose, window
  <2>2. MyEntry' = MyEntry
    BY <1>1, <1>4, ConnectingKeepsEntry
  <2> QED
    BY <1>2, <2>1, <2>2
<1>5. ASSUME NEW w \in Workspaces, Push(w) PROVE [Feed!Next]_(Feed!feedVars)
  <2>1. log' = Append(log, w) /\ UNCHANGED <<shown, view, owes, gapDue, clientId, snapshot>>
    BY <1>5 DEF Push, clientVars, window
  <2>2. Misrouted' <=> Misrouted
    BY <1>1, <2>1, RoutingKept DEF MyEntry
  <2> QED
    BY <2>1, <2>2 DEF Feed!Next, Feed!Publish
<1>6. ASSUME NEW w \in Workspaces, SwitchWorkspace(w) PROVE [Feed!Next]_(Feed!feedVars)
  <2>1. log' = log /\ shown' = w /\ view' = {} /\ owes' = TRUE
    BY <1>6 DEF SwitchWorkspace
  <2> QED
    BY <2>1 DEF Feed!Next, Feed!Switch
<1>7. CASE GapTimer
  <2>1. UNCHANGED <<log, shown, view>> /\ owes'
    BY <1>7 DEF GapTimer
  <2> QED
    BY <1>1, <2>1, FeedStutters DEF Current
<1> QED
  BY <1>3, <1>4, <1>5, <1>6, <1>7, FeedReceive, FeedFetched, FeedWelcome, Zenon DEF Next

\* Through every break, restart, replay, eviction, acknowledgement and switch, server.ts and client.ts
\* implement the event feed: a window that counts as current gets the events of its workspace in order
\* and without a hole, and becomes current in one way only, by a fetch.
THEOREM FeedRefinement == Spec => FeedSpec
<1>1. Init => Feed!Init
  BY Bounds DEF Init, Feed!Init
<1>2. FeedInv /\ [Next]_vars => [Feed!Next]_(Feed!feedVars)
  BY FeedStep
<1> QED
  BY <1>1, <1>2, FeedInvariant, PTL DEF Spec, FeedSpec, Feed!Spec
=============================================================================
