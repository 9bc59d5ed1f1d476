---------------------------- MODULE RpcTransport ----------------------------
(***************************************************************************)
(* The push channel between the server and one window                      *)
(* (packages/server-core/src/transport/server.ts and client.ts, and the    *)
(* window's recovery in apps/electron/src/renderer/App.tsx).               *)
(*                                                                         *)
(* A socket slot carries messages in order until it breaks: a lost         *)
(* network, a close by either side.  Both ends find out in their own time, *)
(* the server by a close event or its heartbeat, the window by a close     *)
(* event or its read-idle probe; what was on the way is lost.  Each        *)
(* handshake message, event and acknowledgement is handled without         *)
(* awaiting, except for the check of the window's session cookie, during   *)
(* which other messages and the close of the socket are handled.           *)
(*                                                                         *)
(* An event is known by its place in the order of all pushes; events for   *)
(* workspaces no window of the model is in are left out.  Times are        *)
(* nondeterministic: the oldest events of a buffer reach their TTL, a      *)
(* retained client its own, whenever they may.  The window's credentials are taken to be   *)
(* valid, and its requests (the fetch of sessions, the switch of           *)
(* workspace) to be answered before anything else happens.                 *)
(***************************************************************************)
EXTENDS Naturals, Sequences, SequencesExt

CONSTANTS
  Workspaces,
  Home,          \* the workspaceId the window's client was built with
  None,          \* null
  Sockets,       \* socket slots
  BufferMax,     \* EVENT_BUFFER_MAX_SIZE
  MaxClients,    \* maxClients
  MaxEvents,     \* bound: pushes
  MaxBreaks,     \* bound: sockets that break and server restarts
  MaxSwitches    \* bound: workspace switches

Ids       == 1 .. MaxBreaks + 1  \* client ids in the order they are drawn
Events    == 1 .. MaxEvents
Numbers   == 0 .. MaxEvents                    \* sequence numbers
Snapshots == [id : Ids, lastSeq : Numbers]

ASSUME TransportAssumption ==
  /\ Home \in Workspaces
  /\ None \notin Ids \union Sockets \union Snapshots
  /\ {BufferMax, MaxClients} \subseteq Nat \ {0}
  /\ {MaxEvents, MaxBreaks, MaxSwitches} \subseteq Nat

VARIABLES
  log,        \* the workspace of each push, oldest first
  entry,      \* id -> the server's ClientConnection and the map that holds it
  link,       \* socket -> whether it still carries messages
  accepted,   \* socket -> how far the server is with it
  hello,      \* socket -> the reconnect data of the handshake sent on it, or None
  down,       \* socket -> messages on the way to the window
  ws,         \* the window's socket, or None
  connected,
  clientId,
  snapshot,   \* pendingReconnect
  reconnects, \* currentHandshakeWasReconnect
  lastSeen, lastContiguous,
  gapDue,     \* sequenceGapRecoveryPending
  shown,      \* the workspace the window shows
  view,       \* the events of that workspace its state reflects
  owes,       \* whether a fetch is owed: the first, or one a stale signal asked for
  fetching,   \* whether the window is fetching
  toldStale,  \* whether the current connection was declared stale (for the properties)
  breaks, switches

serverVars == <<entry, accepted, hello>>
wire       == <<link, down>>
clientVars == <<ws, connected, clientId, snapshot, reconnects, lastSeen, lastContiguous, gapDue>>
window     == <<shown, view, owes, fetching, toldStale>>
bounds     == <<breaks, switches>>
vars       == <<log, serverVars, wire, clientVars, window, bounds>>

Unused == [in |-> "none", sock |-> None, workspace |-> Home, sent |-> 0, acked |-> 0, buffer |-> <<>>]
Gone(e) == [Unused EXCEPT !.in = "gone", !.workspace = e.workspace]

Init ==
  /\ log = <<>>
  /\ entry = [i \in Ids |-> Unused]
  /\ link = [s \in Sockets |-> FALSE]
  /\ accepted = [s \in Sockets |-> "no"]
  /\ hello = [s \in Sockets |-> None]
  /\ down = [s \in Sockets |-> <<>>]
  /\ ws = None /\ connected = FALSE /\ clientId = None /\ snapshot = None
  /\ reconnects = FALSE /\ lastSeen = 0 /\ lastContiguous = 0 /\ gapDue = FALSE
  /\ shown = Home /\ view = {} /\ owes = TRUE /\ fetching = TRUE /\ toldStale = FALSE
  /\ breaks = 0 /\ switches = 0

(***************************************************************************)
(* The server's clients and their event buffers.                           *)
(***************************************************************************)
Active   == {i \in Ids : entry[i].in = "clients"}
Retained == {i \in Ids : entry[i].in = "disconnected"}

\* The buffer always ends at the last sequence number assigned.
SeqAt(e, k) == e.sent - Len(e.buffer) + k
EventMessage(e, k) == [type |-> "event", seq |-> SeqAt(e, k), event |-> e.buffer[k]]

\* safeSend: messages sent on a socket that no longer carries them are gone.
Sent(s, messages) == IF link[s] THEN [down EXCEPT ![s] = @ \o messages] ELSE down

Least(m, n) == IF m < n THEN m ELSE n

LastOf(seq, n) == SubSeq(seq, Len(seq) - Least(n, Len(seq)) + 1, Len(seq))

\* evictBuffer: what the TTL leaves, and of that the newest BufferMax.
EvictedLate(buffer, young) == LastOf(buffer, BufferMax + 1)
Evicted(buffer, young) == LastOf(LastOf(buffer, young), BufferMax)

Buffered(e, event, young) == [e EXCEPT !.sent = @ + 1, !.buffer = Evicted(Append(@, event), young)]

MatchesConnected(i, workspace) == i \in Active /\ entry[i].workspace = workspace
Matches(i, workspace) == i \in Active \union Retained /\ entry[i].workspace = workspace

\* The connected clients are sent the event; all that match retain it for a replay.
Push(workspace) ==
  LET event == Len(log) + 1
      On(s) == {i \in Active : Matches(i, workspace) /\ entry[i].sock = s}
      Message(s) == [type |-> "event", seq |-> entry[CHOOSE i \in On(s) : TRUE].sent + 1, event |-> event]
  IN  /\ Len(log) < MaxEvents
      /\ workspace = shown \/ \E i \in Ids : Matches(i, workspace)
      /\ log' = Append(log, workspace)
      /\ \E young \in 1 .. BufferMax :
           entry' = [i \in Ids |-> IF Matches(i, workspace) THEN Buffered(entry[i], event, young) ELSE entry[i]]
      /\ down' = [s \in Sockets |-> IF link[s] /\ On(s) # {} THEN Append(down[s], Message(s)) ELSE down[s]]
      /\ UNCHANGED <<accepted, hello, link, clientVars, window, bounds>>

\* The retention timer of a disconnected client, or the cap of 50 of them.
Forget(i) ==
  /\ i \in Retained
  /\ entry' = [entry EXCEPT ![i] = Gone(@)]
  /\ UNCHANGED <<log, accepted, hello, wire, clientVars, window, bounds>>

(***************************************************************************)
(* Connecting.                                                             *)
(***************************************************************************)
Free(s) == ws # s /\ accepted[s] = "no"

CapacityWithRetained == Cardinality(Active \union Retained) >= MaxClients
AtCapacity == Cardinality(Active) >= MaxClients

\* The client opens a socket. The server turns it away at capacity (4008); otherwise ws.onopen
\* sends the handshake.
Connect ==
  /\ ws = None
  /\ \E s \in Sockets :
       /\ Free(s) /\ \A r \in Sockets : Free(r) => s <= r
       /\ ws' = s
       /\ \/ /\ ~AtCapacity
             /\ link' = [link EXCEPT ![s] = TRUE]
             /\ accepted' = [accepted EXCEPT ![s] = "open"]
             /\ hello' = [hello EXCEPT ![s] = snapshot]
             /\ reconnects' = (snapshot # None)
          \/ /\ AtCapacity
             /\ UNCHANGED <<link, accepted, hello, reconnects>>
  /\ UNCHANGED <<log, entry, down, connected, clientId, snapshot, lastSeen, lastContiguous, gapDue, window, bounds>>

\* The handshake arrives and the check of the cookie begins.
Handshake(s) ==
  /\ accepted[s] = "open" /\ link[s]
  /\ accepted' = [accepted EXCEPT ![s] = "checking"]
  /\ UNCHANGED <<log, entry, hello, wire, clientVars, window, bounds>>

Recognised(h) == h # None /\ h.id \in Retained /\ entry[h.id].workspace = Home

Missed(h)    == h.lastSeq < entry[h.id].sent
CanReplayPastGap(h, buffer) == Missed(h) => buffer # <<>> /\ h.lastSeq + 1 >= entry[h.id].sent - Len(buffer)
CanReplay(h, buffer) == Missed(h) => buffer # <<>> /\ h.lastSeq >= entry[h.id].sent - Len(buffer)

\* The socket the client entry holds: one whose close was handled already gives no second close event.
Held(s) == IF accepted[s] = "closed" THEN None ELSE s

Settled(s) ==
  /\ accepted[s] \in {"checking", "closed"}
  /\ accepted' = [accepted EXCEPT ![s] = IF @ = "closed" THEN "no" ELSE "ready"]
  /\ hello' = [hello EXCEPT ![s] = None]
  /\ UNCHANGED <<log, link, clientVars, window, bounds>>

NeverStale(i, known, stale) == [type |-> "ack", id |-> i, reconnected |-> known, stale |-> FALSE]
Acknowledgement(i, known, stale) == [type |-> "ack", id |-> i, reconnected |-> known, stale |-> stale]

\* Back from the check of the cookie, the server takes the client up again where it left off.
Reconnect(s) ==
  LET h == hello[s]
  IN  /\ Settled(s)
      /\ Recognised(h)
      /\ \E young \in 0 .. BufferMax :
           LET e == [entry[h.id] EXCEPT !.in = "clients", !.sock = Held(s), !.buffer = Evicted(@, young)]
               missed == IF CanReplay(h, e.buffer) /\ Missed(h) THEN Least(Len(e.buffer), e.sent - h.lastSeq) ELSE 0
           IN  /\ entry' = [entry EXCEPT ![h.id] = e]
               /\ down' = Sent(s, <<Acknowledgement(h.id, TRUE, ~CanReplay(h, e.buffer))>>
                                    \o [n \in 1 .. missed |-> EventMessage(e, Len(e.buffer) - missed + n)])

\* Or it starts a client of its own for the connection.
Admit(s) ==
  /\ Settled(s)
  /\ ~Recognised(hello[s])
  /\ \E i \in Ids :
       /\ entry[i].in = "none" /\ \A j \in Ids : j < i => entry[j].in # "none"
       /\ entry' = [entry EXCEPT ![i] = [Unused EXCEPT !.in = "clients", !.sock = Held(s)]]
       /\ down' = Sent(s, <<Acknowledgement(i, FALSE, FALSE)>>)

(***************************************************************************)
(* Losing a connection.                                                    *)
(***************************************************************************)
\* The network, reconnectNow, a terminate by the heartbeat or a handshake timeout ends the socket.
Break(s) ==
  /\ link[s] /\ breaks < MaxBreaks
  /\ breaks' = breaks + 1
  /\ link' = [link EXCEPT ![s] = FALSE]
  /\ down' = [down EXCEPT ![s] = <<>>]
  /\ UNCHANGED <<log, serverVars, clientVars, window, switches>>

\* The server's close event: the client is kept for a reconnect.
ServerClose(s) ==
  /\ ~link[s]
  /\ \/ /\ accepted[s] \in {"open", "ready"}
        /\ accepted' = [accepted EXCEPT ![s] = "no"]
        /\ hello' = [hello EXCEPT ![s] = None]
     \/ /\ accepted[s] = "checking"
        /\ accepted' = [accepted EXCEPT ![s] = "closed"]
        /\ hello' = hello
  /\ entry' = [i \in Ids |-> IF i \in Active /\ entry[i].sock = s
                             THEN [entry[i] EXCEPT !.in = "disconnected", !.sock = None] ELSE entry[i]]
  /\ UNCHANGED <<log, wire, clientVars, window, bounds>>

\* onDisconnect; a fetch under way or waiting for the connection fails.
ClientClose ==
  /\ ws # None /\ ~link[ws]
  /\ snapshot' = IF clientId # None THEN [id |-> clientId, lastSeq |-> lastContiguous] ELSE snapshot
  /\ ws' = None /\ connected' = FALSE /\ clientId' = None
  /\ fetching' = FALSE /\ toldStale' = FALSE
  /\ UNCHANGED <<log, serverVars, wire, reconnects, lastSeen, lastContiguous, gapDue, shown, view, owes, bounds>>

\* The server process dies and starts again: every client and buffer is gone.
Restart ==
  /\ breaks < MaxBreaks
  /\ breaks' = breaks + 1
  /\ entry' = [i \in Ids |-> IF entry[i].in = "none" THEN entry[i] ELSE Gone(entry[i])]
  /\ accepted' = [s \in Sockets |-> "no"]
  /\ hello' = [s \in Sockets |-> None]
  /\ link' = [s \in Sockets |-> FALSE]
  /\ down' = [s \in Sockets |-> <<>>]
  /\ UNCHANGED <<log, clientVars, window, switches>>

\* The entry the window is served from, or will ask to be taken up again from.
MyEntry == IF clientId # None THEN clientId ELSE IF snapshot # None THEN snapshot.id ELSE None

Misrouted == MyEntry # None /\ entry[MyEntry].workspace # shown

Due == {e \in DOMAIN log : log[e] = shown}

(***************************************************************************)
(* The window's side of an open connection.                                *)
(***************************************************************************)
Received(type) == ws # None /\ down[ws] # <<>> /\ Head(down[ws]).type = type

\* handshake_ack
Welcome ==
  LET m == Head(down[ws])
      stale == reconnects /\ (m.stale \/ ~m.reconnected)
  IN  /\ Received("ack")
      /\ down' = [down EXCEPT ![ws] = Tail(@)]
      /\ connected' = TRUE /\ clientId' = m.id /\ snapshot' = None /\ reconnects' = FALSE
      /\ lastSeen' = IF m.reconnected THEN lastSeen ELSE 0
      /\ lastContiguous' = IF m.reconnected THEN lastContiguous ELSE 0
      /\ owes' = (owes \/ stale) /\ fetching' = (fetching \/ stale)
      /\ toldStale' = stale
      /\ UNCHANGED <<log, serverVars, link, ws, gapDue, shown, view, bounds>>

Gap(seq) == lastSeen > 0 /\ seq > lastSeen + 1

Receive ==
  LET m == Head(down[ws])
  IN  /\ Received("event")
      /\ down' = [down EXCEPT ![ws] = Tail(@)]
      /\ gapDue' = (gapDue \/ Gap(m.seq))
      /\ lastContiguous' = IF Gap(m.seq) THEN lastContiguous ELSE m.seq
      /\ lastSeen' = m.seq
      /\ view' = view \union ({m.event} \intersect Due)
      /\ UNCHANGED <<log, serverVars, link, ws, connected, clientId, snapshot, reconnects, shown, owes, fetching, toldStale, bounds>>

\* handleSequenceGap's timer: the window is told it is stale, and fetches if it has a connection or waits for one.
GapTimer ==
  /\ gapDue
  /\ gapDue' = FALSE
  /\ owes' = TRUE /\ fetching' = (fetching \/ ws # None)
  /\ UNCHANGED <<log, serverVars, wire, ws, connected, clientId, snapshot, reconnects, lastSeen, lastContiguous, shown, view, toldStale, bounds>>

\* A sequence_ack of the ack timer or of a liveness probe reaches the server: n was contiguous when it was sent.
SequenceAck(n) ==
  LET e == entry[clientId]
  IN  /\ connected /\ link[ws] /\ clientId \in Active
      /\ e.acked < n /\ n <= lastContiguous
      /\ entry' = [entry EXCEPT ![clientId].acked = n, ![clientId].buffer = LastOf(@, e.sent - Least(n, e.sent))]
      /\ UNCHANGED <<log, accepted, hello, wire, clientVars, window, bounds>>

(***************************************************************************)
(* The window's requests.                                                  *)
(***************************************************************************)
Served == connected /\ link[ws] /\ clientId \in Active

\* handleSelectWorkspace: the server re-routes the client, the window empties its lists and loads the workspace.
SwitchWorkspace(w) ==
  /\ Served /\ w # shown /\ switches < MaxSwitches
  /\ switches' = switches + 1
  /\ entry' = [entry EXCEPT ![clientId].workspace = w]
  /\ shown' = w /\ view' = {} /\ owes' = TRUE /\ fetching' = TRUE
  /\ UNCHANGED <<log, accepted, hello, wire, clientVars, toldStale, breaks>>

\* getSessions answers for the workspace the server has the client in.
Fetched ==
  /\ Served /\ fetching
  /\ view' = IF Misrouted THEN view ELSE Due
  /\ owes' = FALSE /\ fetching' = FALSE
  /\ UNCHANGED <<log, serverVars, wire, clientVars, shown, toldStale, bounds>>

Next ==
  \/ \E w \in Workspaces : Push(w) \/ SwitchWorkspace(w)
  \/ \E i \in Ids : Forget(i)
  \/ \E s \in Sockets : Handshake(s) \/ Reconnect(s) \/ Admit(s) \/ Break(s) \/ ServerClose(s)
  \/ Connect \/ ClientClose \/ Restart
  \/ Welcome \/ Receive \/ GapTimer \/ Fetched
  \/ \E n \in Events : SequenceAck(n)

Spec == Init /\ [][Next]_vars

\* Timers fire, sockets report their end, and what reached an open socket is handled.
Progress ==
  /\ WF_vars(Connect) /\ WF_vars(ClientClose)
  /\ \A s \in Sockets :
       WF_vars(Handshake(s)) /\ WF_vars(Reconnect(s) \/ Admit(s)) /\ WF_vars(ServerClose(s))
  /\ WF_vars(Welcome) /\ WF_vars(Receive) /\ WF_vars(GapTimer) /\ WF_vars(Fetched)

FairSpec == Spec /\ Progress

(***************************************************************************)
(* Properties.                                                             *)
(***************************************************************************)
\* A client the server holds whose socket had closed before its handshake was through: nothing removes it.
Ghosts == {i \in Active : entry[i].sock = None}

Messages ==
  [type : {"ack"}, id : Ids, reconnected : BOOLEAN, stale : BOOLEAN]
    \union [type : {"event"}, seq : Events, event : Events]
Clients ==
  [in : {"none", "clients", "disconnected", "gone"}, sock : Sockets \union {None}, workspace : Workspaces,
   sent : Numbers, acked : Numbers, buffer : Seq(Events)]

\* Types; in particular a buffer is never longer than its limit or than what was sent.
TransportTypeOK ==
  /\ log \in Seq(Workspaces) /\ Len(log) <= MaxEvents
  /\ entry \in [Ids -> Clients]
  /\ \A i \in Ids : Len(entry[i].buffer) <= BufferMax /\ Len(entry[i].buffer) <= entry[i].sent
  /\ link \in [Sockets -> BOOLEAN]
  /\ accepted \in [Sockets -> {"no", "open", "checking", "closed", "ready"}]
  /\ hello \in [Sockets -> Snapshots \union {None}]
  /\ down \in [Sockets -> Seq(Messages)]
  /\ ws \in Sockets \union {None}
  /\ clientId \in Ids \union {None} /\ snapshot \in Snapshots \union {None}
  /\ {connected, reconnects, gapDue, owes, fetching, toldStale} \subseteq BOOLEAN
  /\ {lastSeen, lastContiguous} \subseteq Numbers
  /\ shown \in Workspaces /\ view \subseteq Events
  /\ breaks \in 0 .. MaxBreaks /\ switches \in 0 .. MaxSwitches

Feed == INSTANCE EventFeed WITH current <- ~owes /\ ~gapDue /\ ~Misrouted

\* Through every break, replay, eviction and restart the push channel is the event feed: a window that
\* owes no fetch and is routed to the workspace it shows gets that workspace's events in order and
\* without a hole, and it counts as current again only by a fetch.
FeedSpec == Feed!Spec

\* The two ends of a connection number alike: the window finds a gap in the sequence only on a
\* connection that was declared stale when it was taken up.
GapOnlyAfterStale == [][~gapDue /\ gapDue' => toldStale]_vars

\* Nothing is silently lost: when the window is connected to a client it is routed by, owes no fetch
\* and has no message outstanding, it holds every event of its workspace.
QuietMeansCurrent ==
  (Served /\ down[ws] = <<>> /\ ~owes /\ ~gapDue /\ ~Misrouted) => Due \subseteq view

\* Every event of the workspace shown reaches the window, or the window is known to owe a fetch, is
\* routed to another workspace, or cannot get in because abandoned handshakes fill the server.
EventReachedOrOwed ==
  \A e \in Events :
    e \in Due ~> (e \notin Due \/ e \in view \/ owes \/ Misrouted \/ Cardinality(Ghosts) >= MaxClients)

\* While it is connected the window is served from a client of the workspace it shows
\* (server.ts:815, "called after SWITCH_WORKSPACE so push routing stays correct").
RoutedToShownWorkspace == connected => ~Misrouted
=============================================================================
