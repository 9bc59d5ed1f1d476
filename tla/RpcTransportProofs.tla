-------------------------- MODULE RpcTransportProofs --------------------------
(***************************************************************************)
(* What each step of the push channel does to the clients and their        *)
(* buffers, to the sockets and to the window, and that all of it keeps its *)
(* types: a buffer keeps its limit and ends at the last number given out.  *)
(***************************************************************************)
EXTENDS RpcTransport, SequenceTheorems, TLAPS

LEMMA Bounds ==
  /\ BufferMax \in Nat /\ BufferMax > 0 /\ MaxEvents \in Nat /\ MaxBreaks \in Nat /\ MaxSwitches \in Nat
  /\ Home \in Workspaces
  /\ None \notin Ids /\ None \notin Sockets /\ None \notin Snapshots
  /\ Ids \subseteq Nat /\ Events \subseteq Nat /\ Numbers \subseteq Nat
BY TransportAssumption DEF Ids, Events, Numbers

----------------------------------------------------------------------------
(* Buffers. *)

\* One sequence is the end of another.
Ends(b, c) ==
  /\ Len(b) <= Len(c)
  /\ \A k \in 1 .. Len(b) : b[k] = c[Len(c) - Len(b) + k]

LEMMA LastOfEnds ==
  ASSUME NEW S, NEW seq \in Seq(S), NEW n \in Nat
  PROVE  /\ LastOf(seq, n) \in Seq(S)
         /\ Len(LastOf(seq, n)) = Least(n, Len(seq)) /\ Len(LastOf(seq, n)) \in Nat
         /\ Ends(LastOf(seq, n), seq)
<1> DEFINE len == Len(seq)
           least == Least(n, len)
<1>1. len \in Nat /\ least \in Nat /\ least <= len /\ least <= n
  BY LenProperties DEF Least
<1>2. \A i \in len - least + 1 .. len : seq[i] \in S
  BY <1>1, ElementOfSeq
<1> DEFINE last == SubSeq(seq, len - least + 1, len)
<1>3. /\ last \in Seq(S)
      /\ Len(last) = IF len - least + 1 <= len THEN len - (len - least + 1) + 1 ELSE 0
      /\ \A i \in 1 .. len - (len - least + 1) + 1 : last[i] = seq[len - least + 1 + i - 1]
  <2> HIDE DEF least, len
  <2>1. len - least + 1 \in Int /\ len \in Int
    BY <1>1
  <2> QED
    BY SMTT(20), <1>1, <1>2, <2>1, SubSeqProperties
<1>4. LastOf(seq, n) = last
  BY DEF LastOf
<1> HIDE DEF last, least
<1>5. Len(last) = least
  BY <1>1, <1>3
<1>6. Ends(last, seq)
  <2>1. ASSUME NEW k \in 1 .. least PROVE last[k] = seq[len - least + k]
    <3>1. k \in 1 .. len - (len - least + 1) + 1 /\ len - least + 1 + k - 1 = len - least + k
      BY <1>1
    <3> QED
      BY <1>3, <3>1
  <2> QED
    BY <1>1, <1>5, <2>1 DEF Ends
<1> QED
  BY <1>1, <1>3, <1>4, <1>5, <1>6 DEF least

LEMMA EndsTransitive ==
  ASSUME NEW S, NEW b \in Seq(S), NEW c \in Seq(S), NEW d \in Seq(S), Ends(b, c), Ends(c, d)
  PROVE  Ends(b, d)
<1>1. Len(b) \in Nat /\ Len(c) \in Nat /\ Len(d) \in Nat
  BY LenProperties
<1>2. Len(b) <= Len(d)
  BY <1>1 DEF Ends
<1>3. ASSUME NEW k \in 1 .. Len(b) PROVE b[k] = d[Len(d) - Len(b) + k]
  <2>1. b[k] = c[Len(c) - Len(b) + k] /\ Len(c) - Len(b) + k \in 1 .. Len(c)
    BY <1>1 DEF Ends
  <2>2. c[Len(c) - Len(b) + k] = d[Len(d) - Len(c) + (Len(c) - Len(b) + k)]
    BY <2>1 DEF Ends
  <2>3. Len(d) - Len(c) + (Len(c) - Len(b) + k) = Len(d) - Len(b) + k
    BY <1>1
  <2> QED
    BY <2>1, <2>2, <2>3
<1> QED
  BY <1>2, <1>3 DEF Ends

LEMMA EvictedEnds ==
  ASSUME NEW buffer \in Seq(Events), NEW young \in Nat
  PROVE  /\ Evicted(buffer, young) \in Seq(Events)
         /\ Len(Evicted(buffer, young)) \in Nat /\ Len(Evicted(buffer, young)) <= BufferMax
         /\ Ends(Evicted(buffer, young), buffer)
<1> DEFINE fresh == LastOf(buffer, young)
<1>1. fresh \in Seq(Events) /\ Ends(fresh, buffer)
  BY LastOfEnds
<1> HIDE DEF fresh
<1>2. /\ LastOf(fresh, BufferMax) \in Seq(Events)
      /\ Len(LastOf(fresh, BufferMax)) = Least(BufferMax, Len(fresh)) /\ Len(LastOf(fresh, BufferMax)) \in Nat
      /\ Ends(LastOf(fresh, BufferMax), fresh)
  BY <1>1, Bounds, LastOfEnds
<1>3. Len(LastOf(fresh, BufferMax)) <= BufferMax
  BY <1>1, <1>2, Bounds, LenProperties DEF Least
<1>4. Ends(LastOf(fresh, BufferMax), buffer)
  BY <1>1, <1>2, EndsTransitive
<1>5. Evicted(buffer, young) = LastOf(fresh, BufferMax)
  BY DEF Evicted, fresh
<1> QED
  BY <1>2, <1>3, <1>4, <1>5

----------------------------------------------------------------------------
(* What a client's buffer holds, by number. *)

Floor(e) == e.sent - Len(e.buffer)

Holds(e, q, x) == q \in Floor(e) + 1 .. e.sent /\ e.buffer[q - Floor(e)] = x

IsClient(e) ==
  /\ e.sent \in Nat /\ e.buffer \in Seq(Events) /\ Len(e.buffer) \in Nat
  /\ Len(e.buffer) <= e.sent /\ Len(e.buffer) <= BufferMax

\* The buffer lost some of its oldest events.
Trimmed(e, f) ==
  /\ f.sent = e.sent /\ Floor(e) <= Floor(f)
  /\ \A q, x : Holds(e, q, x) /\ q > Floor(f) => Holds(f, q, x)
  /\ \A q, x : Holds(f, q, x) => Holds(e, q, x)

\* It took one more event and perhaps lost some.
Grew(e, f, event) ==
  /\ f.sent = e.sent + 1 /\ Floor(e) <= Floor(f)
  /\ \A q, x : Holds(e, q, x) /\ q > Floor(f) => Holds(f, q, x)
  /\ f.sent > Floor(f) => Holds(f, f.sent, event)
  /\ \A q, x : Holds(f, q, x) => Holds(e, q, x) \/ (q = f.sent /\ x = event)

LEMMA EndsTrims ==
  ASSUME NEW e, NEW f, IsClient(e), IsClient(f), f.sent = e.sent, Ends(f.buffer, e.buffer)
  PROVE  Trimmed(e, f)
<1>1. e.sent \in Nat /\ Len(e.buffer) \in Nat /\ Len(f.buffer) \in Nat /\ Len(f.buffer) <= Len(e.buffer)
      /\ Len(e.buffer) <= e.sent
  BY DEF IsClient, Ends
<1>2. Floor(e) \in Nat /\ Floor(f) \in Nat /\ Floor(e) <= Floor(f)
  BY <1>1 DEF Floor
<1>3. ASSUME NEW q \in Floor(f) + 1 .. e.sent
      PROVE  f.buffer[q - Floor(f)] = e.buffer[q - Floor(e)]
  <2>1. q - Floor(f) \in 1 .. Len(f.buffer)
    BY SMTT(20), <1>1, <1>2 DEF Floor
  <2>2. f.buffer[q - Floor(f)] = e.buffer[Len(e.buffer) - Len(f.buffer) + (q - Floor(f))]
    BY <2>1 DEF Ends
  <2>3. Len(e.buffer) - Len(f.buffer) + (q - Floor(f)) = q - Floor(e)
    <3>1. Floor(e) = e.sent - Len(e.buffer) /\ Floor(f) = e.sent - Len(f.buffer)
      BY DEF Floor
    <3>2. q \in Int
      BY <1>1, <1>2
    <3>3. Len(e.buffer) \in Int /\ Len(f.buffer) \in Int /\ e.sent \in Int
      BY <1>1
    <3> DEFINE m == Len(e.buffer)
               n == Len(f.buffer)
               s == e.sent
               d == Floor(e)
               g == Floor(f)
    <3>4. m \in Int /\ n \in Int /\ s \in Int /\ d = s - m /\ g = s - n
      BY <3>1, <3>3
    <3> HIDE DEF m, n, s, d, g
    <3>5. m - n + (q - g) = q - d
      BY <3>2, <3>4
    <3> QED
      BY <3>5 DEF m, n, d, g
  <2> QED
    BY <2>2, <2>3
<1>4. \A q : q \in Floor(f) + 1 .. e.sent <=> q \in Floor(e) + 1 .. e.sent /\ q > Floor(f)
  BY <1>1, <1>2
<1> HIDE DEF Floor
<1>5. ASSUME NEW q, NEW x, Holds(e, q, x), q > Floor(f) PROVE Holds(f, q, x)
  BY <1>3, <1>4, <1>5 DEF Holds
<1>6. ASSUME NEW q, NEW x, Holds(f, q, x) PROVE Holds(e, q, x)
  BY <1>3, <1>4, <1>6 DEF Holds
<1> QED
  BY <1>2, <1>5, <1>6 DEF Trimmed

LEMMA TrimmedSame ==
  ASSUME NEW e, IsClient(e)
  PROVE  Trimmed(e, e)
<1>1. Floor(e) \in Int
  BY DEF IsClient, Floor
<1> HIDE DEF Floor
<1> QED
  BY <1>1 DEF Trimmed

LEMMA AppendedGrows ==
  ASSUME NEW e, NEW f, NEW event \in Events, IsClient(e), IsClient(f), f.sent = e.sent + 1,
         Ends(f.buffer, Append(e.buffer, event))
  PROVE  Grew(e, f, event)
<1> DEFINE longer == Append(e.buffer, event)
<1>1. e.sent \in Nat /\ Len(e.buffer) \in Nat /\ Len(f.buffer) \in Nat /\ e.buffer \in Seq(Events)
      /\ Len(e.buffer) <= e.sent
  BY DEF IsClient
<1>2. Len(longer) = Len(e.buffer) + 1 /\ longer[Len(longer)] = event
      /\ \A k \in 1 .. Len(e.buffer) : longer[k] = e.buffer[k]
  BY <1>1
<1> HIDE DEF longer
<1>3. Len(f.buffer) <= Len(e.buffer) + 1 /\ Ends(f.buffer, longer)
  BY <1>1, <1>2 DEF Ends, longer
<1>0. Floor(e) = e.sent - Len(e.buffer) /\ Floor(f) = (e.sent + 1) - Len(f.buffer)
  BY <1>1 DEF Floor
<1>4. Floor(e) \in Nat /\ Floor(f) \in Nat /\ Floor(e) <= Floor(f)
  BY <1>0, <1>1, <1>3
<1>5. ASSUME NEW q \in Floor(f) + 1 .. f.sent
      PROVE  f.buffer[q - Floor(f)] = longer[q - Floor(e)]
  <2>1. q - Floor(f) \in 1 .. Len(f.buffer)
    <3> DEFINE n == Len(f.buffer)
               s == f.sent
               g == Floor(f)
    <3>1. n \in Nat /\ s \in Nat /\ g \in Nat /\ g = s - n /\ q \in g + 1 .. s
      BY <1>0, <1>1, <1>4, <1>5
    <3> HIDE DEF n, s, g
    <3>2. q - g \in 1 .. n
      BY <3>1
    <3> QED
      BY <3>2 DEF n, g
  <2>2. f.buffer[q - Floor(f)] = longer[Len(longer) - Len(f.buffer) + (q - Floor(f))]
    BY <1>3, <2>1 DEF Ends
  <2>3. Len(longer) - Len(f.buffer) + (q - Floor(f)) = q - Floor(e)
    <3>1. q \in Int /\ Len(longer) \in Int /\ Len(f.buffer) \in Int /\ e.sent + 1 \in Int
      BY <1>1, <1>2, <1>4
    <3>2. Floor(e) = (e.sent + 1) - Len(longer)
      <4> DEFINE n == Len(e.buffer)
                 s == e.sent
      <4>1. n \in Int /\ s \in Int /\ Len(longer) = n + 1 /\ Floor(e) = s - n
        BY <1>0, <1>1, <1>2
      <4> HIDE DEF n, s
      <4>2. s - n = s + 1 - (n + 1)
        BY <4>1
      <4> QED
        BY <4>1, <4>2 DEF s
    <3> DEFINE m == Len(longer)
               n == Len(f.buffer)
               s == e.sent + 1
               d == Floor(e)
               g == Floor(f)
    <3>4. m \in Int /\ n \in Int /\ s \in Int /\ d = s - m /\ g = s - n
      BY <1>0, <3>1, <3>2
    <3> HIDE DEF m, n, s, d, g
    <3>5. m - n + (q - g) = q - d
      BY <3>1, <3>4
    <3> QED
      BY <3>5 DEF m, n, d, g
  <2> QED
    BY <2>2, <2>3
<1>6. ASSUME NEW q \in Floor(f) + 1 .. f.sent, q # f.sent
      PROVE  q \in Floor(e) + 1 .. e.sent /\ f.buffer[q - Floor(f)] = e.buffer[q - Floor(e)]
  <2>1. q \in Floor(e) + 1 .. e.sent
    BY <1>1, <1>4, <1>6
  <2>2. q - Floor(e) \in 1 .. Len(e.buffer)
    <3> DEFINE n == Len(e.buffer)
               s == e.sent
               d == Floor(e)
    <3>1. n \in Nat /\ s \in Nat /\ d \in Nat /\ d = s - n /\ q \in d + 1 .. s
      BY <1>0, <1>1, <1>4, <2>1
    <3> HIDE DEF n, s, d
    <3>2. q - d \in 1 .. n
      BY <3>1
    <3> QED
      BY <3>2 DEF n, d
  <2> QED
    BY <1>2, <1>5, <2>1, <2>2
<1>7. f.sent > Floor(f) => f.buffer[f.sent - Floor(f)] = event
  <2>1. f.sent - Floor(e) = Len(longer)
    BY <1>1, <1>2 DEF Floor
  <2> QED
    BY SMTT(20), <1>1, <1>2, <1>4, <1>5, <2>1
<1>8. \A q : q \in Floor(e) + 1 .. e.sent /\ q > Floor(f) => q \in Floor(f) + 1 .. f.sent /\ q # f.sent
  BY <1>1, <1>4
<1>9. f.sent > Floor(f) => f.sent \in Floor(f) + 1 .. f.sent
  BY <1>1, <1>4
<1> HIDE DEF Floor
<1>10. ASSUME NEW q, NEW x, Holds(e, q, x), q > Floor(f) PROVE Holds(f, q, x)
  BY <1>6, <1>8, <1>10 DEF Holds
<1>11. ASSUME NEW q, NEW x, Holds(f, q, x) PROVE Holds(e, q, x) \/ (q = f.sent /\ x = event)
  <2>1. CASE q = f.sent
    BY <1>1, <1>4, <1>7, <1>11, <2>1 DEF Holds
  <2>2. CASE q # f.sent
    BY <1>6, <1>11, <2>2 DEF Holds
  <2> QED
    BY <2>1, <2>2
<1>12. f.sent > Floor(f) => Holds(f, f.sent, event)
  BY <1>7, <1>9 DEF Holds
<1> QED
  BY <1>4, <1>10, <1>11, <1>12 DEF Grew

----------------------------------------------------------------------------
(* Types. *)

Good(e) ==
  /\ e \in Clients
  /\ Len(e.buffer) <= BufferMax /\ Len(e.buffer) <= e.sent

TypeInv ==
  /\ TransportTypeOK
  /\ \A i \in Ids : entry[i].sent <= Len(log)

LEMMA GoodIsClient ==
  ASSUME NEW e, Good(e)
  PROVE  /\ IsClient(e) /\ e.sent \in Numbers /\ e.acked \in Numbers /\ e.workspace \in Workspaces
         /\ e.sock \in Sockets \union {None} /\ e.in \in {"none", "clients", "disconnected", "gone"}
<1>1. /\ e.sent \in Numbers /\ e.acked \in Numbers /\ e.workspace \in Workspaces /\ e.buffer \in Seq(Events)
      /\ e.sock \in Sockets \union {None} /\ e.in \in {"none", "clients", "disconnected", "gone"}
  BY DEF Good, Clients
<1>2. Len(e.buffer) \in Nat /\ e.sent \in Nat
  BY <1>1, Bounds, LenProperties
<1> QED
  BY <1>1, <1>2 DEF IsClient, Good

LEMMA UnusedIsGood ==
  /\ Good(Unused)
  /\ \A e : Good(e) => Good(Gone(e))
  /\ \A s \in Sockets \union {None} : Good([Unused EXCEPT !.in = "clients", !.sock = s])
<1>1. 0 \in Numbers /\ <<>> \in Seq(Events) /\ Len(<<>>) = 0 /\ Home \in Workspaces /\ BufferMax \in Nat
  BY Bounds DEF Numbers
<1>2. Good(Unused)
  BY <1>1 DEF Unused, Good, Clients
<1>3. Unused \in Clients /\ Unused.sent = 0 /\ Unused.buffer = <<>>
  BY <1>2 DEF Good, Unused
<1>4. ASSUME NEW in \in {"clients", "gone"} PROVE [Unused EXCEPT !.in = in] \in Clients
  BY <1>3 DEF Clients
<1>5. ASSUME NEW e, Good(e) PROVE Good(Gone(e))
  <2> DEFINE f == [Unused EXCEPT !.in = "gone"]
             g == [f EXCEPT !.workspace = e.workspace]
  <2>1. f \in Clients /\ f.sent = 0 /\ f.buffer = <<>>
    BY <1>3, <1>4
  <2>2. Gone(e) = g
    BY DEF Gone
  <2>3. e.workspace \in Workspaces
    BY <1>5, GoodIsClient
  <2> HIDE DEF f
  <2>4. g \in Clients /\ g.sent = 0 /\ g.buffer = <<>>
    BY <2>1, <2>3 DEF Clients
  <2> HIDE DEF g
  <2> QED
    BY <1>1, <2>2, <2>4 DEF Good
<1>6. ASSUME NEW s \in Sockets \union {None} PROVE Good([Unused EXCEPT !.in = "clients", !.sock = s])
  <2> DEFINE f == [Unused EXCEPT !.in = "clients"]
             g == [f EXCEPT !.sock = s]
  <2>1. f \in Clients /\ f.sent = 0 /\ f.buffer = <<>>
    BY <1>3, <1>4
  <2>2. [Unused EXCEPT !.in = "clients", !.sock = s] = g
    OBVIOUS
  <2> HIDE DEF f
  <2>3. g \in Clients /\ g.sent = 0 /\ g.buffer = <<>>
    BY <2>1, <1>6 DEF Clients
  <2> HIDE DEF g
  <2>4. Good(g)
    BY <1>1, <2>3 DEF Good
  <2> QED
    BY <2>2, <2>4
<1> QED
  BY <1>2, <1>5, <1>6

LEMMA EndIsGood ==
  ASSUME NEW e, Good(e), NEW buffer \in Seq(Events), Ends(buffer, e.buffer)
  PROVE  /\ Good([e EXCEPT !.buffer = buffer]) /\ Trimmed(e, [e EXCEPT !.buffer = buffer])
<1> DEFINE f == [e EXCEPT !.buffer = buffer]
<1>1. /\ e \in Clients /\ IsClient(e) /\ Len(e.buffer) \in Nat /\ e.sent \in Nat /\ Len(buffer) \in Nat
      /\ Len(buffer) <= Len(e.buffer) /\ Len(e.buffer) <= BufferMax /\ Len(e.buffer) <= e.sent
      /\ BufferMax \in Nat
  BY GoodIsClient, LenProperties, Bounds DEF Good, Ends, IsClient
<1>2. f.buffer = buffer /\ f.sent = e.sent /\ f \in Clients
  BY <1>1 DEF Clients
<1> HIDE DEF f
<1>3. Good(f)
  BY <1>1, <1>2 DEF Good
<1>4. Trimmed(e, f)
  BY <1>1, <1>2, <1>3, GoodIsClient, EndsTrims
<1> QED
  BY <1>3, <1>4 DEF f

LEMMA BufferedIsGood ==
  ASSUME NEW e, Good(e), NEW event \in Events, NEW young \in Nat, e.sent < MaxEvents
  PROVE  /\ Good(Buffered(e, event, young)) /\ Grew(e, Buffered(e, event, young), event)
         /\ Buffered(e, event, young).in = e.in /\ Buffered(e, event, young).sock = e.sock
         /\ Buffered(e, event, young).workspace = e.workspace /\ Buffered(e, event, young).acked = e.acked
<1> DEFINE f == Buffered(e, event, young)
           longer == Append(e.buffer, event)
           left == Evicted(longer, young)
<1>1. /\ e \in Clients /\ IsClient(e) /\ Len(e.buffer) \in Nat /\ e.sent \in Nat /\ e.buffer \in Seq(Events)
      /\ Len(e.buffer) <= e.sent
  BY GoodIsClient DEF Good, IsClient
<1>2. longer \in Seq(Events) /\ Len(longer) = Len(e.buffer) + 1
  BY <1>1
<1> HIDE DEF longer
<1>3. left \in Seq(Events) /\ Len(left) \in Nat /\ Len(left) <= BufferMax /\ Ends(left, longer)
  BY <1>2, EvictedEnds
<1>4. e.sent + 1 \in Numbers
  BY <1>1, Bounds DEF Numbers
<1>5. f = [[e EXCEPT !.sent = e.sent + 1] EXCEPT !.buffer = left]
  <2>1. f = [e EXCEPT !.sent = e.sent + 1, !.buffer = left]
    BY DEF Buffered, longer
  <2> HIDE DEF left, f
  <2> QED
    BY <1>1, <2>1 DEF Clients
<1> HIDE DEF left
<1>6. /\ f.buffer = left /\ f.sent = e.sent + 1 /\ f \in Clients
      /\ f.in = e.in /\ f.sock = e.sock /\ f.workspace = e.workspace /\ f.acked = e.acked
  <2> HIDE DEF f
  <2> QED
    BY <1>1, <1>3, <1>4, <1>5 DEF Clients
<1> HIDE DEF f
<1>7. Len(left) <= e.sent + 1
  BY <1>1, <1>2, <1>3 DEF Ends
<1>8. Good(f)
  BY <1>3, <1>6, <1>7 DEF Good
<1>9. Grew(e, f, event)
  BY <1>1, <1>3, <1>6, <1>8, GoodIsClient, AppendedGrows DEF longer
<1> QED
  BY <1>6, <1>8, <1>9 DEF f

\* The type invariant in the parts an action disturbs.
FeedTypes ==
  /\ log \in Seq(Workspaces) /\ Len(log) <= MaxEvents
  /\ entry \in [Ids -> Clients]
  /\ \A i \in Ids : Good(entry[i]) /\ entry[i].sent <= Len(log)

SocketTypes ==
  /\ link \in [Sockets -> BOOLEAN]
  /\ accepted \in [Sockets -> {"no", "open", "checking", "closed", "ready"}]
  /\ hello \in [Sockets -> Snapshots \union {None}]

DownTypes == down \in [Sockets -> Seq(Messages)]

ClientTypes ==
  /\ ws \in Sockets \union {None}
  /\ clientId \in Ids \union {None} /\ snapshot \in Snapshots \union {None}
  /\ connected \in BOOLEAN /\ reconnects \in BOOLEAN /\ gapDue \in BOOLEAN
  /\ lastSeen \in Numbers /\ lastContiguous \in Numbers

WindowTypes ==
  /\ owes \in BOOLEAN /\ fetching \in BOOLEAN /\ toldStale \in BOOLEAN
  /\ shown \in Workspaces /\ view \subseteq Events
  /\ breaks \in 0 .. MaxBreaks /\ switches \in 0 .. MaxSwitches

LEMMA TypeParts == TypeInv <=> FeedTypes /\ SocketTypes /\ DownTypes /\ ClientTypes /\ WindowTypes
<1> DEFINE flags == {connected, reconnects, gapDue, owes, fetching, toldStale} \subseteq BOOLEAN
           counts == {lastSeen, lastContiguous} \subseteq Numbers
<1>1. flags <=> /\ connected \in BOOLEAN /\ reconnects \in BOOLEAN /\ gapDue \in BOOLEAN
                /\ owes \in BOOLEAN /\ fetching \in BOOLEAN /\ toldStale \in BOOLEAN
  BY Zenon
<1>2. counts <=> lastSeen \in Numbers /\ lastContiguous \in Numbers
  BY Zenon
<1>3. FeedTypes <=> /\ log \in Seq(Workspaces) /\ Len(log) <= MaxEvents
                    /\ entry \in [Ids -> Clients]
                    /\ \A i \in Ids : Len(entry[i].buffer) <= BufferMax /\ Len(entry[i].buffer) <= entry[i].sent
                    /\ \A i \in Ids : entry[i].sent <= Len(log)
  <2>1. entry \in [Ids -> Clients] => \A i \in Ids : entry[i] \in Clients
    BY Zenon
  <2> QED
    BY <2>1, Zenon DEF FeedTypes, Good
<1> HIDE DEF flags, counts
<1>4. TransportTypeOK <=>
        /\ log \in Seq(Workspaces) /\ Len(log) <= MaxEvents
        /\ entry \in [Ids -> Clients]
        /\ \A i \in Ids : Len(entry[i].buffer) <= BufferMax /\ Len(entry[i].buffer) <= entry[i].sent
        /\ SocketTypes /\ DownTypes
        /\ ws \in Sockets \union {None}
        /\ clientId \in Ids \union {None} /\ snapshot \in Snapshots \union {None}
        /\ flags /\ counts
        /\ shown \in Workspaces /\ view \subseteq Events
        /\ breaks \in 0 .. MaxBreaks /\ switches \in 0 .. MaxSwitches
  BY Zenon DEF TransportTypeOK, SocketTypes, DownTypes, flags, counts
<1> QED
  BY <1>1, <1>2, <1>3, <1>4, Zenon DEF TypeInv, ClientTypes, WindowTypes

LEMMA FeedTypesFacts ==
  ASSUME FeedTypes
  PROVE  /\ Len(log) \in Nat /\ \A e \in DOMAIN log : e \in Nat /\ log[e] \in Workspaces
         /\ DOMAIN log = 1 .. Len(log) /\ DOMAIN log \subseteq Events
         /\ \A i \in Ids : Good(entry[i]) /\ IsClient(entry[i]) /\ entry[i].sent \in Nat /\ entry[i].acked \in Nat
<1>1. log \in Seq(Workspaces) /\ Len(log) <= MaxEvents
  BY DEF FeedTypes
<1>2. Len(log) \in Nat /\ DOMAIN log = 1 .. Len(log)
  BY <1>1, LenProperties
<1>3. \A e \in DOMAIN log : e \in Nat /\ log[e] \in Workspaces
  BY <1>1, <1>2, ElementOfSeq
<1>4. DOMAIN log \subseteq Events
  BY <1>1, <1>2, Bounds DEF Events
<1>5. \A i \in Ids : Good(entry[i]) /\ IsClient(entry[i]) /\ entry[i].sent \in Nat /\ entry[i].acked \in Nat
  BY GoodIsClient, Bounds DEF FeedTypes, IsClient
<1> QED
  BY <1>2, <1>3, <1>4, <1>5

----------------------------------------------------------------------------
(* What each action does to the server's clients and to the wire. *)

Kin(e, f) == f.in = e.in /\ f.sock = e.sock /\ f.workspace = e.workspace

Event(seq, event) == [type |-> "event", seq |-> seq, event |-> event]

LEMMA PushEffect ==
  ASSUME FeedTypes, DownTypes, NEW w \in Workspaces, Push(w)
  PROVE  /\ Len(log) + 1 \in Events /\ log' = Append(log, w) /\ log' \in Seq(Workspaces)
         /\ Len(log') = Len(log) + 1 /\ Len(log') <= MaxEvents
         /\ entry' \in [Ids -> Clients]
         /\ \A i \in Ids :
              /\ Good(entry'[i]) /\ Kin(entry[i], entry'[i])
              /\ Matches(i, w) => Grew(entry[i], entry'[i], Len(log) + 1)
              /\ ~Matches(i, w) => entry'[i] = entry[i]
         /\ down' \in [Sockets -> Seq(Messages)]
         /\ \A s \in Sockets :
              \/ /\ link[s]
                 /\ \E i \in Active : /\ Matches(i, w) /\ entry[i].sock = s
                                      /\ down'[s] = Append(down[s], Event(entry[i].sent + 1, Len(log) + 1))
              \/ /\ down'[s] = down[s]
                 /\ \A i \in Active : Matches(i, w) /\ entry[i].sock = s => ~link[s]
<1> DEFINE event == Len(log) + 1
           On(s) == {i \in Active : Matches(i, w) /\ entry[i].sock = s}
           Sender(s) == CHOOSE i \in On(s) : TRUE
<1>1. /\ Len(log) < MaxEvents /\ log' = Append(log, w)
      /\ \E young \in 1 .. BufferMax :
           entry' = [i \in Ids |-> IF Matches(i, w) THEN Buffered(entry[i], event, young) ELSE entry[i]]
      /\ down' = [s \in Sockets |-> IF link[s] /\ On(s) # {} THEN Append(down[s], Event(entry[Sender(s)].sent + 1, event)) ELSE down[s]]
  BY Zenon DEF Push, Event
<1>2. Len(log) \in Nat /\ log \in Seq(Workspaces) /\ \A i \in Ids : Good(entry[i]) /\ entry[i].sent <= Len(log) /\ entry[i].sent \in Nat
  BY FeedTypesFacts DEF FeedTypes
<1>3. event \in Events /\ log' \in Seq(Workspaces) /\ Len(log') = Len(log) + 1 /\ Len(log') <= MaxEvents
  BY <1>1, <1>2, Bounds DEF Events
<1>4. PICK young \in 1 .. BufferMax :
        entry' = [i \in Ids |-> IF Matches(i, w) THEN Buffered(entry[i], event, young) ELSE entry[i]]
  BY <1>1
<1>5. young \in Nat
  BY Bounds
<1> HIDE DEF event
<1>6. ASSUME NEW i \in Ids
      PROVE  /\ Good(entry'[i]) /\ Kin(entry[i], entry'[i])
             /\ Matches(i, w) => Grew(entry[i], entry'[i], event)
             /\ ~Matches(i, w) => entry'[i] = entry[i]
  <2>1. Good(entry[i]) /\ entry[i].sent < MaxEvents
    BY <1>1, <1>2, Bounds
  <2>2. CASE Matches(i, w)
    <3>1. entry'[i] = Buffered(entry[i], event, young)
      BY <1>4, <2>2
    <3> QED
      BY <1>3, <1>5, <2>1, <2>2, <3>1, BufferedIsGood DEF Kin
  <2>3. CASE ~Matches(i, w)
    BY <1>4, <2>1, <2>3 DEF Kin
  <2> QED
    BY <2>2, <2>3
<1>7. entry' \in [Ids -> Clients]
  <2>1. entry' = [i \in Ids |-> entry'[i]]
    BY <1>4, Zenon
  <2>2. \A i \in Ids : entry'[i] \in Clients
    BY <1>6 DEF Good
  <2> QED
    BY <2>1, <2>2, Zenon
<1>8. ASSUME NEW s \in Sockets
      PROVE  /\ down'[s] \in Seq(Messages)
             /\ \/ /\ link[s]
                   /\ \E i \in Active : /\ Matches(i, w) /\ entry[i].sock = s
                                        /\ down'[s] = Append(down[s], Event(entry[i].sent + 1, event))
                \/ /\ down'[s] = down[s]
                   /\ \A i \in Active : Matches(i, w) /\ entry[i].sock = s => ~link[s]
  <2>1. down[s] \in Seq(Messages)
    BY DEF DownTypes
  <2>2. CASE link[s] /\ On(s) # {}
    <3>1. Sender(s) \in On(s)
      BY <2>2, Zenon
    <3>2. down'[s] = Append(down[s], Event(entry[Sender(s)].sent + 1, event))
      BY <1>1, <2>2, Zenon
    <3> DEFINE i == Sender(s)
    <3>3. i \in Active /\ Matches(i, w) /\ entry[i].sock = s /\ i \in Ids
      BY <3>1, Zenon DEF Active
    <3> HIDE DEF i
    <3>4. entry[i].sent + 1 \in Events
      BY <1>1, <1>2, <3>3, Bounds DEF Events
    <3>5. Event(entry[i].sent + 1, event) \in Messages
      BY <1>3, <3>4 DEF Event, Messages
    <3>6. Append(down[s], Event(entry[i].sent + 1, event)) \in Seq(Messages)
      BY <2>1, <3>5
    <3>7. down'[s] = Append(down[s], Event(entry[i].sent + 1, event))
      BY <3>2, Zenon DEF i
    <3> QED
      BY <2>2, <3>3, <3>6, <3>7
  <2>3. CASE ~(link[s] /\ On(s) # {})
    <3>1. down'[s] = down[s]
      BY <1>1, <2>3, Zenon
    <3> QED
      BY <2>1, <2>3, <3>1
  <2> QED
    BY <2>2, <2>3
<1>9. down' \in [Sockets -> Seq(Messages)]
  <2> DEFINE Then(s) == IF link[s] /\ On(s) # {} THEN Append(down[s], Event(entry[Sender(s)].sent + 1, event)) ELSE down[s]
  <2>1. down' = [s \in Sockets |-> Then(s)]
    BY <1>1, Zenon
  <2> HIDE DEF Then
  <2>2. \A s \in Sockets : Then(s) \in Seq(Messages)
    BY <1>8, <2>1, Zenon
  <2> QED
    BY <2>1, <2>2, Zenon
<1> QED
  BY <1>1, <1>3, <1>6, <1>7, <1>8, <1>9 DEF event

\* The client is taken up again, and what the server says it missed is sent again, in order and with the old numbers.
Replay(msgs, i, lastSeq, stale, missed) ==
  /\ msgs \in Seq(Messages) /\ missed \in Nat /\ Len(msgs) = missed + 1
  /\ msgs[1] = Acknowledgement(i, TRUE, stale)
  /\ \A k \in 2 .. missed + 1 :
       \E x \in Events : /\ msgs[k] = Event(entry'[i].sent - (missed + 1) + k, x)
                         /\ Holds(entry'[i], entry'[i].sent - (missed + 1) + k, x)
  /\ ~stale => \/ missed = 0 /\ lastSeq >= entry'[i].sent
               \/ missed = entry'[i].sent - lastSeq

TakenUp(e, s, young) == [e EXCEPT !.in = "clients", !.sock = s, !.buffer = Evicted(@, young)]

LEMMA TakenUpClient ==
  ASSUME NEW e, Good(e), NEW young \in Nat, NEW s \in Sockets \union {None}
  PROVE  /\ Good(TakenUp(e, s, young)) /\ Trimmed(e, TakenUp(e, s, young))
         /\ TakenUp(e, s, young).in = "clients" /\ TakenUp(e, s, young).sock = s
         /\ TakenUp(e, s, young).workspace = e.workspace /\ TakenUp(e, s, young).sent = e.sent
<1> DEFINE left == Evicted(e.buffer, young)
           g == [e EXCEPT !.buffer = left]
           h == [g EXCEPT !.in = "clients"]
           f == [h EXCEPT !.sock = s]
<1>1. e \in Clients /\ e.buffer \in Seq(Events)
  BY GoodIsClient DEF Good, IsClient
<1>2. left \in Seq(Events) /\ Ends(left, e.buffer)
  BY <1>1, EvictedEnds
<1> HIDE DEF left
<1>3. Good(g) /\ Trimmed(e, g) /\ g \in Clients /\ g.workspace = e.workspace /\ g.sent = e.sent
  BY <1>1, <1>2, EndIsGood DEF Good, Clients
<1>4. [e EXCEPT !.in = "clients", !.sock = s, !.buffer = left] = f
  <2>1. e = [in |-> e.in, sock |-> e.sock, workspace |-> e.workspace, sent |-> e.sent, acked |-> e.acked, buffer |-> e.buffer]
    BY <1>1 DEF Clients
  <2> QED
    BY <2>1
<1> HIDE DEF g
<1>5. h \in Clients /\ h.sent = g.sent /\ h.buffer = g.buffer /\ h.workspace = g.workspace /\ h.in = "clients"
  BY <1>3 DEF Clients
<1> HIDE DEF h
<1>6. f \in Clients /\ f.sent = g.sent /\ f.buffer = g.buffer /\ f.workspace = g.workspace /\ f.in = "clients" /\ f.sock = s
  BY <1>5 DEF Clients
<1> HIDE DEF f
<1>7. Good(f) /\ Trimmed(e, f)
  BY <1>3, <1>6 DEF Good, Trimmed, Holds, Floor
<1>8. Good(f) /\ Trimmed(e, f) /\ f.in = "clients" /\ f.sock = s /\ f.workspace = e.workspace /\ f.sent = e.sent
  BY <1>3, <1>6, <1>7
<1>9. TakenUp(e, s, young) = f
  BY <1>4 DEF left, TakenUp
<1> QED
  BY <1>8, <1>9, Zenon

LEMMA HeldSlot ==
  ASSUME NEW s \in Sockets
  PROVE  Held(s) \in Sockets \union {None}
BY DEF Held

LEMMA ReconnectEffect ==
  ASSUME FeedTypes, SocketTypes, DownTypes, NEW s \in Sockets, Reconnect(s)
  PROVE  LET i == hello[s].id
         IN  /\ hello[s] \in Snapshots /\ i \in Ids /\ i \in Retained /\ entry[i].workspace = Home
             /\ entry' \in [Ids -> Clients] /\ \A j \in Ids \ {i} : entry'[j] = entry[j]
             /\ Good(entry'[i]) /\ Trimmed(entry[i], entry'[i])
             /\ entry'[i].in = "clients" /\ entry'[i].sock = Held(s) /\ entry'[i].workspace = Home
             /\ entry'[i].sent = entry[i].sent
             /\ \E msgs, missed, stale :
                  stale \in BOOLEAN /\ Replay(msgs, i, hello[s].lastSeq, stale, missed) /\ down' = Sent(s, msgs)
<1> DEFINE h == hello[s]
           i == h.id
           F(young) == TakenUp(entry[i], Held(s), young)
<1>1. h \in Snapshots \union {None} /\ h # None /\ i \in Retained /\ entry[i].workspace = Home
  BY DEF Reconnect, Recognised, SocketTypes
<1>2. h \in Snapshots /\ i \in Ids /\ h.lastSeq \in Nat
  <2>1. h \in Snapshots
    BY <1>1
  <2> HIDE DEF h
  <2> QED
    BY <2>1, Bounds DEF Snapshots
<1>3. PICK young \in 0 .. BufferMax :
        LET e == F(young)
            missed == IF CanReplay(h, e.buffer) /\ Missed(h) THEN Least(Len(e.buffer), e.sent - h.lastSeq) ELSE 0
        IN  /\ entry' = [entry EXCEPT ![i] = e]
            /\ down' = Sent(s, <<Acknowledgement(i, TRUE, ~CanReplay(h, e.buffer))>>
                                 \o [n \in 1 .. missed |-> EventMessage(e, Len(e.buffer) - missed + n)])
  BY Zenon DEF Reconnect, TakenUp
<1> DEFINE e == F(young)
           can == CanReplay(h, e.buffer)
           missed == IF can /\ Missed(h) THEN Least(Len(e.buffer), e.sent - h.lastSeq) ELSE 0
           again == [n \in 1 .. missed |-> EventMessage(e, Len(e.buffer) - missed + n)]
           msgs == <<Acknowledgement(i, TRUE, ~can)>> \o again
<1>4. entry' = [entry EXCEPT ![i] = e] /\ down' = Sent(s, msgs)
  BY <1>3, Zenon
<1>5. /\ Good(e) /\ Trimmed(entry[i], e) /\ e.in = "clients" /\ e.sock = Held(s) /\ e.workspace = entry[i].workspace
      /\ e.sent = entry[i].sent
  <2>1. Good(entry[i]) /\ young \in Nat /\ Held(s) \in Sockets \union {None}
    <3>1. young \in Nat
      BY Bounds
    <3> HIDE DEF i
    <3> QED
      BY <1>2, <3>1, HeldSlot, Zenon DEF FeedTypes
  <2> HIDE DEF i
  <2> QED
    BY <2>1, TakenUpClient, Zenon
<1>6. entry \in [Ids -> Clients] /\ e \in Clients
  BY <1>5 DEF FeedTypes, Good
<1> HIDE DEF i, e
<1>7. entry' \in [Ids -> Clients] /\ entry'[i] = e /\ \A j \in Ids \ {i} : entry'[j] = entry[j]
  BY <1>2, <1>4, <1>6 DEF i
<1>8. /\ e.sent \in Nat /\ Len(e.buffer) \in Nat /\ Len(e.buffer) <= e.sent /\ e.buffer \in Seq(Events)
      /\ e.sent <= MaxEvents
  <2>1. entry[i].sent <= Len(log) /\ Len(log) <= MaxEvents /\ Len(log) \in Nat
    BY <1>2, FeedTypesFacts DEF FeedTypes, i
  <2> QED
    BY <1>5, <2>1, GoodIsClient, Bounds DEF IsClient
<1>9. can \in BOOLEAN
  BY Zenon DEF CanReplay
<1> DEFINE seq == h.lastSeq
<1>10. missed \in Nat /\ missed <= Len(e.buffer) /\ (can => (missed = 0 /\ seq >= e.sent) \/ missed = e.sent - seq)
  <2>1. seq \in Nat
    BY <1>2
  <2>2. Missed(h) <=> seq < e.sent
    BY <1>5 DEF Missed, i
  <2>3. can <=> (seq < e.sent => (e.buffer # <<>> /\ seq >= e.sent - Len(e.buffer)))
    BY <1>5, <2>2 DEF CanReplay, i
  <2>4. missed = IF can /\ seq < e.sent THEN Least(Len(e.buffer), e.sent - seq) ELSE 0
    BY <2>2
  <2> DEFINE len == Len(e.buffer)
             sent == e.sent
  <2> HIDE DEF seq, can, missed
  <2>5. len \in Nat /\ sent \in Nat
    BY <1>8
  <2>6. missed = IF can /\ seq < sent THEN Least(len, sent - seq) ELSE 0
    BY <2>4
  <2>7. (can /\ seq < sent) => seq >= sent - len
    BY <2>3
  <2> HIDE DEF len, sent
  <2> QED
    <3>1. missed \in Nat /\ missed <= len /\ (can => (missed = 0 /\ seq >= sent) \/ missed = sent - seq)
      BY <2>1, <2>5, <2>6, <2>7 DEF Least
    <3> QED
      BY <3>1, Zenon DEF len, sent
<1> HIDE DEF missed, can
<1>11. ASSUME NEW n \in 1 .. missed
       PROVE  /\ again[n] \in Messages
              /\ \E x \in Events : /\ again[n] = Event(e.sent - (missed + 1) + (n + 1), x)
                                   /\ Holds(e, e.sent - (missed + 1) + (n + 1), x)
  <2> DEFINE len == Len(e.buffer)
             sent == e.sent
             k == len - missed + n
             x == e.buffer[k]
             q == sent - len + k
  <2>1. k \in 1 .. len /\ q \in 1 .. sent /\ q = sent - (missed + 1) + (n + 1)
    <3>1. len \in Nat /\ sent \in Nat /\ missed \in Nat /\ n \in Nat /\ 1 <= n /\ n <= missed /\ missed <= len /\ len <= sent
      BY <1>8, <1>10
    <3> HIDE DEF len, sent
    <3> QED
      BY <3>1
  <2>2. x \in Events
    BY <1>8, <2>1, ElementOfSeq
  <2>3. q \in Events
    BY <1>8, <2>1, Bounds DEF Events
  <2>4. again[n] = Event(q, x)
    BY Zenon DEF EventMessage, SeqAt, Event
  <2>5. Holds(e, q, x)
    <3>1. q \in Floor(e) + 1 .. e.sent
      BY <1>8, <2>1 DEF Floor
    <3>2. q - Floor(e) = k
      BY <1>8, <2>1 DEF Floor
    <3> QED
      BY <3>1, <3>2 DEF Holds
  <2> HIDE DEF x, q
  <2>6. Event(q, x) \in Messages
    BY <2>2, <2>3 DEF Event, Messages
  <2> QED
    BY <2>1, <2>2, <2>4, <2>5, <2>6
<1>12. again \in Seq(Messages) /\ Len(again) = missed
  <2>1. again \in [1 .. missed -> Messages]
    BY <1>11
  <2> HIDE DEF again
  <2> QED
    BY <1>10, <2>1
<1>13. Acknowledgement(i, TRUE, ~can) \in Messages
  BY <1>2, <1>9 DEF Acknowledgement, Messages, i
<1> HIDE DEF again
<1>14. /\ msgs \in Seq(Messages) /\ Len(msgs) = missed + 1 /\ msgs[1] = Acknowledgement(i, TRUE, ~can)
       /\ \A k \in 2 .. missed + 1 : msgs[k] = again[k - 1]
  <2> DEFINE ack == Acknowledgement(i, TRUE, ~can)
  <2>0. ack \in Messages
    BY <1>13
  <2> HIDE DEF ack
  <2>1. <<ack>> \in Seq(Messages) /\ Len(<<ack>>) = 1 /\ <<ack>>[1] = ack
    BY <2>0
  <2> DEFINE one == <<ack>>
  <2> HIDE DEF one
  <2>2. /\ one \o again \in Seq(Messages) /\ Len(one \o again) = 1 + missed
        /\ \A k \in 1 .. 1 + missed : (one \o again)[k] = IF k <= 1 THEN one[k] ELSE again[k - 1]
    <3>1. one \in Seq(Messages) /\ Len(one) = 1
      BY <2>1 DEF one
    <3>2. /\ one \o again \in Seq(Messages) /\ Len(one \o again) = Len(one) + Len(again)
          /\ \A k \in 1 .. Len(one) + Len(again) : (one \o again)[k] = IF k <= Len(one) THEN one[k] ELSE again[k - Len(one)]
      BY <1>12, <3>1, ConcatProperties, Zenon
    <3> QED
      BY <1>10, <1>12, <3>1, <3>2
  <2>3. msgs = one \o again
    BY DEF one, ack
  <2> HIDE DEF msgs
  <2>4. Len(msgs) = missed + 1 /\ msgs[1] = ack
    BY <1>10, <2>1, <2>2, <2>3 DEF one
  <2>5. \A k \in 2 .. missed + 1 : msgs[k] = again[k - 1]
    <3> SUFFICES ASSUME NEW k \in 2 .. missed + 1 PROVE msgs[k] = again[k - 1]
      OBVIOUS
    <3>1. k \in 1 .. 1 + missed /\ ~(k <= 1)
      BY <1>10
    <3> QED
      BY <2>2, <2>3, <3>1
  <2> QED
    BY <2>2, <2>3, <2>4, <2>5 DEF ack
<1> HIDE DEF msgs
<1>15. ASSUME NEW k \in 2 .. missed + 1
       PROVE  \E x \in Events : /\ msgs[k] = Event(e.sent - (missed + 1) + k, x)
                                /\ Holds(e, e.sent - (missed + 1) + k, x)
  <2>1. k - 1 \in 1 .. missed /\ (k - 1) + 1 = k
    BY <1>10
  <2> QED
    BY <1>11, <1>14, <2>1
<1>16. Replay(msgs, i, seq, ~can, missed)
  BY <1>7, <1>10, <1>14, <1>15, Zenon DEF Replay
<1>17. (~can) \in BOOLEAN
  BY <1>9
<1> QED
  BY <1>1, <1>2, <1>4, <1>5, <1>7, <1>16, <1>17, Zenon DEF i

LEMMA AdmitEffect ==
  ASSUME FeedTypes, SocketTypes, DownTypes, NEW s \in Sockets, Admit(s)
  PROVE  \E i \in Ids :
           /\ entry[i].in = "none"
           /\ entry' \in [Ids -> Clients] /\ \A j \in Ids \ {i} : entry'[j] = entry[j]
           /\ Good(entry'[i]) /\ entry'[i].in = "clients" /\ entry'[i].sock = Held(s) /\ entry'[i].workspace = Home
           /\ entry'[i].sent = 0 /\ entry'[i].buffer = <<>>
           /\ down' = Sent(s, <<Acknowledgement(i, FALSE, FALSE)>>)
           /\ <<Acknowledgement(i, FALSE, FALSE)>> \in Seq(Messages)
<1>1. PICK i \in Ids : /\ entry[i].in = "none"
                       /\ entry' = [entry EXCEPT ![i] = [Unused EXCEPT !.in = "clients", !.sock = Held(s)]]
                       /\ down' = Sent(s, <<Acknowledgement(i, FALSE, FALSE)>>)
  BY DEF Admit
<1> DEFINE e == [Unused EXCEPT !.in = "clients", !.sock = Held(s)]
<1>2. Good(e)
  BY HeldSlot, UnusedIsGood, Zenon
<1>3. e.in = "clients" /\ e.sock = Held(s) /\ e.workspace = Home /\ e.sent = 0 /\ e.buffer = <<>>
  BY DEF Unused
<1>4. entry' = [entry EXCEPT ![i] = e] /\ entry \in [Ids -> Clients] /\ e \in Clients
  BY <1>1, <1>2 DEF FeedTypes, Good
<1> HIDE DEF e
<1>5. entry' \in [Ids -> Clients] /\ entry'[i] = e /\ \A j \in Ids \ {i} : entry'[j] = entry[j]
  BY <1>4
<1>6. Acknowledgement(i, FALSE, FALSE) \in Messages
  BY DEF Acknowledgement, Messages
<1> DEFINE ack == Acknowledgement(i, FALSE, FALSE)
<1>7. ack \in Messages
  BY <1>6
<1> HIDE DEF ack
<1>8. <<ack>> \in Seq(Messages)
  BY <1>7
<1> QED
  BY <1>1, <1>2, <1>3, <1>5, <1>8 DEF ack

LEMMA SequenceAckEffect ==
  ASSUME FeedTypes, NEW n \in Events, SequenceAck(n)
  PROVE  /\ clientId \in Ids
         /\ entry' \in [Ids -> Clients] /\ \A j \in Ids \ {clientId} : entry'[j] = entry[j]
         /\ Good(entry'[clientId]) /\ Trimmed(entry[clientId], entry'[clientId]) /\ Kin(entry[clientId], entry'[clientId])
<1> DEFINE e == entry[clientId]
           kept == LastOf(e.buffer, e.sent - Least(n, e.sent))
           f == [e EXCEPT !.buffer = kept]
           g == [f EXCEPT !.acked = n]
<1>1. clientId \in Ids /\ Good(e) /\ e.sent \in Nat /\ n \in Nat /\ n \in Numbers
  BY FeedTypesFacts, Bounds DEF SequenceAck, Active, Events, Numbers
<1>2. e \in Clients /\ e.buffer \in Seq(Events)
  BY <1>1, GoodIsClient DEF Good, IsClient
<1>3. e.sent - Least(n, e.sent) \in Nat
  BY <1>1 DEF Least
<1> DEFINE room == e.sent - Least(n, e.sent)
<1> HIDE DEF room
<1>4. kept \in Seq(Events) /\ Ends(kept, e.buffer)
  BY <1>2, <1>3, LastOfEnds DEF room
<1>5. entry' = [entry EXCEPT ![clientId] = g]
  <2>1. entry' = [entry EXCEPT ![clientId].acked = n, ![clientId].buffer = LastOf(@, e.sent - Least(n, e.sent))]
    BY Zenon DEF SequenceAck
  <2>2. entry \in [Ids -> Clients]
    BY DEF FeedTypes
  <2>3. [[e EXCEPT !.acked = n] EXCEPT !.buffer = LastOf(@, e.sent - Least(n, e.sent))] = g
    <3> DEFINE h == [e EXCEPT !.acked = n]
    <3>1. h.buffer = e.buffer
      BY <1>2 DEF Clients
    <3>2. [h EXCEPT !.buffer = LastOf(h.buffer, room)] = g
      BY <1>2, <3>1 DEF Clients, room
    <3> QED
      BY <3>2, Zenon DEF room
  <2> HIDE DEF kept, g
  <2> QED
    BY <1>1, <2>1, <2>2, <2>3
<1> HIDE DEF kept
<1>6. Good(f) /\ Trimmed(e, f) /\ f.in = e.in /\ f.sock = e.sock /\ f.workspace = e.workspace
  BY <1>1, <1>2, <1>4, EndIsGood DEF Clients
<1> HIDE DEF f
<1>7. /\ g \in Clients /\ g.buffer = f.buffer /\ g.sent = f.sent /\ g.in = f.in /\ g.sock = f.sock
      /\ g.workspace = f.workspace
  BY <1>1, <1>6 DEF Good, Clients
<1> HIDE DEF g
<1>8. Good(g) /\ Trimmed(e, g) /\ Kin(e, g)
  BY <1>6, <1>7 DEF Good, Trimmed, Holds, Floor, Kin
<1>9. entry' \in [Ids -> Clients] /\ entry'[clientId] = g /\ \A j \in Ids \ {clientId} : entry'[j] = entry[j]
  BY <1>1, <1>5, <1>7 DEF FeedTypes
<1> QED
  BY <1>1, <1>8, <1>9

\* The buffer and the numbers are as they were.
SameFeed(e, f) == f.sent = e.sent /\ f.buffer = e.buffer

LEMMA SwitchEffect ==
  ASSUME FeedTypes, NEW w \in Workspaces, SwitchWorkspace(w)
  PROVE  /\ clientId \in Ids
         /\ entry' \in [Ids -> Clients] /\ \A j \in Ids \ {clientId} : entry'[j] = entry[j]
         /\ Good(entry'[clientId]) /\ SameFeed(entry[clientId], entry'[clientId])
         /\ entry'[clientId].in = entry[clientId].in /\ entry'[clientId].sock = entry[clientId].sock
         /\ entry'[clientId].workspace = w
<1> DEFINE e == entry[clientId]
           f == [e EXCEPT !.workspace = w]
<1>1. clientId \in Ids /\ Good(e) /\ e \in Clients
  BY DEF SwitchWorkspace, Served, Active, FeedTypes, Good
<1>2. entry' = [entry EXCEPT ![clientId] = f] /\ entry \in [Ids -> Clients]
  BY <1>1 DEF SwitchWorkspace, FeedTypes
<1>3. f \in Clients /\ f.sent = e.sent /\ f.buffer = e.buffer /\ f.in = e.in /\ f.sock = e.sock /\ f.workspace = w
  BY <1>1 DEF Clients
<1> HIDE DEF f
<1>4. entry' \in [Ids -> Clients] /\ entry'[clientId] = f /\ \A j \in Ids \ {clientId} : entry'[j] = entry[j]
  BY <1>1, <1>2, <1>3
<1>5. Good(f) /\ SameFeed(e, f)
  BY <1>1, <1>3 DEF Good, SameFeed
<1> QED
  BY <1>1, <1>3, <1>4, <1>5

LEMMA ServerCloseEffect ==
  ASSUME FeedTypes, NEW s \in Sockets, ServerClose(s)
  PROVE  /\ entry' \in [Ids -> Clients]
         /\ \A i \in Ids :
              /\ Good(entry'[i]) /\ SameFeed(entry[i], entry'[i]) /\ entry'[i].workspace = entry[i].workspace
              /\ \/ i \in Active /\ entry[i].sock = s /\ entry'[i].in = "disconnected" /\ entry'[i].sock = None
                 \/ ~(i \in Active /\ entry[i].sock = s) /\ entry'[i] = entry[i]
<1> DEFINE Shut(i) == [entry[i] EXCEPT !.in = "disconnected", !.sock = None]
           Then(i) == IF i \in Active /\ entry[i].sock = s THEN Shut(i) ELSE entry[i]
<1>1. entry' = [i \in Ids |-> Then(i)]
  BY Zenon DEF ServerClose
<1>2. ASSUME NEW i \in Ids
      PROVE  /\ Shut(i) \in Clients /\ Good(Shut(i)) /\ SameFeed(entry[i], Shut(i))
             /\ Shut(i).workspace = entry[i].workspace /\ Shut(i).in = "disconnected" /\ Shut(i).sock = None
  <2> DEFINE e == entry[i]
             f == [e EXCEPT !.in = "disconnected"]
             g == [f EXCEPT !.sock = None]
  <2>1. Good(e) /\ e \in Clients
    BY DEF FeedTypes, Good
  <2>2. Shut(i) = g
    BY <2>1 DEF Clients
  <2> HIDE DEF Shut, e
  <2>3. f \in Clients /\ f.sent = e.sent /\ f.buffer = e.buffer /\ f.workspace = e.workspace /\ f.in = "disconnected"
    BY <2>1 DEF Clients
  <2> HIDE DEF f
  <2>4. /\ g \in Clients /\ g.sent = e.sent /\ g.buffer = e.buffer /\ g.workspace = e.workspace
        /\ g.in = "disconnected" /\ g.sock = None
    BY <2>3 DEF Clients
  <2> HIDE DEF g
  <2> QED
    BY <2>1, <2>2, <2>4 DEF Good, SameFeed, e
<1> HIDE DEF Shut
<1>3. ASSUME NEW i \in Ids
      PROVE  /\ Then(i) \in Clients /\ Good(Then(i)) /\ SameFeed(entry[i], Then(i)) /\ Then(i).workspace = entry[i].workspace
             /\ \/ i \in Active /\ entry[i].sock = s /\ Then(i).in = "disconnected" /\ Then(i).sock = None
                \/ ~(i \in Active /\ entry[i].sock = s) /\ Then(i) = entry[i]
  <2>1. entry[i] \in Clients /\ Good(entry[i])
    BY DEF FeedTypes
  <2> QED
    BY <1>2, <2>1 DEF SameFeed
<1> HIDE DEF Then
<1> QED
  BY <1>1, <1>3

LEMMA GoneEffect ==
  ASSUME NEW e, Good(e)
  PROVE  /\ Gone(e) \in Clients /\ Good(Gone(e)) /\ Gone(e).in = "gone" /\ Gone(e).sock = None
         /\ Gone(e).workspace = e.workspace /\ Gone(e).sent = 0 /\ Gone(e).buffer = <<>>
<1>1. Gone(e) \in Clients /\ Good(Gone(e))
  BY UnusedIsGood DEF Good
<1>2. /\ Gone(e).in = "gone" /\ Gone(e).sock = None /\ Gone(e).workspace = e.workspace /\ Gone(e).sent = 0
      /\ Gone(e).buffer = <<>>
  BY DEF Gone, Unused
<1> QED
  BY <1>1, <1>2

LEMMA ForgetEffect ==
  ASSUME FeedTypes, NEW i \in Ids, Forget(i)
  PROVE  /\ i \in Retained /\ entry' \in [Ids -> Clients] /\ \A j \in Ids \ {i} : entry'[j] = entry[j]
         /\ Good(entry'[i]) /\ entry'[i].in = "gone" /\ entry'[i].sock = None /\ entry'[i].workspace = entry[i].workspace
         /\ entry'[i].sent = 0 /\ entry'[i].buffer = <<>>
<1>1. entry \in [Ids -> Clients] /\ Good(entry[i])
  BY DEF FeedTypes
<1>2. entry' = [entry EXCEPT ![i] = Gone(entry[i])] /\ i \in Retained
  BY DEF Forget
<1> DEFINE f == Gone(entry[i])
<1>3. /\ f \in Clients /\ Good(f) /\ f.in = "gone" /\ f.sock = None /\ f.workspace = entry[i].workspace
      /\ f.sent = 0 /\ f.buffer = <<>>
  BY <1>1, GoneEffect
<1> HIDE DEF f
<1>4. entry' \in [Ids -> Clients] /\ entry'[i] = f /\ \A j \in Ids \ {i} : entry'[j] = entry[j]
  BY <1>1, <1>2, <1>3 DEF f
<1> QED
  BY <1>2, <1>3, <1>4

LEMMA RestartEffect ==
  ASSUME FeedTypes, Restart
  PROVE  /\ entry' \in [Ids -> Clients]
         /\ \A i \in Ids :
              /\ Good(entry'[i]) /\ entry'[i].workspace = entry[i].workspace
              /\ \/ entry[i].in = "none" /\ entry'[i] = entry[i]
                 \/ /\ entry[i].in # "none"
                    /\ entry'[i].in = "gone" /\ entry'[i].sock = None /\ entry'[i].sent = 0 /\ entry'[i].buffer = <<>>
<1> DEFINE Then(i) == IF entry[i].in = "none" THEN entry[i] ELSE Gone(entry[i])
<1>1. entry' = [i \in Ids |-> Then(i)]
  BY Zenon DEF Restart
<1>2. ASSUME NEW i \in Ids
      PROVE  /\ Then(i) \in Clients /\ Good(Then(i)) /\ Then(i).workspace = entry[i].workspace
             /\ \/ entry[i].in = "none" /\ Then(i) = entry[i]
                \/ /\ entry[i].in # "none"
                   /\ Then(i).in = "gone" /\ Then(i).sock = None /\ Then(i).sent = 0 /\ Then(i).buffer = <<>>
  <2>1. entry[i] \in Clients /\ Good(entry[i])
    BY DEF FeedTypes
  <2> QED
    BY <2>1, GoneEffect
<1> HIDE DEF Then
<1> QED
  BY <1>1, <1>2

----------------------------------------------------------------------------
(* The types are kept. *)

\* The steps that leave the server's clients and the log alone.
Elsewhere ==
  \/ Connect \/ ClientClose \/ Welcome \/ Receive \/ GapTimer \/ Fetched
  \/ \E s \in Sockets : Handshake(s) \/ Break(s)
  \/ UNCHANGED vars

LEMMA StepCases ==
  ASSUME [Next]_vars
  PROVE  \/ \E w \in Workspaces : Push(w)
         \/ \E w \in Workspaces : SwitchWorkspace(w)
         \/ \E i \in Ids : Forget(i)
         \/ \E s \in Sockets : Reconnect(s)
         \/ \E s \in Sockets : Admit(s)
         \/ \E s \in Sockets : ServerClose(s)
         \/ Restart
         \/ \E n \in Events : SequenceAck(n)
         \/ Elsewhere
BY Zenon DEF Next, Elsewhere

LEMMA ElsewhereKeeps ==
  ASSUME Elsewhere
  PROVE  log' = log /\ entry' = entry
<1>1. CASE \E s \in Sockets : Handshake(s) \/ Break(s)
  BY <1>1 DEF Handshake, Break, serverVars
<1>2. CASE Connect \/ ClientClose \/ Welcome \/ Receive \/ GapTimer \/ Fetched
  BY <1>2 DEF Connect, ClientClose, Welcome, Receive, GapTimer, Fetched, serverVars
<1>3. CASE UNCHANGED vars
  BY <1>3 DEF vars, serverVars
<1> QED
  BY <1>1, <1>2, <1>3, Zenon DEF Elsewhere

LEMMA FeedTypesNext ==
  ASSUME TypeInv, [Next]_vars
  PROVE  FeedTypes'
<1>1. FeedTypes /\ SocketTypes /\ DownTypes
  BY TypeParts
<1>2. /\ log \in Seq(Workspaces) /\ Len(log) \in Nat /\ Len(log) <= MaxEvents /\ MaxEvents \in Nat
      /\ \A i \in Ids : Good(entry[i]) /\ entry[i].sent \in Nat /\ entry[i].sent <= Len(log)
  BY <1>1, FeedTypesFacts, Bounds DEF FeedTypes
<1>3. ASSUME NEW w \in Workspaces, Push(w) PROVE FeedTypes'
  <2>1. \A i \in Ids : entry'[i].sent <= Len(log')
    <3> SUFFICES ASSUME NEW i \in Ids PROVE entry'[i].sent <= Len(log')
      OBVIOUS
    <3>1. Len(log') = Len(log) + 1
      BY <1>1, <1>3, PushEffect
    <3>2. entry'[i].sent = entry[i].sent \/ entry'[i].sent = entry[i].sent + 1
      BY <1>1, <1>3, PushEffect DEF Grew
    <3> QED
      BY <1>2, <3>1, <3>2
  <2> QED
    BY <1>1, <1>3, <2>1, PushEffect DEF FeedTypes
<1>4. ASSUME log' = log, entry' \in [Ids -> Clients],
             \A i \in Ids : Good(entry'[i]) /\ (entry'[i].sent = entry[i].sent \/ entry'[i].sent = 0)
      PROVE  FeedTypes'
  BY <1>2, <1>4 DEF FeedTypes
<1>5. ASSUME NEW w \in Workspaces, SwitchWorkspace(w) PROVE FeedTypes'
  <2>1. log' = log
    BY <1>5 DEF SwitchWorkspace
  <2> QED
    BY <1>1, <1>2, <1>4, <1>5, <2>1, SwitchEffect DEF SameFeed
<1>6. ASSUME NEW i \in Ids, Forget(i) PROVE FeedTypes'
  <2>1. log' = log
    BY <1>6 DEF Forget
  <2> QED
    BY <1>1, <1>2, <1>4, <1>6, <2>1, ForgetEffect
<1>7. ASSUME NEW s \in Sockets, Reconnect(s) PROVE FeedTypes'
  <2>1. log' = log
    BY <1>7 DEF Reconnect, Settled
  <2> QED
    BY <1>1, <1>2, <1>4, <1>7, <2>1, ReconnectEffect
<1>8. ASSUME NEW s \in Sockets, Admit(s) PROVE FeedTypes'
  <2>1. log' = log
    BY <1>8 DEF Admit, Settled
  <2> QED
    BY <1>1, <1>2, <1>4, <1>8, <2>1, AdmitEffect
<1>9. ASSUME NEW s \in Sockets, ServerClose(s) PROVE FeedTypes'
  <2>1. log' = log
    BY <1>9 DEF ServerClose
  <2> QED
    BY <1>1, <1>2, <1>4, <1>9, <2>1, ServerCloseEffect DEF SameFeed
<1>10. ASSUME Restart PROVE FeedTypes'
  <2>1. log' = log
    BY <1>10 DEF Restart
  <2> QED
    BY <1>1, <1>2, <1>4, <1>10, <2>1, RestartEffect
<1>11. ASSUME NEW n \in Events, SequenceAck(n) PROVE FeedTypes'
  <2>1. log' = log
    BY <1>11 DEF SequenceAck
  <2> QED
    BY <1>1, <1>2, <1>4, <1>11, <2>1, SequenceAckEffect DEF Trimmed
<1>12. CASE Elsewhere
  BY <1>1, <1>12, ElsewhereKeeps DEF FeedTypes
<1> QED
  BY <1>3, <1>5, <1>6, <1>7, <1>8, <1>9, <1>10, <1>11, <1>12, StepCases

LEMMA SocketTypesNext ==
  ASSUME TypeInv, [Next]_vars
  PROVE  SocketTypes'
<1> USE DEF SocketTypes
<1>1. SocketTypes /\ snapshot \in Snapshots \union {None} /\ None \in Snapshots \union {None}
  BY TypeParts DEF ClientTypes
<1>2. ASSUME UNCHANGED <<link, accepted, hello>> PROVE SocketTypes'
  BY <1>1, <1>2
<1>3. CASE Connect
  BY <1>1, <1>3 DEF Connect
<1>4. ASSUME NEW s \in Sockets, Handshake(s) PROVE SocketTypes'
  BY <1>1, <1>4 DEF Handshake, wire
<1>5. ASSUME NEW s \in Sockets, Settled(s) PROVE SocketTypes'
  BY <1>1, <1>5 DEF Settled
<1>6. ASSUME NEW s \in Sockets, Break(s) PROVE SocketTypes'
  BY <1>1, <1>6 DEF Break, serverVars
<1>7. ASSUME NEW s \in Sockets, ServerClose(s) PROVE SocketTypes'
  BY <1>1, <1>7 DEF ServerClose, wire
<1>8. CASE Restart
  BY <1>1, <1>8 DEF Restart
<1>9. CASE UNCHANGED vars
  BY <1>2, <1>9 DEF vars, serverVars, wire
<1>10. CASE \/ \E w \in Workspaces : Push(w) \/ SwitchWorkspace(w)
            \/ \E i \in Ids : Forget(i)
            \/ \E n \in Events : SequenceAck(n)
  BY <1>2, <1>10 DEF Push, SwitchWorkspace, Forget, SequenceAck, wire
<1>11. CASE ClientClose \/ Welcome \/ Receive \/ GapTimer \/ Fetched
  BY <1>2, <1>11 DEF ClientClose, Welcome, Receive, GapTimer, Fetched, serverVars, wire
<1> QED
  BY <1>3, <1>4, <1>5, <1>6, <1>7, <1>8, <1>9, <1>10, <1>11, StepCases, Zenon DEF Elsewhere, Reconnect, Admit

LEMMA SentTypes ==
  ASSUME DownTypes, NEW s \in Sockets, NEW msgs \in Seq(Messages)
  PROVE  Sent(s, msgs) \in [Sockets -> Seq(Messages)]
<1>1. down[s] \o msgs \in Seq(Messages)
  BY ConcatProperties DEF DownTypes
<1> QED
  BY <1>1 DEF Sent, DownTypes

LEMMA MessageFields ==
  ASSUME NEW m \in Messages
  PROVE  /\ m.type \in {"ack", "event"}
         /\ m.type = "ack" => /\ m.id \in Ids /\ m.reconnected \in BOOLEAN /\ m.stale \in BOOLEAN
                              /\ m = Acknowledgement(m.id, m.reconnected, m.stale)
         /\ m.type = "event" => m.seq \in Events /\ m.event \in Events /\ m = Event(m.seq, m.event)
<1>1. CASE m \in [type : {"ack"}, id : Ids, reconnected : BOOLEAN, stale : BOOLEAN]
  BY <1>1 DEF Acknowledgement
<1>2. CASE m \in [type : {"event"}, seq : Events, event : Events]
  BY <1>2 DEF Event
<1> QED
  BY <1>1, <1>2 DEF Messages

LEMMA ReceivedFacts ==
  ASSUME DownTypes, ClientTypes, NEW type, Received(type)
  PROVE  /\ ws \in Sockets /\ down[ws] \in Seq(Messages) /\ Len(down[ws]) \in Nat /\ Len(down[ws]) > 0
         /\ Head(down[ws]) = down[ws][1] /\ Head(down[ws]) \in Messages /\ Head(down[ws]).type = type
         /\ Tail(down[ws]) \in Seq(Messages) /\ Len(Tail(down[ws])) = Len(down[ws]) - 1
         /\ \A k \in 1 .. Len(down[ws]) - 1 : Tail(down[ws])[k] = down[ws][k + 1]
<1> DEFINE msgs == down[ws]
<1>1. ws \in Sockets /\ msgs \in Seq(Messages) /\ msgs # <<>> /\ Head(msgs).type = type
  BY DEF Received, ClientTypes, DownTypes
<1> HIDE DEF msgs
<1>2. /\ Len(msgs) \in Nat /\ Len(msgs) > 0 /\ Head(msgs) = msgs[1] /\ Head(msgs) \in Messages
      /\ Tail(msgs) \in Seq(Messages) /\ Len(Tail(msgs)) = Len(msgs) - 1
      /\ \A k \in 1 .. Len(msgs) - 1 : Tail(msgs)[k] = msgs[k + 1]
  BY <1>1, HeadTailProperties, LenProperties, EmptySeq
<1> QED
  BY <1>1, <1>2 DEF msgs

LEMMA TakenFromTheWire ==
  ASSUME DownTypes, ClientTypes, NEW type, Received(type), down' = [down EXCEPT ![ws] = Tail(@)]
  PROVE  /\ down' \in [Sockets -> Seq(Messages)] /\ down'[ws] = Tail(down[ws])
         /\ \A s \in Sockets \ {ws} : down'[s] = down[s]
<1>1. ws \in Sockets /\ Tail(down[ws]) \in Seq(Messages)
  BY ReceivedFacts
<1> QED
  BY <1>1 DEF DownTypes

LEMMA DownTypesNext ==
  ASSUME TypeInv, [Next]_vars
  PROVE  DownTypes'
<1> USE DEF DownTypes
<1>1. FeedTypes /\ SocketTypes /\ DownTypes /\ ClientTypes
  BY TypeParts
<1>2. ASSUME NEW w \in Workspaces, Push(w) PROVE DownTypes'
  BY <1>1, <1>2, PushEffect
<1>3. ASSUME NEW s \in Sockets, Reconnect(s) PROVE DownTypes'
  <2>1. \E msgs \in Seq(Messages) : down' = Sent(s, msgs)
    BY <1>1, <1>3, ReconnectEffect, Zenon DEF Replay
  <2> QED
    BY <1>1, <2>1, SentTypes
<1>4. ASSUME NEW s \in Sockets, Admit(s) PROVE DownTypes'
  <2>1. \E msgs \in Seq(Messages) : down' = Sent(s, msgs)
    BY <1>1, <1>4, AdmitEffect, Zenon
  <2> QED
    BY <1>1, <2>1, SentTypes
<1>5. ASSUME NEW s \in Sockets, Break(s) PROVE DownTypes'
  <2>1. <<>> \in Seq(Messages)
    OBVIOUS
  <2> QED
    BY <1>1, <1>5, <2>1 DEF Break
<1>6. CASE Restart
  <2>1. <<>> \in Seq(Messages) /\ down' = [s \in Sockets |-> <<>>]
    BY <1>6 DEF Restart
  <2> QED
    BY <2>1
<1>7. CASE Welcome
  BY <1>1, <1>7, TakenFromTheWire DEF Welcome
<1>8. CASE Receive
  BY <1>1, <1>8, TakenFromTheWire DEF Receive
<1>9. ASSUME down' = down PROVE DownTypes'
  BY <1>1, <1>9
<1>10. CASE Connect \/ ClientClose \/ GapTimer \/ Fetched
  BY <1>9, <1>10 DEF Connect, ClientClose, GapTimer, Fetched, wire
<1>11. ASSUME NEW s \in Sockets, Handshake(s) \/ ServerClose(s) PROVE DownTypes'
  BY <1>9, <1>11 DEF Handshake, ServerClose, wire
<1>12. CASE UNCHANGED vars
  BY <1>9, <1>12 DEF vars, wire
<1>13. CASE \/ \E w \in Workspaces : SwitchWorkspace(w)
            \/ \E i \in Ids : Forget(i)
            \/ \E n \in Events : SequenceAck(n)
  BY <1>9, <1>13 DEF SwitchWorkspace, Forget, SequenceAck, wire
<1> QED
  BY <1>2, <1>3, <1>4, <1>5, <1>6, <1>7, <1>8, <1>10, <1>11, <1>12, <1>13, StepCases, Zenon DEF Elsewhere

\* The steps that leave the window's client alone.
ServerSide ==
  \/ \E w \in Workspaces : Push(w) \/ SwitchWorkspace(w)
  \/ \E i \in Ids : Forget(i)
  \/ \E s \in Sockets : Handshake(s) \/ Reconnect(s) \/ Admit(s) \/ Break(s) \/ ServerClose(s)
  \/ Restart \/ Fetched
  \/ \E n \in Events : SequenceAck(n)
  \/ UNCHANGED vars

LEMMA ServerSideKeeps ==
  ASSUME ServerSide
  PROVE  UNCHANGED clientVars
<1>1. CASE \E w \in Workspaces : Push(w) \/ SwitchWorkspace(w)
  BY <1>1 DEF Push, SwitchWorkspace
<1>2. CASE \E s \in Sockets : Handshake(s) \/ Reconnect(s) \/ Admit(s) \/ Break(s) \/ ServerClose(s)
  BY <1>2 DEF Handshake, Reconnect, Admit, Settled, Break, ServerClose
<1>3. CASE \/ \E i \in Ids : Forget(i)
           \/ Restart \/ Fetched
           \/ \E n \in Events : SequenceAck(n)
           \/ UNCHANGED vars
  BY <1>3 DEF Forget, Restart, Fetched, SequenceAck, vars
<1> QED
  BY <1>1, <1>2, <1>3, Zenon DEF ServerSide

LEMMA ClientTypesNext ==
  ASSUME TypeInv, [Next]_vars
  PROVE  ClientTypes'
<1> USE DEF ClientTypes
<1>1. FeedTypes /\ SocketTypes /\ DownTypes /\ ClientTypes /\ WindowTypes
  BY TypeParts
<1>2. 0 \in Numbers /\ Events \subseteq Numbers
  BY Bounds DEF Numbers, Events
<1>3. CASE ServerSide
  BY <1>1, <1>3, ServerSideKeeps DEF clientVars
<1>4. CASE Connect
  BY <1>1, <1>4 DEF Connect
<1>5. CASE ClientClose
  <2>1. [id |-> clientId, lastSeq |-> lastContiguous] \in Snapshots \/ clientId = None
    BY <1>1 DEF Snapshots
  <2>2. snapshot' \in Snapshots \union {None}
    BY <1>1, <1>5, <2>1 DEF ClientClose
  <2> QED
    BY <1>1, <1>5, <2>2 DEF ClientClose
<1>6. CASE Welcome
  <2> DEFINE m == Head(down[ws])
  <2>1. m.id \in Ids
    BY <1>1, <1>6, ReceivedFacts, MessageFields DEF Welcome
  <2> QED
    BY <1>1, <1>2, <1>6, <2>1 DEF Welcome
<1>7. CASE Receive
  <2> DEFINE m == Head(down[ws])
  <2>1. m.seq \in Events
    BY <1>1, <1>7, ReceivedFacts, MessageFields DEF Receive
  <2>2. /\ lastSeen' = m.seq /\ lastContiguous' \in {lastContiguous, m.seq}
        /\ gapDue' = (gapDue \/ Gap(m.seq))
        /\ UNCHANGED <<ws, connected, clientId, snapshot, reconnects>>
    BY <1>7 DEF Receive
  <2>3. gapDue' \in BOOLEAN
    BY <2>2
  <2> QED
    BY <1>1, <1>2, <2>1, <2>2, <2>3
<1>8. CASE GapTimer
  BY <1>1, <1>8 DEF GapTimer
<1> QED
  BY <1>3, <1>4, <1>5, <1>6, <1>7, <1>8, Zenon DEF Next, ServerSide

LEMMA WindowTypesNext ==
  ASSUME TypeInv, [Next]_vars
  PROVE  WindowTypes'
<1> USE DEF WindowTypes
<1>1. FeedTypes /\ SocketTypes /\ DownTypes /\ ClientTypes /\ WindowTypes
  BY TypeParts
<1>2. Due \subseteq Events
  BY <1>1, FeedTypesFacts DEF Due
<1>3. ASSUME breaks < MaxBreaks, breaks' = breaks + 1 PROVE breaks' \in 0 .. MaxBreaks
  BY <1>1, <1>3, Bounds
<1>4. ASSUME UNCHANGED <<window, bounds>> PROVE WindowTypes'
  BY <1>1, <1>4 DEF window, bounds
<1>5. CASE \/ \E w \in Workspaces : Push(w)
           \/ \E i \in Ids : Forget(i)
           \/ \E n \in Events : SequenceAck(n)
           \/ UNCHANGED vars
  BY <1>4, <1>5 DEF Push, Forget, SequenceAck, vars
<1>6. ASSUME NEW s \in Sockets, Handshake(s) \/ Settled(s) \/ ServerClose(s) PROVE WindowTypes'
  BY <1>4, <1>6 DEF Handshake, Settled, ServerClose
<1>7. CASE Restart \/ \E s \in Sockets : Break(s)
  BY <1>1, <1>3, <1>7 DEF Restart, Break, window
<1>8. CASE Connect
  BY <1>4, <1>8 DEF Connect
<1>9. CASE ClientClose
  BY <1>1, <1>9 DEF ClientClose, bounds
<1>10. CASE Welcome
  BY <1>1, <1>10 DEF Welcome, bounds
<1>11. CASE Receive
  <2>1. view' \subseteq Events
    BY <1>1, <1>2, <1>11, Zenon DEF Receive
  <2> QED
    BY <1>1, <1>11, <2>1 DEF Receive, bounds
<1>12. CASE GapTimer
  BY <1>1, <1>12 DEF GapTimer, bounds
<1>13. CASE Fetched
  BY <1>1, <1>2, <1>13 DEF Fetched, bounds
<1>14. ASSUME NEW w \in Workspaces, SwitchWorkspace(w) PROVE WindowTypes'
  BY <1>1, <1>14, Bounds DEF SwitchWorkspace
<1> QED
  BY <1>5, <1>6, <1>7, <1>8, <1>9, <1>10, <1>11, <1>12, <1>13, <1>14, Zenon DEF Next, Reconnect, Admit

LEMMA TypeInvInit ==
  ASSUME Init
  PROVE  TypeInv
<1>1. 0 \in Numbers /\ <<>> \in Seq(Messages) /\ <<>> \in Seq(Workspaces) /\ Len(<<>>) = 0 /\ MaxEvents >= 0
      /\ 0 \in 0 .. MaxBreaks /\ 0 \in 0 .. MaxSwitches /\ Home \in Workspaces
  BY Bounds DEF Numbers
<1>2. Good(Unused) /\ Unused.sent = 0 /\ Unused \in Clients
  BY UnusedIsGood DEF Unused, Good
<1>3. FeedTypes
  BY <1>1, <1>2 DEF Init, FeedTypes
<1>4. SocketTypes /\ DownTypes
  BY <1>1 DEF Init, SocketTypes, DownTypes
<1>5. ClientTypes /\ WindowTypes
  BY <1>1 DEF Init, ClientTypes, WindowTypes
<1> QED
  BY <1>3, <1>4, <1>5, TypeParts

LEMMA TypeInvNext ==
  ASSUME TypeInv, [Next]_vars
  PROVE  TypeInv'
<1>1. FeedTypes' /\ SocketTypes' /\ DownTypes' /\ ClientTypes' /\ WindowTypes'
  BY FeedTypesNext, SocketTypesNext, DownTypesNext, ClientTypesNext, WindowTypesNext
<1>2. TypeInv' <=> FeedTypes' /\ SocketTypes' /\ DownTypes' /\ ClientTypes' /\ WindowTypes'
  BY TypeParts, PTL
<1> QED
  BY <1>1, <1>2

\* Every state has its types; in particular the buffer a client is kept with never grows past its limit
\* or past what was sent to it (server.ts, evictBuffer).
THEOREM TransportTypeCorrectness == Spec => []TransportTypeOK
<1>1. TypeInv => TransportTypeOK
  BY DEF TypeInv
<1> QED
  BY <1>1, TypeInvInit, TypeInvNext, PTL DEF Spec
=============================================================================
