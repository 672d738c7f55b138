-------------------------- MODULE ConnectionProofs --------------------------
(***************************************************************************)
(* Proofs about the connections of Tcpip, for any number of hosts, clients *)
(* and sockets, any buffers, and a network that may lose packets and send  *)
(* resets: data arrive in order and from the peer, and closing is sound.   *)
(*                                                                         *)
(* Nothing in the stack says which connection a segment is of: handle_tcp  *)
(* finds a socket by the destination port alone.  The invariant names each *)
(* connection by its active end, keeps where it leads in a table the code  *)
(* does not have, and relates, connection by connection, the states of the *)
(* two ends and the segments between them: as long as nothing is given up, *)
(* whatever is on its way to a server's port is of the connection that the *)
(* socket there serves, or is the SYN of a new one.                        *)
(***************************************************************************)
EXTENDS NetworkProofs

-----------------------------------------------------------------------------
(* Connections.  A connection is named by its active end, node n and port p:  *)
(* no port is used twice.  h[n][p] is the node it leads to, None if the port  *)
(* has not been used; c and e are the states of its active and its passive    *)
(* end (no state or one), w is the wire and a is abandoned.                   *)

Ephemeral == EPHEMERAL..(PORT_MOD - 1)
Joined == {"ESTABLISHED", "FIN_WAIT_1", "FIN_WAIT_2", "CLOSE_WAIT", "LAST_ACK", "TIME_WAIT"}

\* Socket s of node n is idle, listens, serves a connection, or connects.
Idle(s) == /\ s.local_port = 0 /\ s.state = "CLOSED" /\ s.rx_buffer = <<>>
           /\ s.remote_ip = None /\ s.remote_port = 0
Listens(s) == /\ s.local_port = SERVER_PORT /\ s.state = "LISTEN" /\ s.rx_buffer = <<>>
              /\ s.remote_ip = None /\ s.remote_port = 0
Serves(h, n, s) ==
  /\ s.local_port = SERVER_PORT /\ s.state \in Joined \cup {"SYN_RECEIVED"}
  /\ s.remote_ip \in Nodes /\ s.remote_port \in Ephemeral /\ h[s.remote_ip][s.remote_port] = n
Connects(h, n, s) ==
  /\ s.local_port \in Ephemeral /\ s.state \in Joined \cup {"SYN_SENT"}
  /\ s.remote_ip \in Nodes /\ h[n][s.local_port] = s.remote_ip /\ s.remote_port = SERVER_PORT

SocketInv(h, n, s) ==
  /\ Idle(s) \/ (s.active /\ (Listens(s) \/ Serves(h, n, s) \/ Connects(h, n, s)))
  /\ s.timeout => s.state = "TIME_WAIT"
  /\ s.state = "SYN_RECEIVED" => s.rx_buffer = <<>>

\* No two sockets of a node are bound to one port.
PortsApart(S) == \A n \in Nodes : \A fd, g \in Fds :
  S[n][fd].local_port = S[n][g].local_port /\ S[n][fd].local_port # 0 => fd = g

SocketsInv(h, S) == PortsApart(S) /\ \A n \in Nodes : \A fd \in Fds : SocketInv(h, n, S[n][fd])

\* Packet q is of connection n, p, on the way to its passive or active end.
Up(q, n, p) == q.kind = "tcp" /\ q.dport = SERVER_PORT /\ q.from = n /\ q.sport = p
Down(q, p)  == q.kind = "tcp" /\ q.dport = p

Syn    == {{"SYN"}}
SynAck == {{"SYN", "ACK"}}
Fin    == {{"FIN", "ACK"}}
Says   == {{"PSH", "ACK"}, {"FIN", "ACK"}}
Heard  == {{"SYN", "ACK"}, {"ACK"}, {"PSH", "ACK"}, {"FIN", "ACK"}}
Acks   == {f \in SUBSET {"SYN", "ACK", "FIN", "RST", "PSH"} : "ACK" \in f}

\* A packet on the wire to node m.
PacketInv(h, a, m, q) == q.kind = "tcp" =>
  /\ q.from \in Nodes
  /\ \/ /\ q.dport = SERVER_PORT /\ q.sport \in Ephemeral /\ h[q.from][q.sport] = m
        /\ q.flags \in Syn \cup {{"ACK"}, {"RST"}} \cup Says
     \/ /\ q.dport \in Ephemeral /\ q.sport = SERVER_PORT /\ h[m][q.dport] = q.from
        /\ q.flags \in Heard \cup {{"RST"}}
  /\ q.flags = {"RST"} => a
  /\ IF q.flags = {"PSH", "ACK"} THEN q.data \in Unit /\ q.data.from = q.from /\ q.data.port = q.sport
     ELSE q.data = NoUnit
WireInv(h, a, w) == \A m \in Nodes : \A i \in DOMAIN w[m] : PacketInv(h, a, m, w[m][i])

\* The states of the ends.
Caller(S, n, p) == {S[n][fd].state : fd \in {g \in Fds : S[n][g].local_port = p}}
Callee(S, m, n, p) ==
  {S[m][fd].state : fd \in {g \in Fds : /\ S[m][g].local_port = SERVER_PORT
                                        /\ S[m][g].remote_ip = n /\ S[m][g].remote_port = p}}
In(c, X) == \E x \in c : x \in X

\* A packet with flags of F is on the way.
HasUp(w, m, n, p, F) == \E i \in DOMAIN w[m] : Up(w[m][i], n, p) /\ w[m][i].flags \in F
HasDown(w, n, p, F)  == \E i \in DOMAIN w[n] : Down(w[n][i], p) /\ w[n][i].flags \in F

\* A SYN is the first the passive end hears of the connection.
OnlySyn(c, e, w, n, p, m) ==
  /\ HasUp(w, m, n, p, Syn) => /\ ~In(c, Joined) /\ ~In(e, TcpStates)
                               /\ ~HasDown(w, n, p, Heard)
  /\ \A i, j \in DOMAIN w[m] :
       Up(w[m][i], n, p) /\ w[m][i].flags \in Syn /\ Up(w[m][j], n, p) => j = i

\* What the active end has heard a FIN of is closed.
Open == {"SYN_RECEIVED", "ESTABLISHED", "CLOSE_WAIT"}
FinHeard(c, e, w, n, p, m) ==
  HasDown(w, n, p, Fin) \/ In(c, {"CLOSE_WAIT", "LAST_ACK", "TIME_WAIT"}) => ~In(e, Open)

\* The active end says nothing after its FIN.
FinLast(c, e, w, n, p, m) ==
  /\ HasUp(w, m, n, p, Fin) => ~In(c, {"SYN_SENT", "ESTABLISHED", "CLOSE_WAIT"})
  /\ \A i, j \in DOMAIN w[m] :
       Up(w[m][i], n, p) /\ w[m][i].flags \in Fin /\ Up(w[m][j], n, p) /\ j > i
         => w[m][j].flags \notin Says

\* Whatever the active end says, the passive end is there to hear it.
Live(c, w, n, p, m) ==
  \/ In(c, {"ESTABLISHED", "CLOSE_WAIT"}) \/ HasUp(w, m, n, p, Says)
  \/ In(c, {"SYN_SENT"}) /\ HasDown(w, n, p, SynAck)
Listening == {"SYN_RECEIVED", "ESTABLISHED", "FIN_WAIT_1", "FIN_WAIT_2"}
Answered(c, e, w, n, p, m) == Live(c, w, n, p, m) => In(e, Listening)

\* A FIN is of an active end that waits for the passive one to close.
Closers == {"FIN_WAIT_1", "FIN_WAIT_2"}
FinFrom(c, e, w, n, p, m) ==
  In(e, Open) /\ (In(e, {"CLOSE_WAIT"}) \/ HasUp(w, m, n, p, Fin)) => In(c, Closers)

ConnInv(c, e, w, a, n, p, m) ==
  /\ OnlySyn(c, e, w, n, p, m) /\ FinHeard(c, e, w, n, p, m) /\ FinLast(c, e, w, n, p, m)
  /\ ~a => Answered(c, e, w, n, p, m) /\ FinFrom(c, e, w, n, p, m)

ConnsInv(h, S, w, a) ==
  \A n \in Nodes : \A p \in Ephemeral : h[n][p] # None =>
    ConnInv(Caller(S, n, p), Callee(S, h[n][p], n, p), w, a, n, p, h[n][p])

\* What an end in LAST_ACK waits for is on the way.
DueInv(c, e, w, n, p, m) ==
  /\ In(c, {"LAST_ACK"}) => HasDown(w, n, p, Acks) \/ HasUp(w, m, n, p, Fin)
  /\ In(e, {"LAST_ACK"}) => \/ HasDown(w, m, SERVER_PORT, Acks)
                            \/ In(c, Closers) /\ HasDown(w, n, p, Fin)
DuesInv(h, S, w) ==
  \A n \in Nodes : \A p \in Ephemeral : h[n][p] # None =>
    DueInv(Caller(S, n, p), Callee(S, h[n][p], n, p), w, n, p, h[n][p])

\* A handle its program has not closed is of a socket that has sent no FIN.
OpenInv == \A n \in Nodes : \A fd \in open[n] :
  sockets[n][fd].state \notin {"FIN_WAIT_1", "FIN_WAIT_2", "LAST_ACK", "TIME_WAIT"}

\* Units are read, buffered and on the wire in the order of their numbers:
\* those on wire w to node m, all later than last unit l and buffer b of a socket.
HasData(q) == q.kind = "tcp" /\ q.data # NoUnit
InStream(w, m, t) == \A i \in DOMAIN w[m] : HasData(w[m][i]) =>
  /\ w[m][i].data.k <= t
  /\ \A j \in DOMAIN w[m] : i < j /\ HasData(w[m][j]) => w[m][i].data.k < w[m][j].data.k
Later(w, m, b, l) == \A i \in DOMAIN w[m] : HasData(w[m][i]) =>
  l < w[m][i].data.k /\ \A j \in DOMAIN b : b[j].k < w[m][i].data.k
Rising(b, l, t) == l <= t /\ \A i \in DOMAIN b :
  b[i].k <= t /\ b[i].k > l /\ \A j \in DOMAIN b : j < i => b[j].k < b[i].k
OrderInv == \A m \in Nodes : InStream(wire, m, sent) /\ \A fd \in Fds :
  Later(wire, m, sockets[m][fd].rx_buffer, last[m][fd]) /\ Rising(sockets[m][fd].rx_buffer, last[m][fd], sent)

-----------------------------------------------------------------------------
(* The wire: packets taken from the front, packets added at the end.         *)

Thinner(w, w2) == \A m \in Nodes : \E d \in Nat : \A i \in DOMAIN w2[m] :
  i + d \in DOMAIN w[m] /\ w2[m][i] = w[m][i + d]

\* w2 is w with packet q at the end at node to, or with ARP packets, or w.
Grown(w, w2, to, q) == \A m \in Nodes :
  \/ w2[m] = w[m]
  \/ \E r : w2[m] = Append(w[m], r) /\ (r.kind = "arp" \/ (m = to /\ r = q))

\* Taking the head of a wire (tcpip_poll) leaves the others in their order.
LEMMA TakenThinner ==
  ASSUME TcpTypeInv, NEW n \in Nodes, wire[n] # <<>>
  PROVE  Thinner(wire, Taken(n))
<1>1. \A m \in Nodes : wire[m] \in Seq(Packet)
  BY DEF TcpTypeInv, WireOK
<1>2. \A m \in Nodes : Taken(n)[m] = IF m = n THEN Tail(wire[m]) ELSE wire[m]
  BY DEF Taken, TcpTypeInv, WireOK
<1>3. ASSUME NEW m \in Nodes
      PROVE  \E d \in Nat : \A i \in DOMAIN Taken(n)[m] :
               i + d \in DOMAIN wire[m] /\ Taken(n)[m][i] = wire[m][i + d]
  <2>1. CASE m = n
    <3>1. \A i \in DOMAIN Tail(wire[n]) : i + 1 \in DOMAIN wire[n] /\ Tail(wire[n])[i] = wire[n][i + 1]
      BY <1>1
    <3> QED BY <1>2, <2>1, <3>1
  <2>2. CASE m # n
    <3>1. \A i \in DOMAIN wire[m] : i + 0 \in DOMAIN wire[m] /\ wire[m][i] = wire[m][i + 0]
      BY <1>1
    <3> QED BY <1>2, <2>2, <3>1
  <2> QED BY <2>1, <2>2
<1> QED BY <1>3 DEF Thinner

\* What is left on the wire was there.
LEMMA ThinHas ==
  ASSUME NEW w, NEW w2, Thinner(w, w2), NEW n \in Nodes, NEW m \in Nodes, NEW p, NEW F
  PROVE  /\ HasUp(w2, m, n, p, F) => HasUp(w, m, n, p, F)
         /\ HasDown(w2, n, p, F) => HasDown(w, n, p, F)
<1>1. \A x \in Nodes : \A i \in DOMAIN w2[x] : \E j \in DOMAIN w[x] : w2[x][i] = w[x][j]
  BY DEF Thinner
<1>2. HasUp(w2, m, n, p, F) => HasUp(w, m, n, p, F)
  BY <1>1 DEF HasUp
<1>3. HasDown(w2, n, p, F) => HasDown(w, n, p, F)
  BY <1>1 DEF HasDown
<1> QED BY <1>2, <1>3

\* What holds of pairs of packets of a wire in their order holds of fewer.
LEMMA ThinConn ==
  ASSUME NEW w, NEW w2, WireOK(w), WireOK(w2), Thinner(w, w2),
         NEW n \in Nodes, NEW m \in Nodes, NEW p, NEW c, NEW e, NEW a,
         ConnInv(c, e, w, a, n, p, m)
  PROVE  ConnInv(c, e, w2, a, n, p, m)
<1>1. \A F : /\ HasUp(w2, m, n, p, F) => HasUp(w, m, n, p, F)
             /\ HasDown(w2, n, p, F) => HasDown(w, n, p, F)
  BY ThinHas
<1>2. PICK d \in Nat : \A i \in DOMAIN w2[m] : i + d \in DOMAIN w[m] /\ w2[m][i] = w[m][i + d]
  BY DEF Thinner
<1>3. \A i \in DOMAIN w2[m] : i \in Nat
  BY DEF WireOK
<1>4. ASSUME NEW i \in DOMAIN w2[m], NEW j \in DOMAIN w2[m], Up(w2[m][i], n, p),
             w2[m][i].flags \in Syn, Up(w2[m][j], n, p)
      PROVE  j = i
  <2>1. j + d = i + d
    <3>1. i + d \in DOMAIN w[m] /\ w2[m][i] = w[m][i + d] /\ j + d \in DOMAIN w[m] /\ w2[m][j] = w[m][j + d]
      BY <1>2
    <3> QED BY <1>4, <3>1 DEF ConnInv, OnlySyn
  <2> QED BY <1>3, <2>1
<1>5. ASSUME NEW i \in DOMAIN w2[m], NEW j \in DOMAIN w2[m], Up(w2[m][i], n, p),
             w2[m][i].flags \in Fin, Up(w2[m][j], n, p), j > i
      PROVE  w2[m][j].flags \notin Says
  <2>1. j + d > i + d
    BY <1>3, <1>5
  <2>2. i + d \in DOMAIN w[m] /\ w2[m][i] = w[m][i + d] /\ j + d \in DOMAIN w[m] /\ w2[m][j] = w[m][j + d]
    BY <1>2
  <2> QED BY <1>5, <2>1, <2>2 DEF ConnInv, FinLast
<1>6. OnlySyn(c, e, w2, n, p, m)
  BY <1>1, <1>4 DEF ConnInv, OnlySyn
<1>7. FinLast(c, e, w2, n, p, m)
  BY <1>1, <1>5 DEF ConnInv, FinLast
<1>8. FinHeard(c, e, w2, n, p, m)
  BY <1>1 DEF ConnInv, FinHeard
<1>9. ~a => Answered(c, e, w2, n, p, m) /\ FinFrom(c, e, w2, n, p, m)
  BY <1>1 DEF ConnInv, Answered, Live, FinFrom
<1> QED BY <1>6, <1>7, <1>8, <1>9 DEF ConnInv

\* What is on the wire after a packet was sent.
LEMMA GrownAt ==
  ASSUME NEW w, WireOK(w), NEW w2, NEW to, NEW q, q.kind = "tcp", Grown(w, w2, to, q), NEW m \in Nodes
  PROVE  /\ \A i \in DOMAIN w[m] : i \in Nat /\ i \in DOMAIN w2[m] /\ w2[m][i] = w[m][i]
         /\ \A i \in DOMAIN w2[m] : \/ i \in DOMAIN w[m]
                                    \/ /\ i = Len(w[m]) + 1
                                       /\ w2[m][i].kind = "arp" \/ (m = to /\ w2[m][i] = q)
<1>1. w[m] \in Seq(Packet)
  BY DEF WireOK
<1>2. CASE w2[m] = w[m]
  BY <1>1, <1>2
<1>3. ASSUME NEW r, w2[m] = Append(w[m], r), r.kind = "arp" \/ (m = to /\ r = q)
      PROVE  /\ \A i \in DOMAIN w[m] : i \in Nat /\ i \in DOMAIN w2[m] /\ w2[m][i] = w[m][i]
             /\ \A i \in DOMAIN w2[m] : \/ i \in DOMAIN w[m]
                                        \/ /\ i = Len(w[m]) + 1
                                           /\ w2[m][i].kind = "arp" \/ (m = to /\ w2[m][i] = q)
  <2>1. /\ DOMAIN w[m] = 1..Len(w[m]) /\ Len(w[m]) \in Nat /\ DOMAIN w2[m] = 1..(Len(w[m]) + 1)
        /\ \A i \in 1..Len(w[m]) : w2[m][i] = w[m][i]
        /\ w2[m][Len(w[m]) + 1] = r
    BY <1>1, <1>3
  <2> QED BY <1>3, <2>1
<1> QED BY <1>2, <1>3 DEF Grown

\* A segment sent is the only one that joins.
LEMMA GrowHas ==
  ASSUME NEW w, WireOK(w), NEW w2, NEW to, NEW q, q.kind = "tcp", Grown(w, w2, to, q),
         NEW n \in Nodes, NEW m \in Nodes, NEW p, NEW F
  PROVE  /\ HasUp(w2, m, n, p, F) => HasUp(w, m, n, p, F) \/ (m = to /\ Up(q, n, p) /\ q.flags \in F)
         /\ HasDown(w2, n, p, F) => HasDown(w, n, p, F) \/ (n = to /\ Down(q, p) /\ q.flags \in F)
         /\ HasUp(w, m, n, p, F) => HasUp(w2, m, n, p, F)
         /\ HasDown(w, n, p, F) => HasDown(w2, n, p, F)
<1>1. \A x \in Nodes : \A i \in DOMAIN w[x] : i \in DOMAIN w2[x] /\ w2[x][i] = w[x][i]
  BY GrownAt
<1>2. \A x \in Nodes : \A i \in DOMAIN w2[x] :
        (i \in DOMAIN w[x] /\ w2[x][i] = w[x][i]) \/ w2[x][i].kind = "arp" \/ (x = to /\ w2[x][i] = q)
  BY <1>1, GrownAt
<1>3. HasUp(w2, m, n, p, F) => HasUp(w, m, n, p, F) \/ (m = to /\ Up(q, n, p) /\ q.flags \in F)
  BY <1>2 DEF HasUp, Up
<1>4. HasDown(w2, n, p, F) => HasDown(w, n, p, F) \/ (n = to /\ Down(q, p) /\ q.flags \in F)
  BY <1>2 DEF HasDown, Down
<1>5. HasUp(w, m, n, p, F) => HasUp(w2, m, n, p, F)
  BY <1>1 DEF HasUp
<1>6. HasDown(w, n, p, F) => HasDown(w2, n, p, F)
  BY <1>1 DEF HasDown
<1> QED BY <1>3, <1>4, <1>5, <1>6

\* Packet q, on its way to node to, may join the wire as far as connection n, p
\* to m is concerned.
Fits(c, e, w, a, n, p, m, to, q) ==
  /\ to = m /\ Up(q, n, p) =>
       /\ q.flags \notin Syn /\ ~HasUp(w, m, n, p, Syn)
       /\ q.flags \in Fin => ~In(c, {"SYN_SENT", "ESTABLISHED", "CLOSE_WAIT"})
       /\ q.flags \in Says => ~HasUp(w, m, n, p, Fin)
       /\ ~a => /\ q.flags \in Fin => (In(e, Open) => In(c, Closers))
                /\ q.flags \in Says => In(e, Listening)
  /\ to = n /\ Down(q, p) =>
       /\ q.flags \in Heard => ~HasUp(w, m, n, p, Syn)
       /\ q.flags \in Fin => ~In(e, Open)
       /\ ~a => (q.flags \in SynAck => In(e, Listening))

\* A segment that fits the ends of a connection does not disturb it.
LEMMA GrowConn ==
  ASSUME NEW w, WireOK(w), NEW w2, NEW to, NEW q, q.kind = "tcp", Grown(w, w2, to, q),
         NEW n \in Nodes, NEW m \in Nodes, NEW p, NEW c, NEW e, NEW a,
         ConnInv(c, e, w, a, n, p, m), Fits(c, e, w, a, n, p, m, to, q)
  PROVE  ConnInv(c, e, w2, a, n, p, m)
<1>1. \A F : /\ HasUp(w2, m, n, p, F) => HasUp(w, m, n, p, F) \/ (to = m /\ Up(q, n, p) /\ q.flags \in F)
             /\ HasDown(w2, n, p, F) => HasDown(w, n, p, F) \/ (to = n /\ Down(q, p) /\ q.flags \in F)
  BY GrowHas
<1>2. \A i \in DOMAIN w[m] : i \in Nat /\ i \in DOMAIN w2[m] /\ w2[m][i] = w[m][i]
  BY GrownAt
<1>3. \A i \in DOMAIN w2[m] : Up(w2[m][i], n, p) =>
        \/ i \in DOMAIN w[m] /\ w2[m][i] = w[m][i]
        \/ i = Len(w[m]) + 1 /\ to = m /\ w2[m][i] = q /\ Up(q, n, p)
  BY <1>2, GrownAt DEF Up
<1>4. DOMAIN w[m] = 1..Len(w[m]) /\ Len(w[m]) \in Nat
  BY DEF WireOK
<1>5. ASSUME NEW i \in DOMAIN w2[m], NEW j \in DOMAIN w2[m], Up(w2[m][i], n, p),
             w2[m][i].flags \in Syn, Up(w2[m][j], n, p)
      PROVE  j = i
  <2>1. CASE to = m /\ Up(q, n, p)
    <3>1. q.flags \notin Syn /\ ~HasUp(w, m, n, p, Syn)
      BY <2>1 DEF Fits
    <3>2. i \in DOMAIN w[m] /\ w2[m][i] = w[m][i]
      BY <1>3, <1>5, <3>1
    <3> QED BY <1>5, <3>1, <3>2 DEF HasUp
  <2>2. CASE ~(to = m /\ Up(q, n, p))
    <3>1. i \in DOMAIN w[m] /\ w2[m][i] = w[m][i] /\ j \in DOMAIN w[m] /\ w2[m][j] = w[m][j]
      BY <1>3, <1>5, <2>2
    <3> QED BY <1>5, <3>1 DEF ConnInv, OnlySyn
  <2> QED BY <2>1, <2>2
<1>6. ASSUME NEW i \in DOMAIN w2[m], NEW j \in DOMAIN w2[m], Up(w2[m][i], n, p),
             w2[m][i].flags \in Fin, Up(w2[m][j], n, p), j > i
      PROVE  w2[m][j].flags \notin Says
  <2>1. i \in DOMAIN w[m] /\ w2[m][i] = w[m][i]
    <3>1. j <= Len(w[m]) + 1 /\ j \in Nat /\ i \in Nat
      BY <1>3, <1>4, <1>6
    <3> QED BY <1>3, <1>4, <1>6, <3>1
  <2>2. HasUp(w, m, n, p, Fin)
    BY <1>6, <2>1 DEF HasUp
  <2>3. CASE j \in DOMAIN w[m] /\ w2[m][j] = w[m][j]
    BY <1>6, <2>1, <2>3 DEF ConnInv, FinLast
  <2>4. CASE to = m /\ w2[m][j] = q /\ Up(q, n, p)
    BY <2>2, <2>4 DEF Fits
  <2> QED BY <1>3, <1>6, <2>3, <2>4
<1>7. OnlySyn(c, e, w2, n, p, m)
  BY <1>1, <1>5 DEF ConnInv, OnlySyn, Fits
<1>8. FinLast(c, e, w2, n, p, m)
  BY <1>1, <1>6 DEF ConnInv, FinLast, Fits
<1>9. FinHeard(c, e, w2, n, p, m)
  BY <1>1 DEF ConnInv, FinHeard, Fits
<1>10. ~a => Answered(c, e, w2, n, p, m) /\ FinFrom(c, e, w2, n, p, m)
  BY <1>1 DEF ConnInv, Answered, Live, FinFrom, Fits
<1> QED BY <1>7, <1>8, <1>9, <1>10 DEF ConnInv

\* A move of the active end.
LEMMA CallerMove ==
  ASSUME NEW w, NEW n, NEW m, NEW p, NEW c, NEW c2, NEW e, NEW a, NEW a2, a => a2,
         ConnInv(c, e, w, a, n, p, m),
         HasUp(w, m, n, p, Syn) => ~In(c2, Joined),
         In(c2, {"CLOSE_WAIT", "LAST_ACK", "TIME_WAIT"}) => ~In(e, Open),
         HasUp(w, m, n, p, Fin) => ~In(c2, {"SYN_SENT", "ESTABLISHED", "CLOSE_WAIT"}),
         ~a2 => /\ In(c2, {"ESTABLISHED", "CLOSE_WAIT"}) => In(e, Listening)
                /\ In(c2, {"SYN_SENT"}) => In(c, {"SYN_SENT"})
                /\ In(c, Closers) => In(c2, Closers) \/ ~In(e, Open)
  PROVE  ConnInv(c2, e, w, a2, n, p, m)
BY DEF ConnInv, OnlySyn, FinHeard, FinLast, Answered, Live, FinFrom

\* A move of the passive end.
LEMMA CalleeMove ==
  ASSUME NEW w, NEW n, NEW m, NEW p, NEW c, NEW e, NEW e2, NEW a, NEW a2, a => a2,
         ConnInv(c, e, w, a, n, p, m),
         HasUp(w, m, n, p, Syn) => ~In(e2, TcpStates),
         In(e2, Open) => \/ In(e, Open)
                         \/ ~HasDown(w, n, p, Fin) /\ ~In(c, {"CLOSE_WAIT", "LAST_ACK", "TIME_WAIT"}),
         ~a2 => /\ In(e, Listening) => In(e2, Listening) \/ ~Live(c, w, n, p, m)
                /\ In(e2, Open) /\ (In(e2, {"CLOSE_WAIT"}) \/ HasUp(w, m, n, p, Fin)) => In(c, Closers)
  PROVE  ConnInv(c, e2, w, a2, n, p, m)
BY DEF ConnInv, OnlySyn, FinHeard, FinLast, Answered, FinFrom

\* Giving up a connection only weakens what is known of it.
LEMMA Given ==
  ASSUME NEW w, NEW n, NEW m, NEW p, NEW c, NEW e, NEW a, NEW a2, a => a2,
         ConnInv(c, e, w, a, n, p, m)
  PROVE  ConnInv(c, e, w, a2, n, p, m)
BY DEF ConnInv

-----------------------------------------------------------------------------
(* The ends of connections after a change of one socket.                     *)

At(s, n, p) == s.local_port = SERVER_PORT /\ s.remote_ip = n /\ s.remote_port = p

\* Of the sockets S the one of node k at fd becomes s2.
Changes(S, S2, k, fd, s2) ==
  S \in [Nodes -> [Fds -> Socket]] /\ S2 = [S EXCEPT ![k][fd] = s2]

\* One end, or none.
LEMMA InOne ==
  ASSUME NEW x
  PROVE  \A X : (In({x}, X) <=> x \in X) /\ ~In({}, X)
BY DEF In

\* A socket that is of another port is of another connection.
LEMMA CallerKept ==
  ASSUME NEW S, NEW k \in Nodes, NEW fd \in Fds, NEW s2, NEW S2,
         Changes(S, S2, k, fd, s2)
  PROVE  \A n \in Nodes : \A p : n # k \/ (S[k][fd].local_port # p /\ s2.local_port # p) =>
           Caller(S2, n, p) = Caller(S, n, p)
<1> SUFFICES ASSUME NEW n \in Nodes, NEW p, n # k \/ (S[k][fd].local_port # p /\ s2.local_port # p)
             PROVE  Caller(S2, n, p) = Caller(S, n, p)
  OBVIOUS
<1>1. \A g \in Fds : S2[n][g] = IF n = k /\ g = fd THEN s2 ELSE S[n][g]
  BY DEF Changes
<1>2. {g \in Fds : S2[n][g].local_port = p} = {g \in Fds : S[n][g].local_port = p}
  BY <1>1
<1>3. \A g \in {i \in Fds : S[n][i].local_port = p} : S2[n][g] = S[n][g]
  BY <1>1
<1> QED BY <1>2, <1>3 DEF Caller

\* The same for the passive ends.
LEMMA CalleeKept ==
  ASSUME NEW S, NEW k \in Nodes, NEW fd \in Fds, NEW s2, NEW S2,
         Changes(S, S2, k, fd, s2)
  PROVE  \A m \in Nodes : \A n, p : m # k \/ (~At(S[k][fd], n, p) /\ ~At(s2, n, p)) =>
           Callee(S2, m, n, p) = Callee(S, m, n, p)
<1> SUFFICES ASSUME NEW m \in Nodes, NEW n, NEW p, m # k \/ (~At(S[k][fd], n, p) /\ ~At(s2, n, p))
             PROVE  Callee(S2, m, n, p) = Callee(S, m, n, p)
  OBVIOUS
<1>1. \A g \in Fds : S2[m][g] = IF m = k /\ g = fd THEN s2 ELSE S[m][g]
  BY DEF Changes
<1>2. {g \in Fds : S2[m][g].local_port = SERVER_PORT /\ S2[m][g].remote_ip = n /\ S2[m][g].remote_port = p}
        = {g \in Fds : S[m][g].local_port = SERVER_PORT /\ S[m][g].remote_ip = n /\ S[m][g].remote_port = p}
  BY <1>1 DEF At
<1>3. \A g \in {i \in Fds : S[m][i].local_port = SERVER_PORT /\ S[m][i].remote_ip = n /\ S[m][i].remote_port = p} :
        S2[m][g] = S[m][g]
  BY <1>1 DEF At
<1> QED BY <1>2, <1>3 DEF Callee

\* The active end at a port is one socket, as no two share a port.
LEMMA CallerIs ==
  ASSUME NEW S, PortsApart(S), NEW n \in Nodes, NEW fd \in Fds, S[n][fd].local_port # 0
  PROVE  Caller(S, n, S[n][fd].local_port) = {S[n][fd].state}
<1>1. {g \in Fds : S[n][g].local_port = S[n][fd].local_port} = {fd}
  BY DEF PortsApart
<1> QED BY <1>1 DEF Caller

\* A port nobody holds.
LEMMA CallerNone ==
  ASSUME NEW S, NEW n \in Nodes, NEW p, \A g \in Fds : S[n][g].local_port # p
  PROVE  Caller(S, n, p) = {}
BY DEF Caller

\* The passive end is the socket at the server's port.
LEMMA CalleeIs ==
  ASSUME NEW S, PortsApart(S), NEW m \in Nodes, NEW fd \in Fds, S[m][fd].local_port = SERVER_PORT,
         NEW n, NEW p
  PROVE  Callee(S, m, n, p) = IF At(S[m][fd], n, p) THEN {S[m][fd].state} ELSE {}
<1>0. SERVER_PORT # 0
  BY TcpipAssumption
<1>1. \A g \in Fds : S[m][g].local_port = SERVER_PORT => g = fd
  BY <1>0 DEF PortsApart
<1>2. {g \in Fds : S[m][g].local_port = SERVER_PORT /\ S[m][g].remote_ip = n /\ S[m][g].remote_port = p}
        = IF At(S[m][fd], n, p) THEN {fd} ELSE {}
  BY <1>1 DEF At
<1> QED BY <1>2 DEF Callee

\* A connection no socket serves.
LEMMA CalleeNone ==
  ASSUME NEW S, NEW m \in Nodes, NEW n, NEW p, \A g \in Fds : ~At(S[m][g], n, p)
  PROVE  Callee(S, m, n, p) = {}
BY DEF Callee, At

\* One socket changes, and its port is its old one, none or new.
LEMMA SocketsKept ==
  ASSUME NEW h, NEW S, SocketsInv(h, S), NEW k \in Nodes, NEW fd \in Fds,
         NEW s2, NEW S2, Changes(S, S2, k, fd, s2), SocketInv(h, k, s2),
         \/ s2.local_port \in {0, S[k][fd].local_port}
         \/ \A g \in Fds : S[k][g].local_port # s2.local_port
  PROVE  SocketsInv(h, S2)
<1>1. \A n \in Nodes, g \in Fds : S2[n][g] = IF n = k /\ g = fd THEN s2 ELSE S[n][g]
  BY DEF Changes
<1>2. PortsApart(S)
  BY DEF SocketsInv
<1>3. PortsApart(S2)
  BY <1>1, <1>2 DEF PortsApart
<1> QED BY <1>1, <1>3 DEF SocketsInv

HomeOK(h) == h \in [Nodes -> [Ephemeral -> Nodes \cup {None}]]

\* The connections whose end socket s of node k is.
Own(k, s, n, p) == (n = k /\ p = s.local_port) \/ At(s, n, p)

\* A step in which packets leave the wire, the socket of node k at fd changes
\* and a packet q is sent to node to: only the socket's connections matter.
LEMMA ConnsStep ==
  ASSUME NEW h, NEW S, NEW k \in Nodes, NEW fd \in Fds, NEW s2, NEW S2,
         Changes(S, S2, k, fd, s2), HomeOK(h),
         NEW w, NEW w1, NEW w2, WireOK(w), WireOK(w1), Thinner(w, w1),
         NEW to, NEW q, q.kind = "tcp", Grown(w1, w2, to, q), NEW a, NEW a2, a => a2,
         ConnsInv(h, S, w, a),
         \A n \in Nodes : \A p \in Ephemeral :
           h[n][p] # None /\ (Own(k, S[k][fd], n, p) \/ Own(k, s2, n, p)) =>
             ConnInv(Caller(S2, n, p), Callee(S2, h[n][p], n, p), w2, a2, n, p, h[n][p]),
         \A n \in Nodes : \A p \in Ephemeral :
           h[n][p] # None /\ ~Own(k, S[k][fd], n, p) /\ ~Own(k, s2, n, p) =>
             ~(to = h[n][p] /\ Up(q, n, p)) /\ ~(to = n /\ Down(q, p))
  PROVE  ConnsInv(h, S2, w2, a2)
<1> SUFFICES ASSUME NEW n \in Nodes, NEW p \in Ephemeral, h[n][p] # None
             PROVE  ConnInv(Caller(S2, n, p), Callee(S2, h[n][p], n, p), w2, a2, n, p, h[n][p])
  BY DEF ConnsInv
<1>1. h[n][p] \in Nodes
  BY DEF HomeOK
<1>3. \A x \in Nodes : \A y : x # k \/ (S[k][fd].local_port # y /\ s2.local_port # y) =>
        Caller(S2, x, y) = Caller(S, x, y)
  BY CallerKept
<1>4. \A z \in Nodes : \A x, y : z # k \/ (~At(S[k][fd], x, y) /\ ~At(s2, x, y)) =>
        Callee(S2, z, x, y) = Callee(S, z, x, y)
  BY CalleeKept
<1>2. CASE ~Own(k, S[k][fd], n, p) /\ ~Own(k, s2, n, p)
  <2> DEFINE m == h[n][p]
             c == Caller(S, n, p)
             e == Callee(S, m, n, p)
  <2>1. Caller(S2, n, p) = c
    <3>1. n # k \/ (S[k][fd].local_port # p /\ s2.local_port # p)
      BY <1>2 DEF Own
    <3> QED BY <1>3, <3>1
  <2>2. Callee(S2, m, n, p) = e
    <3>1. ~At(S[k][fd], n, p) /\ ~At(s2, n, p)
      BY <1>2 DEF Own
    <3> QED BY <1>1, <1>4, <3>1
  <2>3. ConnInv(c, e, w, a, n, p, m)
    BY DEF ConnsInv
  <2> HIDE DEF c, e
  <2>4. ConnInv(c, e, w1, a, n, p, m)
    BY <1>1, <2>3, ThinConn
  <2>5. Fits(c, e, w1, a, n, p, m, to, q)
    BY <1>2 DEF Fits
  <2>6. ConnInv(c, e, w2, a, n, p, m)
    BY <1>1, <2>4, <2>5, GrowConn
  <2>7. ConnInv(c, e, w2, a2, n, p, m)
    BY <2>6, Given
  <2> QED BY <2>1, <2>2, <2>7
<1> QED BY <1>2

\* The server's port is not an ephemeral one, and nobody's address is no node's.
LEMMA PortFacts ==
  /\ SERVER_PORT # 0 /\ SERVER_PORT \notin Ephemeral /\ 0 \notin Ephemeral /\ None \notin Nodes
  /\ Ephemeral \subseteq Ports
BY TcpipAssumption DEF Ephemeral, Ports, None

\* A change from w to w2: packets leave, then packet q may come to node to.
Passes(w, w1, w2, to, q) ==
  /\ WireOK(w) /\ WireOK(w1) /\ Thinner(w, w1) /\ q.kind = "tcp" /\ Grown(w1, w2, to, q)

\* Socket s of node k is where packet q to node to is from, or there is none.
FromEnd(k, s, to, q) ==
  \/ to = None
  \/ to = s.remote_ip /\ q.from = k /\ q.sport = s.local_port /\ q.dport = s.remote_port

SameEnds(s, s2) ==
  s2.local_port = s.local_port /\ s2.remote_ip = s.remote_ip /\ s2.remote_port = s.remote_port

\* The passive end at socket fd of node k.
LEMMA ServerConn ==
  ASSUME NEW h, NEW S, SocketsInv(h, S), NEW k \in Nodes, NEW fd \in Fds, Serves(h, k, S[k][fd]),
         NEW w, NEW a, ConnsInv(h, S, w, a)
  PROVE  LET s == S[k][fd]
             n == s.remote_ip
             p == s.remote_port
         IN n \in Nodes /\ p \in Ephemeral /\ h[n][p] = k /\ Callee(S, k, n, p) = {s.state}
            /\ ConnInv(Caller(S, n, p), {s.state}, w, a, n, p, k)
<1> DEFINE s == S[k][fd]
           n == s.remote_ip
           p == s.remote_port
<1>1. n \in Nodes /\ p \in Ephemeral /\ h[n][p] = k /\ h[n][p] # None /\ At(s, n, p)
  BY PortFacts DEF Serves, At
<1>2. Callee(S, k, n, p) = {s.state}
  BY <1>1, CalleeIs DEF SocketsInv, At
<1> QED BY <1>1, <1>2 DEF ConnsInv

\* The active end at socket fd of node k.
LEMMA ClientConn ==
  ASSUME NEW h, NEW S, SocketsInv(h, S), NEW k \in Nodes, NEW fd \in Fds, Connects(h, k, S[k][fd]),
         NEW w, NEW a, ConnsInv(h, S, w, a)
  PROVE  LET s == S[k][fd]
             p == s.local_port
             m == s.remote_ip
         IN m \in Nodes /\ p \in Ephemeral /\ h[k][p] = m /\ Caller(S, k, p) = {s.state}
            /\ ConnInv({s.state}, Callee(S, m, k, p), w, a, k, p, m)
<1> DEFINE s == S[k][fd]
           p == s.local_port
           m == s.remote_ip
<1>1. m \in Nodes /\ p \in Ephemeral /\ h[k][p] = m /\ h[k][p] # None /\ p # 0
  BY PortFacts DEF Connects
<1>2. Caller(S, k, p) = {s.state}
  BY <1>1, CallerIs DEF SocketsInv
<1> QED BY <1>1, <1>2 DEF ConnsInv

\* Everything else of a step, but for the ends of the connection itself.
Moves(h, S, k, fd, s2, S2, w, w1, w2, to, q, a, a2) ==
  /\ HomeOK(h) /\ SocketsInv(h, S) /\ ConnsInv(h, S, w, a)
  /\ Changes(S, S2, k, fd, s2) /\ Passes(w, w1, w2, to, q) /\ (a => a2)

\* The passive end takes a step: no other connection is disturbed.
LEMMA ServerMove ==
  ASSUME NEW h, NEW S, NEW k \in Nodes, NEW fd \in Fds, NEW s2, NEW S2, NEW w, NEW w1, NEW w2,
         NEW to, NEW q, NEW a, NEW a2, Moves(h, S, k, fd, s2, S2, w, w1, w2, to, q, a, a2),
         Serves(h, k, S[k][fd]), SameEnds(S[k][fd], s2), FromEnd(k, S[k][fd], to, q),
         NEW n, NEW p, NEW c, n = S[k][fd].remote_ip, p = S[k][fd].remote_port, c = Caller(S, n, p),
         ConnInv(c, {s2.state}, w2, a2, n, p, k)
  PROVE  ConnsInv(h, S2, w2, a2)
<1> USE DEF Moves
<1> DEFINE s == S[k][fd]
<1>1. /\ s.local_port = SERVER_PORT /\ s.remote_ip \in Nodes /\ s.remote_port \in Ephemeral
      /\ h[s.remote_ip][s.remote_port] = k /\ SERVER_PORT # 0 /\ SERVER_PORT \notin Ephemeral
      /\ None \notin Nodes /\ s2.local_port = SERVER_PORT
  BY PortFacts DEF Serves, SameEnds
<1>2. PortsApart(S2) /\ S2[k][fd] = s2
  <2>1. \A nn \in Nodes, g \in Fds : S2[nn][g] = IF nn = k /\ g = fd THEN s2 ELSE S[nn][g]
    BY DEF Changes
  <2>2. s2.local_port = s.local_port
    BY DEF SameEnds
  <2> QED BY <2>1, <2>2 DEF SocketsInv, PortsApart
<1>3. Callee(S2, k, s.remote_ip, s.remote_port) = {s2.state}
  <2>1. At(s2, s.remote_ip, s.remote_port)
    BY <1>1 DEF At, SameEnds
  <2>2. Callee(S2, k, s.remote_ip, s.remote_port)
          = IF At(S2[k][fd], s.remote_ip, s.remote_port) THEN {S2[k][fd].state} ELSE {}
    BY <1>1, <1>2, CalleeIs
  <2> QED BY <1>2, <2>1, <2>2
<1>4. Caller(S2, s.remote_ip, s.remote_port) = Caller(S, s.remote_ip, s.remote_port)
  <2>1. s.local_port # s.remote_port /\ s2.local_port # s.remote_port
    BY <1>1
  <2>2. \A nn \in Nodes : \A pp : nn # k \/ (s.local_port # pp /\ s2.local_port # pp) =>
          Caller(S2, nn, pp) = Caller(S, nn, pp)
    BY CallerKept
  <2> QED BY <1>1, <2>1, <2>2
<1>5. ASSUME NEW nn \in Nodes, NEW pp \in Ephemeral, Own(k, s, nn, pp) \/ Own(k, s2, nn, pp)
      PROVE  nn = s.remote_ip /\ pp = s.remote_port /\ h[nn][pp] = k
  BY <1>1, <1>5 DEF Own, At, SameEnds
<1>6. ASSUME NEW nn \in Nodes, NEW pp \in Ephemeral, h[nn][pp] # None,
             Own(k, s, nn, pp) \/ Own(k, s2, nn, pp)
      PROVE  ConnInv(Caller(S2, nn, pp), Callee(S2, h[nn][pp], nn, pp), w2, a2, nn, pp, h[nn][pp])
  <2>1. nn = s.remote_ip /\ pp = s.remote_port /\ h[nn][pp] = k
    BY <1>5, <1>6
  <2> QED BY <1>3, <1>4, <2>1
<1>7. ASSUME NEW nn \in Nodes, NEW pp \in Ephemeral, h[nn][pp] # None,
             ~Own(k, s, nn, pp), ~Own(k, s2, nn, pp)
      PROVE  ~(to = h[nn][pp] /\ Up(q, nn, pp)) /\ ~(to = nn /\ Down(q, pp))
  <2>1. ~At(s, nn, pp)
    BY <1>7 DEF Own
  <2>2. h[nn][pp] \in Nodes
    BY <1>7 DEF HomeOK
  <2>3. CASE to = None
    BY <1>1, <2>2, <2>3
  <2>4. CASE to = s.remote_ip /\ q.from = k /\ q.sport = s.local_port /\ q.dport = s.remote_port
    BY <1>1, <2>1, <2>4 DEF At, Up, Down
  <2> QED BY <2>3, <2>4 DEF FromEnd
<1> QED BY <1>6, <1>7, ConnsStep DEF Passes

\* The active end takes a step.
LEMMA ClientMove ==
  ASSUME NEW h, NEW S, NEW k \in Nodes, NEW fd \in Fds, NEW s2, NEW S2, NEW w, NEW w1, NEW w2,
         NEW to, NEW q, NEW a, NEW a2, Moves(h, S, k, fd, s2, S2, w, w1, w2, to, q, a, a2),
         Connects(h, k, S[k][fd]), SameEnds(S[k][fd], s2), FromEnd(k, S[k][fd], to, q),
         NEW m, NEW p, NEW e, m = S[k][fd].remote_ip, p = S[k][fd].local_port, e = Callee(S, m, k, p),
         ConnInv({s2.state}, e, w2, a2, k, p, m)
  PROVE  ConnsInv(h, S2, w2, a2)
<1> USE DEF Moves
<1> DEFINE s == S[k][fd]
<1>1. /\ s.remote_port = SERVER_PORT /\ s.remote_ip \in Nodes /\ s.local_port \in Ephemeral
      /\ h[k][s.local_port] = s.remote_ip /\ SERVER_PORT # 0 /\ SERVER_PORT \notin Ephemeral
      /\ s.local_port # 0 /\ None \notin Nodes /\ s2.local_port = s.local_port
  BY PortFacts DEF Connects, SameEnds
<1>2. PortsApart(S2) /\ S2[k][fd] = s2
  <2>1. \A nn \in Nodes, g \in Fds : S2[nn][g] = IF nn = k /\ g = fd THEN s2 ELSE S[nn][g]
    BY DEF Changes
  <2> QED BY <1>1, <2>1 DEF SocketsInv, PortsApart
<1>3. Caller(S2, k, s.local_port) = {s2.state}
  <2>1. Caller(S2, k, S2[k][fd].local_port) = {S2[k][fd].state}
    BY <1>1, <1>2, CallerIs
  <2> QED BY <1>1, <1>2, <2>1
<1>4. \A mm \in Nodes : \A nn, pp : Callee(S2, mm, nn, pp) = Callee(S, mm, nn, pp)
  <2>1. \A nn, pp : ~At(s, nn, pp) /\ ~At(s2, nn, pp)
    BY <1>1 DEF At
  <2>2. \A mm \in Nodes : \A nn, pp : mm # k \/ (~At(s, nn, pp) /\ ~At(s2, nn, pp)) =>
          Callee(S2, mm, nn, pp) = Callee(S, mm, nn, pp)
    BY CalleeKept
  <2> QED BY <2>1, <2>2
<1>5. ASSUME NEW nn \in Nodes, NEW pp \in Ephemeral, Own(k, s, nn, pp) \/ Own(k, s2, nn, pp)
      PROVE  nn = k /\ pp = s.local_port
  BY <1>1, <1>5 DEF Own, At
<1>6. ASSUME NEW nn \in Nodes, NEW pp \in Ephemeral, h[nn][pp] # None,
             Own(k, s, nn, pp) \/ Own(k, s2, nn, pp)
      PROVE  ConnInv(Caller(S2, nn, pp), Callee(S2, h[nn][pp], nn, pp), w2, a2, nn, pp, h[nn][pp])
  <2>1. nn = k /\ pp = s.local_port /\ h[nn][pp] = s.remote_ip
    BY <1>1, <1>5, <1>6
  <2> QED BY <1>1, <1>3, <1>4, <2>1
<1>7. ASSUME NEW nn \in Nodes, NEW pp \in Ephemeral, h[nn][pp] # None,
             ~Own(k, s, nn, pp), ~Own(k, s2, nn, pp)
      PROVE  ~(to = h[nn][pp] /\ Up(q, nn, pp)) /\ ~(to = nn /\ Down(q, pp))
  <2>1. ~(nn = k /\ pp = s.local_port)
    BY <1>7 DEF Own
  <2>2. h[nn][pp] \in Nodes
    BY <1>7 DEF HomeOK
  <2>3. CASE to = None
    BY <1>1, <2>2, <2>3
  <2>4. CASE to = s.remote_ip /\ q.from = k /\ q.sport = s.local_port /\ q.dport = s.remote_port
    BY <1>1, <2>1, <2>4 DEF Up, Down
  <2> QED BY <2>3, <2>4 DEF FromEnd
<1> QED BY <1>6, <1>7, ConnsStep DEF Passes

\* An end goes, with no packet sent: s2 is the end of no connection.
LEMMA ServerEnd ==
  ASSUME NEW h, NEW S, NEW k \in Nodes, NEW fd \in Fds, NEW s2, NEW S2, NEW w, NEW w1,
         NEW q, NEW a, NEW a2, Moves(h, S, k, fd, s2, S2, w, w1, w1, None, q, a, a2),
         Serves(h, k, S[k][fd]), s2.local_port \in {0, SERVER_PORT}, s2.remote_ip = None,
         NEW n, NEW p, NEW c, n = S[k][fd].remote_ip, p = S[k][fd].remote_port, c = Caller(S, n, p),
         ConnInv(c, {}, w1, a2, n, p, k)
  PROVE  ConnsInv(h, S2, w1, a2)
<1> USE DEF Moves
<1> DEFINE s == S[k][fd]
<1>1. /\ s.local_port = SERVER_PORT /\ s.remote_ip \in Nodes /\ s.remote_port \in Ephemeral
      /\ h[s.remote_ip][s.remote_port] = k /\ SERVER_PORT # 0 /\ SERVER_PORT \notin Ephemeral
      /\ None \notin Nodes /\ 0 \notin Ephemeral
  BY PortFacts DEF Serves
<1>2. \A g \in Fds : S2[k][g] = IF g = fd THEN s2 ELSE S[k][g]
  BY DEF Changes
<1>3. Callee(S2, k, s.remote_ip, s.remote_port) = {}
  <2>1. \A g \in Fds : ~At(S2[k][g], s.remote_ip, s.remote_port)
    BY <1>1, <1>2 DEF SocketsInv, PortsApart, At
  <2> QED BY <2>1, CalleeNone
<1>4. Caller(S2, s.remote_ip, s.remote_port) = Caller(S, s.remote_ip, s.remote_port)
  <2>1. s.local_port # s.remote_port /\ s2.local_port # s.remote_port
    BY <1>1
  <2>2. \A nn \in Nodes : \A pp : nn # k \/ (s.local_port # pp /\ s2.local_port # pp) =>
          Caller(S2, nn, pp) = Caller(S, nn, pp)
    BY CallerKept
  <2> QED BY <1>1, <2>1, <2>2
<1>5. ASSUME NEW nn \in Nodes, NEW pp \in Ephemeral, Own(k, s, nn, pp) \/ Own(k, s2, nn, pp)
      PROVE  nn = s.remote_ip /\ pp = s.remote_port /\ h[nn][pp] = k
  BY <1>1, <1>5 DEF Own, At
<1>6. ASSUME NEW nn \in Nodes, NEW pp \in Ephemeral, h[nn][pp] # None,
             Own(k, s, nn, pp) \/ Own(k, s2, nn, pp)
      PROVE  ConnInv(Caller(S2, nn, pp), Callee(S2, h[nn][pp], nn, pp), w1, a2, nn, pp, h[nn][pp])
  <2>1. nn = s.remote_ip /\ pp = s.remote_port /\ h[nn][pp] = k
    BY <1>5, <1>6
  <2> QED BY <1>3, <1>4, <2>1
<1>7. ASSUME NEW nn \in Nodes, NEW pp \in Ephemeral, h[nn][pp] # None
      PROVE  ~(None = h[nn][pp] /\ Up(q, nn, pp)) /\ ~(None = nn /\ Down(q, pp))
  BY <1>1, <1>7
<1> QED BY <1>6, <1>7, ConnsStep DEF Passes

\* The active end goes.
LEMMA ClientEnd ==
  ASSUME NEW h, NEW S, NEW k \in Nodes, NEW fd \in Fds, NEW s2, NEW S2, NEW w, NEW w1,
         NEW q, NEW a, NEW a2, Moves(h, S, k, fd, s2, S2, w, w1, w1, None, q, a, a2),
         Connects(h, k, S[k][fd]), s2.local_port = 0,
         NEW m, NEW p, NEW e, m = S[k][fd].remote_ip, p = S[k][fd].local_port, e = Callee(S, m, k, p),
         ConnInv({}, e, w1, a2, k, p, m)
  PROVE  ConnsInv(h, S2, w1, a2)
<1> USE DEF Moves
<1> DEFINE s == S[k][fd]
<1>1. /\ s.remote_port = SERVER_PORT /\ s.remote_ip \in Nodes /\ s.local_port \in Ephemeral
      /\ h[k][s.local_port] = s.remote_ip /\ SERVER_PORT # 0 /\ SERVER_PORT \notin Ephemeral
      /\ s.local_port # 0 /\ None \notin Nodes /\ 0 \notin Ephemeral
  BY PortFacts DEF Connects
<1>2. \A g \in Fds : S2[k][g] = IF g = fd THEN s2 ELSE S[k][g]
  BY DEF Changes
<1>3. Caller(S2, k, s.local_port) = {}
  <2>1. \A g \in Fds : S2[k][g].local_port # s.local_port
    BY <1>1, <1>2 DEF SocketsInv, PortsApart
  <2> QED BY <2>1, CallerNone
<1>4. \A mm \in Nodes : \A nn, pp : Callee(S2, mm, nn, pp) = Callee(S, mm, nn, pp)
  <2>1. \A nn, pp : ~At(s, nn, pp) /\ ~At(s2, nn, pp)
    BY <1>1 DEF At
  <2>2. \A mm \in Nodes : \A nn, pp : mm # k \/ (~At(s, nn, pp) /\ ~At(s2, nn, pp)) =>
          Callee(S2, mm, nn, pp) = Callee(S, mm, nn, pp)
    BY CalleeKept
  <2> QED BY <2>1, <2>2
<1>5. ASSUME NEW nn \in Nodes, NEW pp \in Ephemeral, Own(k, s, nn, pp) \/ Own(k, s2, nn, pp)
      PROVE  nn = k /\ pp = s.local_port
  BY <1>1, <1>5 DEF Own, At
<1>6. ASSUME NEW nn \in Nodes, NEW pp \in Ephemeral, h[nn][pp] # None,
             Own(k, s, nn, pp) \/ Own(k, s2, nn, pp)
      PROVE  ConnInv(Caller(S2, nn, pp), Callee(S2, h[nn][pp], nn, pp), w1, a2, nn, pp, h[nn][pp])
  <2>1. nn = k /\ pp = s.local_port /\ h[nn][pp] = s.remote_ip
    BY <1>1, <1>5, <1>6
  <2> QED BY <1>1, <1>3, <1>4, <2>1
<1>7. ASSUME NEW nn \in Nodes, NEW pp \in Ephemeral, h[nn][pp] # None
      PROVE  ~(None = h[nn][pp] /\ Up(q, nn, pp)) /\ ~(None = nn /\ Down(q, pp))
  BY <1>1, <1>7
<1> QED BY <1>6, <1>7, ConnsStep DEF Passes

\* A socket that is no end of a connection changes to another such.
LEMMA NoEnd ==
  ASSUME NEW h, HomeOK(h), NEW S, NEW k \in Nodes, NEW fd \in Fds, NEW s2, NEW S2,
         Changes(S, S2, k, fd, s2), Idle(S[k][fd]) \/ Listens(S[k][fd]), Idle(s2) \/ Listens(s2),
         NEW w, NEW w1, NEW q, Passes(w, w1, w1, None, q),
         NEW a, NEW a2, a => a2, ConnsInv(h, S, w, a)
  PROVE  ConnsInv(h, S2, w1, a2)
<1>1. \A n \in Nodes, p \in Ephemeral : ~Own(k, S[k][fd], n, p) /\ ~Own(k, s2, n, p)
  BY PortFacts DEF Own, At, Idle, Listens
<1>2. ASSUME NEW n \in Nodes, NEW p \in Ephemeral, h[n][p] # None
      PROVE  ~(None = h[n][p] /\ Up(q, n, p)) /\ ~(None = n /\ Down(q, p))
  BY <1>2, PortFacts
<1> QED BY <1>1, <1>2, ConnsStep DEF Passes

-----------------------------------------------------------------------------
(* One end of a connection takes a step.                                     *)

\* The head of the wire to a node, and what is known once it has been taken.
LEMMA HeadThere ==
  ASSUME TcpTypeInv, NEW k \in Nodes, wire[k] # <<>>, NEW n, NEW p
  PROVE  /\ \A F : Up(Head(wire[k]), n, p) /\ Head(wire[k]).flags \in F => HasUp(wire, k, n, p, F)
         /\ \A F : Down(Head(wire[k]), p) /\ Head(wire[k]).flags \in F => HasDown(wire, k, p, F)
<1>1. wire[k] \in Seq(Packet)
  BY DEF TcpTypeInv, WireOK
<1>2. 1 \in DOMAIN wire[k] /\ Head(wire[k]) = wire[k][1]
  BY <1>1
<1> QED BY <1>2 DEF HasUp, HasDown

\* After a SYN nothing of its connection is left, and after a FIN no data.
LEMMA HeadGone ==
  ASSUME TcpTypeInv, NEW k \in Nodes, wire[k] # <<>>, NEW n, NEW p, NEW c, NEW e, NEW a,
         ConnInv(c, e, wire, a, n, p, k), Up(Head(wire[k]), n, p)
  PROVE  /\ Head(wire[k]).flags \in Syn => \A F : ~HasUp(Taken(k), k, n, p, F)
         /\ Head(wire[k]).flags \in Fin => ~HasUp(Taken(k), k, n, p, Says)
<1>1. wire[k] \in Seq(Packet)
  BY DEF TcpTypeInv, WireOK
<1>2. Taken(k)[k] = Tail(wire[k])
  BY DEF Taken, TcpTypeInv, WireOK
<1>3. \A i \in DOMAIN Tail(wire[k]) : /\ i \in Nat /\ i + 1 \in DOMAIN wire[k] /\ i + 1 # 1 /\ i + 1 > 1
                                      /\ Tail(wire[k])[i] = wire[k][i + 1]
  BY <1>1
<1>4. 1 \in DOMAIN wire[k] /\ Head(wire[k]) = wire[k][1]
  BY <1>1
<1>5. ASSUME Head(wire[k]).flags \in Syn, NEW F
      PROVE  ~HasUp(Taken(k), k, n, p, F)
  <2>1. \A j \in DOMAIN wire[k] : Up(wire[k][j], n, p) => j = 1
    BY <1>4, <1>5 DEF ConnInv, OnlySyn
  <2> QED BY <1>2, <1>3, <2>1 DEF HasUp
<1>6. ASSUME Head(wire[k]).flags \in Fin
      PROVE  ~HasUp(Taken(k), k, n, p, Says)
  <2>1. \A j \in DOMAIN wire[k] : Up(wire[k][j], n, p) /\ j > 1 => wire[k][j].flags \notin Says
    BY <1>4, <1>6 DEF ConnInv, FinLast
  <2> QED BY <1>2, <1>3, <2>1 DEF HasUp
<1> QED BY <1>5, <1>6

\* What a segment with flags f makes of an end in state x: state y, answer g.
Turn(x, f, y, g) ==
  \/ x = "SYN_SENT" /\ f \in SynAck /\ y = "ESTABLISHED" /\ g = {"ACK"}
  \/ x = "ESTABLISHED" /\ f \in Fin /\ y = "CLOSE_WAIT" /\ g = {"ACK"}
  \/ x \in Closers /\ f \in Fin /\ y = "TIME_WAIT" /\ g = {"ACK"}
  \/ x = "FIN_WAIT_1" /\ f \notin Fin /\ y = "FIN_WAIT_2" /\ g = {}
  \/ x = "TIME_WAIT" /\ y = x /\ g \in {{}, {"ACK"}}
  \/ y = x /\ g = {}

Flags == Syn \cup Heard \cup {{"RST"}}

\* The flags of the segments the stack sends, as handle_tcp tests them.
LEMMA FlagFacts ==
  ASSUME NEW f \in Flags
  PROVE  /\ ("FIN" \in f) = (f \in Fin) /\ ({"FIN", "ACK"} \subseteq f) = (f \in Fin)
         /\ ({"SYN", "ACK"} \subseteq f) = (f \in SynAck) /\ ("RST" \in f) = (f = {"RST"})
         /\ ("SYN" \in f) = (f \in Syn \cup SynAck)
         /\ ("ACK" \in f) = (f \in Heard)
<1>1. f = {"SYN"} \/ f = {"SYN", "ACK"} \/ f = {"ACK"} \/ f = {"PSH", "ACK"} \/ f = {"FIN", "ACK"} \/ f = {"RST"}
  BY DEF Flags, Syn, Heard
<1>2. CASE f = {"SYN"}
  BY <1>2 DEF Syn, SynAck, Fin, Heard
<1>3. CASE f = {"SYN", "ACK"}
  BY <1>3 DEF Syn, SynAck, Fin, Heard
<1>4. CASE f = {"ACK"}
  BY <1>4 DEF Syn, SynAck, Fin, Heard
<1>5. CASE f = {"PSH", "ACK"}
  BY <1>5 DEF Syn, SynAck, Fin, Heard
<1>6. CASE f = {"FIN", "ACK"}
  BY <1>6 DEF Syn, SynAck, Fin, Heard
<1>7. CASE f = {"RST"}
  BY <1>7 DEF Syn, SynAck, Fin, Heard
<1> QED BY <1>1, <1>2, <1>3, <1>4, <1>5, <1>6, <1>7

\* What handle_tcp does to an end of a connection is a turn.
LEMMA Turns ==
  ASSUME NEW s \in Socket, NEW p, p.flags \in Flags,
         s.state \in Joined \cup {"SYN_RECEIVED", "SYN_SENT"},
         ~Ends(s, p), s.state = "SYN_RECEIVED" => p.flags # {"RST"}
  PROVE  LET s2 == Handled(s, p) IN
         /\ SameEnds(s, s2) /\ s2.active = s.active
         /\ Turn(s.state, p.flags, s2.state, Answer(s, p))
         /\ \/ s2.rx_buffer = s.rx_buffer
            \/ /\ s.state = "ESTABLISHED" /\ s2.state = "ESTABLISHED" /\ p.data # NoUnit
               /\ s2.rx_buffer = Append(s.rx_buffer, p.data)
         /\ s2.timeout = s.timeout \/ s.state = "TIME_WAIT"
<1> DEFINE s2 == Handled(s, p)
<1>1. /\ ("FIN" \in p.flags) = (p.flags \in Fin) /\ ({"FIN", "ACK"} \subseteq p.flags) = (p.flags \in Fin)
      /\ ({"SYN", "ACK"} \subseteq p.flags) = (p.flags \in SynAck) /\ ("RST" \in p.flags) = (p.flags = {"RST"})
      /\ ("SYN" \in p.flags) = (p.flags \in Syn \cup SynAck)
      /\ ("ACK" \in p.flags) = (p.flags \in Heard)
  BY FlagFacts
<1>2. \A st : LET r == [s EXCEPT !.state = st] IN
        SameEnds(s, r) /\ r.active = s.active /\ r.rx_buffer = s.rx_buffer /\ r.timeout = s.timeout /\ r.state = st
  BY DEF Socket, SameEnds
<1>3. LET r == [s EXCEPT !.timeout = TRUE] IN
        SameEnds(s, r) /\ r.active = s.active /\ r.rx_buffer = s.rx_buffer /\ r.state = s.state
  BY DEF Socket, SameEnds
<1>4. LET r == [s EXCEPT !.rx_buffer = Append(s.rx_buffer, p.data)] IN
        /\ SameEnds(s, r) /\ r.active = s.active /\ r.rx_buffer = Append(s.rx_buffer, p.data)
        /\ r.timeout = s.timeout /\ r.state = s.state
  BY DEF Socket, SameEnds
<1>5. Fin \cap SynAck = {}
  BY DEF Fin, SynAck
<1>6. CASE s.state = "SYN_SENT"
  <2>1. CASE p.flags \in SynAck
    BY <1>1, <1>2, <1>5, <1>6, <2>1 DEF Handled, Answer, Turn, AcksFin
  <2>2. CASE p.flags \notin SynAck
    BY <1>1, <1>2, <1>6, <2>2 DEF Handled, Answer, Turn, Teardown, AcksFin
  <2> QED BY <2>1, <2>2
<1>7. CASE s.state = "ESTABLISHED"
  <2>1. CASE p.flags \in Fin
    BY <1>1, <1>2, <1>7, <2>1 DEF Handled, Answer, Turn, AcksFin
  <2>2. CASE p.flags \notin Fin
    <3>1. Answer(s, p) = {}
      BY <1>1, <1>7, <2>2 DEF Answer
    <3>2. \/ s2 = [s EXCEPT !.rx_buffer = Append(s.rx_buffer, p.data)] /\ p.data # NoUnit
          \/ s2 = [s EXCEPT !.state = Teardown(s, p)]
      BY <1>1, <1>7, <2>2 DEF Handled
    <3>3. Teardown(s, p) = s.state
      BY <1>7 DEF Teardown
    <3>4. /\ SameEnds(s, s2) /\ s2.active = s.active /\ s2.state = s.state /\ s2.timeout = s.timeout
          /\ \/ s2.rx_buffer = s.rx_buffer
             \/ s2.rx_buffer = Append(s.rx_buffer, p.data) /\ p.data # NoUnit
      <4>1. CASE s2 = [s EXCEPT !.rx_buffer = Append(s.rx_buffer, p.data)] /\ p.data # NoUnit
        BY <1>4, <4>1
      <4>2. CASE s2 = [s EXCEPT !.state = Teardown(s, p)]
        BY <1>2, <3>3, <4>2
      <4> QED BY <3>2, <4>1, <4>2
    <3> HIDE DEF s2
    <3>5. Turn(s.state, p.flags, s2.state, Answer(s, p))
      BY <3>1, <3>4 DEF Turn
    <3> QED BY <1>7, <3>4, <3>5 DEF s2
  <2> QED BY <2>1, <2>2
<1>8. CASE s.state = "TIME_WAIT"
  <2>1. s2 = [s EXCEPT !.timeout = TRUE]
    BY <1>8 DEF Handled
  <2>2. Answer(s, p) \in {{}, {"ACK"}}
    BY <1>8 DEF Answer
  <2> QED BY <1>3, <1>8, <2>1, <2>2 DEF Turn
<1>9. CASE s.state \in {"FIN_WAIT_1", "FIN_WAIT_2", "CLOSE_WAIT", "LAST_ACK", "SYN_RECEIVED"}
  <2>1. s2 = [s EXCEPT !.state = Teardown(s, p)]
    BY <1>1, <1>9 DEF Handled
  <2>2. Turn(s.state, p.flags, Teardown(s, p), Answer(s, p))
    <3>1. CASE s.state = "FIN_WAIT_1"
      <4>1. CASE p.flags \in Fin
        BY <1>1, <3>1, <4>1 DEF Turn, Teardown, Answer, AcksFin, Closers
      <4>2. CASE p.flags \notin Fin
        BY <1>1, <3>1, <4>2 DEF Turn, Teardown, Answer, AcksFin, Closers
      <4> QED BY <4>1, <4>2
    <3>2. CASE s.state = "FIN_WAIT_2"
      BY <1>1, <3>2 DEF Turn, Teardown, Answer, AcksFin, Closers
    <3>3. CASE s.state \in {"CLOSE_WAIT", "LAST_ACK", "SYN_RECEIVED"}
      BY <3>3 DEF Turn, Teardown, Answer, AcksFin
    <3> QED BY <1>9, <3>1, <3>2, <3>3
  <2> QED BY <1>2, <2>1, <2>2
<1> QED BY <1>6, <1>7, <1>8, <1>9 DEF Joined

\* The passive end takes a segment.  That a FIN is of its own connection is
\* known as long as none was given up.
LEMMA ServerTurn ==
  ASSUME TcpTypeInv, NEW k \in Nodes, wire[k] # <<>>, NEW n \in Nodes, NEW p, NEW c, NEW a, NEW x, NEW y, NEW g,
         ConnInv(c, {x}, wire, a, n, p, k), x \in Joined \cup {"SYN_RECEIVED"},
         Turn(x, Head(wire[k]).flags, y, g),
         ~a /\ Head(wire[k]).flags \in Fin /\ y # x => Up(Head(wire[k]), n, p)
  PROVE  ConnInv(c, {y}, Taken(k), a, n, p, k) /\ y \in Joined \cup {"SYN_RECEIVED"}
<1> DEFINE w1 == Taken(k)
           r  == Head(wire[k])
<1>1. ConnInv(c, {x}, w1, a, n, p, k)
  BY TakenOK, TakenThinner, ThinConn DEF TcpTypeInv
<1>2. \A z, X : (In({z}, X) <=> z \in X)
  BY InOne
<1>3. x \in TcpStates
  BY DEF Joined, TcpStates
<1>4. ~HasUp(w1, k, n, p, Syn)
  BY <1>1, <1>2, <1>3 DEF ConnInv, OnlySyn
<1>5. ASSUME ~a, r.flags \in Fin, y # x
      PROVE  ~Live(c, w1, n, p, k) /\ (x \in Open => In(c, Closers))
  <2>1. HasUp(wire, k, n, p, Fin) /\ ~HasUp(w1, k, n, p, Says)
    BY <1>5, HeadThere, HeadGone
  <2>2. ~In(c, {"SYN_SENT", "ESTABLISHED", "CLOSE_WAIT"})
    BY <2>1 DEF ConnInv, FinLast
  <2>3. x \in Open => In(c, Closers)
    BY <1>2, <1>5, <2>1 DEF ConnInv, FinFrom
  <2> QED BY <2>1, <2>2, <2>3 DEF Live, In
<1>11. SUFFICES ConnInv(c, {y}, w1, a, n, p, k)
  BY DEF Turn, Joined, Closers
<1>12. /\ "CLOSE_WAIT" \in Open /\ "CLOSE_WAIT" \notin Listening
       /\ "ESTABLISHED" \in Open /\ "TIME_WAIT" \notin Open /\ "TIME_WAIT" \notin Listening
       /\ {"FIN_WAIT_1", "FIN_WAIT_2"} \cap Open = {} /\ {"FIN_WAIT_1", "FIN_WAIT_2"} \subseteq Listening
  BY DEF Open, Listening
<1> HIDE DEF w1
<1>6. CASE y = x
  BY <1>1, <1>6
<1>7. CASE x = "ESTABLISHED" /\ r.flags \in Fin /\ y = "CLOSE_WAIT"
  <2>1. In({y}, Open) => In({x}, Open)
    BY <1>2, <1>7, <1>12
  <2>2. ~a => ~Live(c, w1, n, p, k) /\ In(c, Closers)
    BY <1>5, <1>7, <1>12
  <2> QED BY <1>1, <1>4, <2>1, <2>2, CalleeMove
<1>8. CASE x \in Closers /\ r.flags \in Fin /\ y = "TIME_WAIT"
  <2>1. ~In({y}, Open) /\ y # x
    BY <1>2, <1>8, <1>12 DEF Closers
  <2>2. ~a => ~Live(c, w1, n, p, k)
    BY <1>5, <1>8, <2>1
  <2> QED BY <1>1, <1>4, <2>1, <2>2, CalleeMove
<1>9. CASE x = "FIN_WAIT_1" /\ y = "FIN_WAIT_2"
  <2>1. ~In({y}, Open) /\ In({y}, Listening)
    BY <1>2, <1>9, <1>12
  <2> QED BY <1>1, <1>4, <2>1, CalleeMove
<1>10. x # "SYN_SENT"
  BY DEF Joined
<1> QED BY <1>6, <1>7, <1>8, <1>9, <1>10 DEF Turn

\* The active end takes a segment.
LEMMA ClientTurn ==
  ASSUME TcpTypeInv, NEW k \in Nodes, wire[k] # <<>>, NEW m \in Nodes, NEW p, NEW e, NEW a, NEW x, NEW y, NEW g,
         ConnInv({x}, e, wire, a, k, p, m), x \in Joined \cup {"SYN_SENT"},
         Turn(x, Head(wire[k]).flags, y, g), Down(Head(wire[k]), p)
  PROVE  ConnInv({y}, e, Taken(k), a, k, p, m) /\ y \in Joined \cup {"SYN_SENT"}
<1> DEFINE w1 == Taken(k)
           r  == Head(wire[k])
<1>1. ConnInv({x}, e, w1, a, k, p, m)
  BY TakenOK, TakenThinner, ThinConn DEF TcpTypeInv
<1>2. \A z, X : (In({z}, X) <=> z \in X)
  BY InOne
<1>3. \A F : r.flags \in F => HasDown(wire, k, p, F)
  BY HeadThere
<1>4. \A F : HasUp(w1, m, k, p, F) => HasUp(wire, m, k, p, F)
  BY TakenThinner, ThinHas
<1>5. x \in Joined => ~HasUp(w1, m, k, p, Syn)
  BY <1>1, <1>2 DEF ConnInv, OnlySyn
<1>11. SUFFICES ConnInv({y}, e, w1, a, k, p, m)
  BY DEF Turn, Joined, Closers
<1>12. \A X : In({y}, X) <=> y \in X
  BY <1>2
<1> HIDE DEF w1
<1>6. CASE y = x
  BY <1>1, <1>6
<1>7. CASE x = "SYN_SENT" /\ r.flags \in SynAck /\ y = "ESTABLISHED"
  <2>1. SynAck \subseteq Heard
    BY DEF SynAck, Heard
  <2>2. ~HasUp(w1, m, k, p, Syn)
    BY <1>3, <1>4, <1>7, <2>1 DEF ConnInv, OnlySyn
  <2>3. ~a => In(e, Listening)
    BY <1>2, <1>3, <1>7 DEF ConnInv, Answered, Live
  <2>4. ~HasUp(w1, m, k, p, Fin)
    BY <1>1, <1>2, <1>7 DEF ConnInv, FinLast
  <2>5. ~In({y}, {"CLOSE_WAIT", "LAST_ACK", "TIME_WAIT"}) /\ ~In({y}, {"SYN_SENT"}) /\ ~In({x}, Closers)
    BY <1>7 DEF Closers, In
  <2> QED BY <1>1, <2>2, <2>3, <2>4, <2>5, CallerMove
<1>8. CASE x = "ESTABLISHED" /\ r.flags \in Fin /\ y = "CLOSE_WAIT"
  <2>1. ~In(e, Open)
    BY <1>3, <1>8 DEF ConnInv, FinHeard
  <2>2. ~a => In(e, Listening)
    BY <1>2, <1>8 DEF ConnInv, Answered, Live
  <2>3. ~HasUp(w1, m, k, p, Fin)
    BY <1>1, <1>2, <1>8 DEF ConnInv, FinLast
  <2>4. ~HasUp(w1, m, k, p, Syn) /\ ~In({y}, {"SYN_SENT"})
    BY <1>2, <1>5, <1>8 DEF Joined
  <2> QED BY <1>1, <2>1, <2>2, <2>3, <2>4, CallerMove
<1>9. CASE x \in Closers /\ r.flags \in Fin /\ y = "TIME_WAIT"
  <2>1. ~In(e, Open)
    BY <1>3, <1>9 DEF ConnInv, FinHeard
  <2>2. ~HasUp(w1, m, k, p, Syn)
    BY <1>5, <1>9 DEF Joined, Closers
  <2>3. ~In({y}, {"SYN_SENT", "ESTABLISHED", "CLOSE_WAIT"}) /\ ~In({y}, {"SYN_SENT"})
        /\ ~In({y}, {"ESTABLISHED", "CLOSE_WAIT"})
    BY <1>9 DEF In
  <2> QED BY <1>1, <2>1, <2>2, <2>3, CallerMove
<1>10. CASE x = "FIN_WAIT_1" /\ y = "FIN_WAIT_2"
  <2>2. ~HasUp(w1, m, k, p, Syn)
    BY <1>5, <1>10 DEF Joined
  <2>3. ~In({y}, {"SYN_SENT", "ESTABLISHED", "CLOSE_WAIT"}) /\ ~In({y}, {"SYN_SENT"})
        /\ ~In({y}, {"ESTABLISHED", "CLOSE_WAIT"}) /\ ~In({y}, {"CLOSE_WAIT", "LAST_ACK", "TIME_WAIT"})
        /\ In({y}, Closers)
    BY <1>10 DEF Closers, In
  <2> QED BY <1>1, <2>2, <2>3, CallerMove
<1> QED BY <1>6, <1>7, <1>8, <1>9, <1>10 DEF Turn

-----------------------------------------------------------------------------
(* An end sends, or goes.                                                    *)

\* The passive end sends something: a FIN only when it has closed.
LEMMA ServerSends ==
  ASSUME NEW w, WireOK(w), NEW w2, NEW to, NEW q, q.kind = "tcp", Grown(w, w2, to, q),
         NEW n \in Nodes, NEW p \in Ephemeral, NEW k \in Nodes, NEW c, NEW y \in TcpStates, NEW a,
         ConnInv(c, {y}, w, a, n, p, k), q.dport = p, q.flags \in {{"ACK"}} \cup Says,
         q.flags \in Fin => y \notin Open
  PROVE  ConnInv(c, {y}, w2, a, n, p, k)
<1>1. ~Up(q, n, p)
  BY PortFacts DEF Up
<1>2. ~HasUp(w, k, n, p, Syn)
  BY InOne DEF ConnInv, OnlySyn
<1>3. q.flags \in Fin => ~In({y}, Open)
  BY DEF In
<1>4. q.flags \notin SynAck
  BY DEF Says, SynAck
<1>5. Fits(c, {y}, w, a, n, p, k, to, q)
  BY <1>1, <1>2, <1>3, <1>4 DEF Fits
<1> QED BY <1>5, GrowConn

\* The passive end is accepted or closed by its program.
LEMMA ServerCloses ==
  ASSUME NEW w, NEW n \in Nodes, NEW p, NEW k \in Nodes, NEW c, NEW a,
         NEW x, NEW y, ConnInv(c, {x}, w, a, n, p, k),
         \/ x = "SYN_RECEIVED" /\ y = "ESTABLISHED"
         \/ x = "ESTABLISHED" /\ y = "FIN_WAIT_1"
         \/ x = "CLOSE_WAIT" /\ y = "LAST_ACK"
  PROVE  ConnInv(c, {y}, w, a, n, p, k) /\ (y # "ESTABLISHED" => y \notin Open)
<1>1. ~HasUp(w, k, n, p, Syn)
  BY DEF ConnInv, OnlySyn, In, TcpStates
<1>2. CASE x = "SYN_RECEIVED" /\ y = "ESTABLISHED"
  <2>1. In({x}, Open) /\ In({y}, Listening)
    BY <1>2 DEF In, Open, Listening
  <2>2. ~a /\ In({y}, Open) /\ (In({y}, {"CLOSE_WAIT"}) \/ HasUp(w, k, n, p, Fin)) => In(c, Closers)
    BY <1>2, <2>1 DEF In, ConnInv, FinFrom
  <2> QED BY <1>1, <1>2, <2>1, <2>2, CalleeMove
<1>3. CASE x = "ESTABLISHED" /\ y = "FIN_WAIT_1"
  <2>1. ~In({y}, Open) /\ In({y}, Listening) /\ y \notin Open
    BY <1>3 DEF In, Open, Listening
  <2> QED BY <1>1, <2>1, CalleeMove
<1>4. CASE x = "CLOSE_WAIT" /\ y = "LAST_ACK"
  <2>1. ~In({y}, Open) /\ ~In({x}, Listening) /\ y \notin Open
    BY <1>4 DEF In, Open, Listening
  <2> QED BY <1>1, <2>1, CalleeMove
<1> QED BY <1>2, <1>3, <1>4

\* The passive end is freed, in its last state or given up.
LEMMA ServerGone ==
  ASSUME NEW w, NEW n, NEW p, NEW k, NEW c, NEW a, NEW a2, a => a2,
         NEW x, ConnInv(c, {x}, w, a, n, p, k), a2 \/ x \in {"LAST_ACK", "TIME_WAIT"}
  PROVE  ConnInv(c, {}, w, a2, n, p, k)
<1>1. ~In({}, TcpStates) /\ ~In({}, Open)
  BY DEF In
<1>2. ~a2 => ~In({x}, Listening)
  BY DEF In, Listening
<1> QED BY <1>1, <1>2, CalleeMove

\* The active end acknowledges or sends data.
LEMMA ClientSends ==
  ASSUME NEW w, WireOK(w), NEW w2, NEW to, NEW q, q.kind = "tcp", Grown(w, w2, to, q),
         NEW k \in Nodes, NEW p \in Ephemeral, NEW m \in Nodes, NEW e, NEW y, NEW a,
         ConnInv({y}, e, w, a, k, p, m), q.dport = SERVER_PORT,
         \/ q.flags = {"ACK"} /\ y \in Joined
         \/ q.flags = {"PSH", "ACK"} /\ y = "ESTABLISHED"
  PROVE  ConnInv({y}, e, w2, a, k, p, m)
<1>1. ~Down(q, p)
  BY PortFacts DEF Down
<1>2. y \in Joined
  BY DEF Joined
<1>3. q.flags \notin Syn /\ q.flags \notin Fin
  BY DEF Syn, Fin
<1>4. ~HasUp(w, m, k, p, Syn)
  BY <1>2 DEF ConnInv, OnlySyn, In
<1>5. ASSUME q.flags \in Says
      PROVE  ~HasUp(w, m, k, p, Fin) /\ (~a => In(e, Listening))
  <2>1. y = "ESTABLISHED"
    BY <1>5 DEF Says
  <2>2. In({y}, {"SYN_SENT", "ESTABLISHED", "CLOSE_WAIT"}) /\ In({y}, {"ESTABLISHED", "CLOSE_WAIT"})
    BY <2>1 DEF In
  <2> QED BY <2>2 DEF ConnInv, FinLast, Answered, Live
<1>6. Fits({y}, e, w, a, k, p, m, to, q)
  BY <1>1, <1>3, <1>4, <1>5 DEF Fits
<1> QED BY <1>6, GrowConn

\* The active end is closed by its program, with a FIN.
LEMMA ClientCloses ==
  ASSUME NEW w, WireOK(w), NEW w2, NEW to, NEW q, q.kind = "tcp", Grown(w, w2, to, q),
         NEW k \in Nodes, NEW p \in Ephemeral, NEW m \in Nodes, NEW e, NEW x, NEW y, NEW a,
         ConnInv({x}, e, w, a, k, p, m), q.dport = SERVER_PORT, q.flags = {"FIN", "ACK"},
         \/ x = "ESTABLISHED" /\ y = "FIN_WAIT_1"
         \/ x = "CLOSE_WAIT" /\ y = "LAST_ACK"
  PROVE  ConnInv({y}, e, w2, a, k, p, m)
<1>1. ~Down(q, p)
  BY PortFacts DEF Down
<1>2. /\ In({x}, Joined) /\ In({x}, {"SYN_SENT", "ESTABLISHED", "CLOSE_WAIT"})
      /\ In({x}, {"ESTABLISHED", "CLOSE_WAIT"})
      /\ ~In({y}, {"SYN_SENT", "ESTABLISHED", "CLOSE_WAIT"}) /\ ~In({y}, {"SYN_SENT"})
      /\ ~In({y}, {"ESTABLISHED", "CLOSE_WAIT"}) /\ ~In({x}, Closers)
  BY DEF In, Joined, Closers
<1>3. /\ ~HasUp(w, m, k, p, Syn) /\ ~HasUp(w, m, k, p, Fin)
      /\ ~a => In(e, Listening)
  BY <1>2 DEF ConnInv, OnlySyn, FinLast, Answered, Live
<1>4. \/ y = "FIN_WAIT_1" /\ In({y}, Closers) /\ ~In({y}, {"CLOSE_WAIT", "LAST_ACK", "TIME_WAIT"})
      \/ y = "LAST_ACK" /\ ~In(e, Open)
  <2>1. x = "CLOSE_WAIT" => ~In(e, Open)
    BY DEF ConnInv, FinHeard, In
  <2> QED BY <2>1 DEF In, Closers
<1>5. ConnInv({y}, e, w, a, k, p, m)
  BY <1>2, <1>3, <1>4, CallerMove
<1>6. q.flags \notin Syn
  BY DEF Syn
<1>7. Fits({y}, e, w, a, k, p, m, to, q)
  BY <1>1, <1>2, <1>3, <1>4, <1>6 DEF Fits
<1> QED BY <1>5, <1>7, GrowConn

\* The active end is freed, not while it waits for the other, or given up.
LEMMA ClientGone ==
  ASSUME NEW w, NEW n, NEW p, NEW m, NEW e, NEW a, NEW a2, a => a2,
         NEW x, ConnInv({x}, e, w, a, n, p, m), a2 \/ x \notin Closers
  PROVE  ConnInv({}, e, w, a2, n, p, m)
<1>1. \A X : ~In({}, X)
  BY DEF In
<1>2. ~a2 => ~In({x}, Closers)
  BY DEF In
<1> QED BY <1>1, <1>2, CallerMove

-----------------------------------------------------------------------------
(* What steps do to the sockets and packets themselves.                      *)

NoPacket == [kind |-> "tcp", data |-> NoUnit]

\* A send puts its packet, ARP requests or nothing on the wire.
LEMMA SentGrown ==
  ASSUME NEW w, WireOK(w), NEW n \in Nodes, NEW to, NEW q
  PROVE  /\ Grown(w, Sent(w, n, to, q), to, q)
         /\ Grown(w, Put(w, to, q), to, q)
         /\ \A ip : Grown(w, arp_request(w, n, ip), to, q)
<1>1. Grown(w, Put(w, to, q), to, q)
  <2>1. \A m \in Nodes : Put(w, to, q)[m] = w[m]
                         \/ (m = to /\ Put(w, to, q)[m] = Append(w[m], q))
    BY DEF Put, WireOK
  <2> QED BY <2>1 DEF Grown
<1>2. ASSUME NEW ip
      PROVE  Grown(w, arp_request(w, n, ip), to, q)
  <2>1. Arp("request", n, ip).kind = "arp"
    BY DEF Arp
  <2>2. \A m \in Nodes : arp_request(w, n, ip)[m] = w[m]
                         \/ arp_request(w, n, ip)[m] = Append(w[m], Arp("request", n, ip))
    BY DEF arp_request
  <2> QED BY <2>1, <2>2 DEF Grown
<1> QED BY <1>1, <1>2 DEF Sent

\* An answer to an ARP request is no segment.
LEMMA ReplyGrown ==
  ASSUME NEW w, WireOK(w), NEW x, NEW n, NEW ip, NEW to, NEW q
  PROVE  Grown(w, Put(w, x, Arp("reply", n, ip)), to, q)
<1>1. Arp("reply", n, ip).kind = "arp"
  BY DEF Arp
<1>2. \A m \in Nodes : \/ Put(w, x, Arp("reply", n, ip))[m] = w[m]
                       \/ Put(w, x, Arp("reply", n, ip))[m] = Append(w[m], Arp("reply", n, ip))
  BY DEF Put, WireOK
<1> QED BY <1>1, <1>2 DEF Grown

\* A wire that does not change.
LEMMA SameThinner ==
  ASSUME NEW w, WireOK(w)
  PROVE  Thinner(w, w) /\ \A to, q : Grown(w, w, to, q)
<1>1. \A m \in Nodes : \A i \in DOMAIN w[m] : i + 0 \in DOMAIN w[m] /\ w[m][i] = w[m][i + 0]
  BY DEF WireOK
<1> QED BY <1>1 DEF Thinner, Grown

\* No packet leaves and none comes.
LEMMA PassNone ==
  ASSUME NEW w, WireOK(w)
  PROVE  Passes(w, w, w, None, NoPacket)
BY SameThinner DEF Passes, NoPacket

\* A packet is taken and none comes.
LEMMA PassTaken ==
  ASSUME TcpTypeInv, NEW n \in Nodes, wire[n] # <<>>
  PROVE  Passes(wire, Taken(n), Taken(n), None, NoPacket)
BY TakenOK, TakenThinner, SameThinner DEF Passes, NoPacket, TcpTypeInv

\* The packets on the wire stay sound.
LEMMA WireStep ==
  ASSUME NEW h, NEW w, NEW w1, NEW w2, NEW to, NEW q, Passes(w, w1, w2, to, q),
         NEW a, NEW a2, a => a2, WireInv(h, a, w), to \in Nodes => PacketInv(h, a2, to, q)
  PROVE  WireInv(h, a2, w2)
<1> SUFFICES ASSUME NEW m \in Nodes, NEW i \in DOMAIN w2[m]
             PROVE  PacketInv(h, a2, m, w2[m][i])
  BY DEF WireInv
<1>1. /\ WireOK(w1) /\ q.kind = "tcp" /\ Grown(w1, w2, to, q)
      /\ \A j \in DOMAIN w1[m] : \E l \in DOMAIN w[m] : w1[m][j] = w[m][l]
  BY DEF Passes, Thinner
<1>2. /\ \A j \in DOMAIN w1[m] : w2[m][j] = w1[m][j]
      /\ i \in DOMAIN w1[m] \/ w2[m][i].kind = "arp" \/ (m = to /\ w2[m][i] = q)
  BY <1>1, GrownAt
<1>3. CASE i \in DOMAIN w1[m]
  <2>1. PICK l \in DOMAIN w[m] : w2[m][i] = w[m][l]
    BY <1>1, <1>2, <1>3
  <2>2. PacketInv(h, a, m, w2[m][i])
    BY <2>1 DEF WireInv
  <2> QED BY <2>2 DEF PacketInv
<1>4. CASE w2[m][i].kind = "arp"
  BY <1>4 DEF PacketInv
<1>5. CASE m = to /\ w2[m][i] = q
  BY <1>5
<1> QED BY <1>2, <1>3, <1>4, <1>5

PeerData == \A n \in Nodes : \A fd \in Fds : Exclusive(sockets[n][fd]) => OfPeer(sockets[n][fd])

Locals(h) == SocketsInv(h, sockets) /\ WireInv(h, abandoned, wire) /\ PeerData

\* One socket changes and a packet is sent: sockets and packets stay sound.
LEMMA LocalStep ==
  ASSUME NEW h, Locals(h), NEW k \in Nodes, NEW fd \in Fds, NEW s2,
         Changes(sockets, sockets', k, fd, s2), SocketInv(h, k, s2),
         \/ s2.local_port \in {0, sockets[k][fd].local_port}
         \/ \A g \in Fds : sockets[k][g].local_port # s2.local_port,
         s2.local_port # SERVER_PORT \/ ~abandoned' => OfPeer(s2),
         NEW w1, NEW to, NEW q, Passes(wire, w1, wire', to, q), abandoned => abandoned',
         to \in Nodes => PacketInv(h, abandoned', to, q)
  PROVE  Locals(h)'
<1>1. SocketsInv(h, sockets')
  BY SocketsKept DEF Locals
<1>2. WireInv(h, abandoned', wire')
  BY WireStep DEF Locals
<1>3. \A n \in Nodes, g \in Fds : sockets'[n][g] = IF n = k /\ g = fd THEN s2 ELSE sockets[n][g]
  BY DEF Changes
<1>4. PeerData'
  <2> SUFFICES ASSUME NEW n \in Nodes, NEW g \in Fds,
                      sockets'[n][g].local_port # SERVER_PORT \/ ~abandoned'
               PROVE  OfPeer(sockets'[n][g])
    BY DEF PeerData, Exclusive
  <2>1. CASE n = k /\ g = fd
    BY <1>3, <2>1
  <2>2. CASE ~(n = k /\ g = fd)
    <3>1. sockets'[n][g] = sockets[n][g]
      BY <1>3, <2>2
    <3>2. Exclusive(sockets[n][g])
      BY <3>1 DEF Exclusive
    <3> QED BY <3>1, <3>2 DEF Locals, PeerData
  <2> QED BY <2>1, <2>2
<1> QED BY <1>1, <1>2, <1>4 DEF Locals

\* No socket changes and a packet is sent.
LEMMA LocalSame ==
  ASSUME NEW h, Locals(h), sockets' = sockets,
         NEW w1, NEW to, NEW q, Passes(wire, w1, wire', to, q), abandoned => abandoned',
         to \in Nodes => PacketInv(h, abandoned', to, q)
  PROVE  Locals(h)'
<1>1. WireInv(h, abandoned', wire')
  BY WireStep DEF Locals
<1>2. PeerData'
  BY DEF Locals, PeerData, Exclusive
<1> QED BY <1>1, <1>2 DEF Locals

\* The sockets stay as they are and no segment is sent.
LEMMA ConnsSame ==
  ASSUME NEW h, HomeOK(h), NEW S, NEW w, NEW w1, NEW w2, NEW a, NEW a2, a => a2,
         ConnsInv(h, S, w, a), Passes(w, w1, w2, None, NoPacket)
  PROVE  ConnsInv(h, S, w2, a2)
<1> SUFFICES ASSUME NEW n \in Nodes, NEW p \in Ephemeral, h[n][p] # None
             PROVE  ConnInv(Caller(S, n, p), Callee(S, h[n][p], n, p), w2, a2, n, p, h[n][p])
  BY DEF ConnsInv
<1> DEFINE m == h[n][p]
           c == Caller(S, n, p)
           e == Callee(S, m, n, p)
<1>1. m \in Nodes /\ ConnInv(c, e, w, a, n, p, m)
  BY DEF HomeOK, ConnsInv
<1> HIDE DEF c, e, m
<1>2. ConnInv(c, e, w1, a, n, p, m)
  BY <1>1, ThinConn DEF Passes
<1>3. Fits(c, e, w1, a, n, p, m, None, NoPacket)
  BY <1>1, PortFacts DEF Fits
<1>4. ConnInv(c, e, w2, a, n, p, m)
  BY <1>1, <1>2, <1>3, GrowConn DEF Passes
<1>5. ConnInv(c, e, w2, a2, n, p, m)
  BY <1>4, Given
<1> QED BY <1>5 DEF c, e, m

-----------------------------------------------------------------------------
(* The steps of programs and of the network.                                 *)

Conns(h) == Locals(h) /\ OpenInv /\ ConnsInv(h, sockets, wire, abandoned)

\* Storing a socket changes that one.
LEMMA StoreChanges ==
  ASSUME TcpTypeInv, NEW n \in Nodes, NEW fd \in Fds, NEW s2, Store(n, fd, s2)
  PROVE  Changes(sockets, sockets', n, fd, s2)
BY DEF TcpTypeInv, SocketsOK, Store, Changes

\* A socket that is nothing of a connection, or an end of one.
LEMMA SocketKinds ==
  ASSUME TcpTypeInv, NEW h, Locals(h), NEW n \in Nodes, NEW fd \in Fds
  PROVE  LET s == sockets[n][fd] IN
         /\ s \in Socket /\ SocketInv(h, n, s) /\ s.active \in BOOLEAN
         /\ s.state \in Joined \cup {"SYN_RECEIVED", "SYN_SENT"} =>
              s.active /\ (Serves(h, n, s) \/ Connects(h, n, s))
         /\ s.local_port = 0 => Idle(s)
         /\ ~s.active => Idle(s)
<1> DEFINE s == sockets[n][fd]
<1>1. s \in Socket /\ s.active \in BOOLEAN
  BY SocketFields DEF TcpTypeInv
<1>2. SocketInv(h, n, s)
  BY DEF Locals, SocketsInv
<1>3. s.local_port = 0 => Idle(s)
  BY <1>2, PortFacts DEF SocketInv, Listens, Serves, Connects
<1>4. s.state \in Joined \cup {"SYN_RECEIVED", "SYN_SENT"} =>
        s.active /\ (Serves(h, n, s) \/ Connects(h, n, s))
  BY <1>2 DEF SocketInv, Idle, Listens, Joined
<1> QED BY <1>1, <1>2, <1>3, <1>4 DEF SocketInv

\* A slot that is cleared is idle.
LEMMA ZeroedIdle == Idle(Zeroed) /\ Idle([Zeroed EXCEPT !.active = TRUE])
BY DEF Idle, Zeroed

\* An idle socket is of no connection.
LEMMA IdleInv ==
  ASSUME NEW h, NEW n, NEW s, Idle(s), s.timeout = FALSE
  PROVE  SocketInv(h, n, s) /\ OfPeer(s)
<1>1. DOMAIN s.rx_buffer = {}
  BY DEF Idle
<1> QED BY <1>1 DEF SocketInv, Idle, OfPeer

\* Handles stay closed, and no open socket gets into a closing state.
LEMMA OpenStep ==
  ASSUME TcpTypeInv, OpenInv, NEW n \in Nodes, NEW fd \in Fds, NEW s2, Changes(sockets, sockets', n, fd, s2),
         \A m \in Nodes : \A g \in open'[m] : g \in Fds /\ ((m = n /\ g = fd) \/ g \in open[m]),
         fd \in open'[n] => s2.state \notin {"FIN_WAIT_1", "FIN_WAIT_2", "LAST_ACK", "TIME_WAIT"}
  PROVE  OpenInv'
<1>1. \A m \in Nodes, g \in Fds : sockets'[m][g] = IF m = n /\ g = fd THEN s2 ELSE sockets[m][g]
  BY DEF Changes
<1> QED BY <1>1 DEF OpenInv

\* socket_create takes an idle slot.
LEMMA CreateConns ==
  ASSUME TcpTypeInv, NEW h, HomeOK(h), Conns(h), NEW n \in Nodes, socket_create(n)
  PROVE  Conns(h)'
<1> DEFINE s2 == [Zeroed EXCEPT !.active = TRUE]
<1>1. PICK fd \in Fds : ~sockets[n][fd].active /\ Store(n, fd, s2)
                        /\ open' = [open EXCEPT ![n] = open[n] \cup {fd}]
  BY DEF socket_create
<1>2. Changes(sockets, sockets', n, fd, s2)
  BY <1>1, StoreChanges
<1>3. Idle(s2) /\ s2.timeout = FALSE /\ s2.local_port = 0 /\ s2.state = "CLOSED"
  BY ZeroedIdle DEF Zeroed
<1>4. Idle(sockets[n][fd])
  BY <1>1, SocketKinds DEF Conns
<1>5. Passes(wire, wire, wire', None, NoPacket) /\ wire' = wire /\ abandoned' = abandoned
  BY PassNone DEF socket_create, TcpTypeInv
<1>6. \A m \in Nodes : \A g \in open'[m] : g \in Fds /\ ((m = n /\ g = fd) \/ g \in open[m])
  BY <1>1 DEF TcpTypeInv
<1> HIDE DEF s2
<1>7. OpenInv'
  BY <1>2, <1>3, <1>6, OpenStep DEF Conns
<1>8. ConnsInv(h, sockets', wire', abandoned')
  BY <1>2, <1>3, <1>4, <1>5, NoEnd DEF Conns
<1>9. Locals(h)'
  <2>1. SocketInv(h, n, s2) /\ OfPeer(s2)
    BY <1>3, IdleInv
  <2> QED BY <1>2, <1>3, <1>5, <2>1, LocalStep, PortFacts DEF Conns
<1> QED BY <1>7, <1>8, <1>9 DEF Conns

\* A socket that binds and listens is of no connection yet.
LEMMA BindConns ==
  ASSUME TcpTypeInv, NEW h, HomeOK(h), Conns(h), NEW n \in Nodes, NEW fd \in Fds, BindListen(n, fd)
  PROVE  Conns(h)'
<1> DEFINE s  == sockets[n][fd]
           s2 == [s EXCEPT !.local_port = SERVER_PORT, !.state = "LISTEN"]
<1>1. /\ s.active /\ s.local_port = 0 /\ \A g \in Fds : sockets[n][g].local_port # SERVER_PORT
      /\ Store(n, fd, s2) /\ UNCHANGED <<wire, open, abandoned>>
  BY DEF BindListen
<1>2. Changes(sockets, sockets', n, fd, s2)
  BY <1>1, StoreChanges
<1>3. Idle(s) /\ s \in Socket /\ SocketInv(h, n, s)
  BY <1>1, SocketKinds DEF Conns
<1>4. /\ Listens(s2) /\ s2.active /\ s2.local_port = SERVER_PORT /\ s2.state = "LISTEN" /\ s2.rx_buffer = <<>>
      /\ s2.timeout = FALSE
  <2>1. s.timeout = FALSE
    BY <1>3 DEF SocketInv, Idle, Socket
  <2> QED BY <1>1, <1>3, <2>1 DEF Listens, Idle, Socket
<1>5. Passes(wire, wire, wire', None, NoPacket) /\ wire' = wire /\ abandoned' = abandoned
  BY <1>1, PassNone DEF TcpTypeInv
<1>6. \A m \in Nodes : \A g \in open'[m] : g \in Fds /\ ((m = n /\ g = fd) \/ g \in open[m])
  BY <1>1 DEF TcpTypeInv
<1>10. \A g \in Fds : sockets[n][g].local_port # s2.local_port
  BY <1>1, <1>4
<1> HIDE DEF s2, s
<1>7. OpenInv'
  BY <1>2, <1>4, <1>6, OpenStep DEF Conns
<1>8. ConnsInv(h, sockets', wire', abandoned')
  BY <1>2, <1>3, <1>4, <1>5, NoEnd DEF Conns, s
<1>9. Locals(h)'
  <2>1. SocketInv(h, n, s2)
    BY <1>4 DEF SocketInv
  <2>2. OfPeer(s2)
    BY <1>4 DEF OfPeer
  <2> QED BY <1>2, <1>5, <1>10, <2>1, <2>2, LocalStep, PortFacts DEF Conns
<1> QED BY <1>7, <1>8, <1>9 DEF Conns

\* socket_accept: the passive end may now send.
LEMMA AcceptConns ==
  ASSUME TcpTypeInv, NEW h, HomeOK(h), Conns(h), NEW n \in Nodes, NEW fd \in Fds, socket_accept(n, fd)
  PROVE  Conns(h)'
<1> DEFINE s  == sockets[n][fd]
           s2 == [s EXCEPT !.state = "ESTABLISHED"]
<1>1. /\ s.active /\ s.state = "SYN_RECEIVED"
      /\ Store(n, fd, s2) /\ UNCHANGED <<wire, open, abandoned>>
  BY DEF socket_accept
<1>2. Changes(sockets, sockets', n, fd, s2)
  BY <1>1, StoreChanges
<1>3. s \in Socket /\ SocketInv(h, n, s) /\ Serves(h, n, s)
  <2>1. Serves(h, n, s) \/ Connects(h, n, s)
    BY <1>1, SocketKinds DEF Conns
  <2>2. ~Connects(h, n, s)
    BY <1>1 DEF Connects, Joined
  <2> QED BY <2>1, <2>2, SocketKinds DEF Conns
<1>4. /\ SameEnds(s, s2) /\ s2.active /\ s2.state = "ESTABLISHED" /\ s2.rx_buffer = <<>>
      /\ s2.timeout = FALSE /\ Serves(h, n, s2)
  <2>1. s.timeout = FALSE /\ s.rx_buffer = <<>>
    BY <1>1, <1>3 DEF SocketInv, Socket
  <2> QED BY <1>1, <1>3, <2>1 DEF Serves, SameEnds, Socket, Joined
<1>5. Passes(wire, wire, wire', None, NoPacket) /\ wire' = wire /\ abandoned' = abandoned
  BY <1>1, PassNone DEF TcpTypeInv
<1>6. \A m \in Nodes : \A g \in open'[m] : g \in Fds /\ ((m = n /\ g = fd) \/ g \in open[m])
  BY <1>1 DEF TcpTypeInv
<1> DEFINE k == s.remote_ip
           p == s.remote_port
           c == Caller(sockets, k, p)
<1>11. /\ k \in Nodes /\ ConnInv(c, {s.state}, wire, abandoned, k, p, n)
  BY <1>3, ServerConn DEF Conns, Locals
<1> HIDE DEF s2, c, p, k
<1>12. ConnInv(c, {s2.state}, wire', abandoned', k, p, n)
  <2>1. ConnInv(c, {s2.state}, wire, abandoned, k, p, n)
    BY <1>1, <1>4, <1>11, ServerCloses
  <2> QED BY <1>5, <2>1
<1>7. OpenInv'
  BY <1>2, <1>4, <1>6, OpenStep DEF Conns
<1>8. ConnsInv(h, sockets', wire', abandoned')
  <2>1. FromEnd(n, s, None, NoPacket)
    BY DEF FromEnd
  <2>2. k = s.remote_ip /\ p = s.remote_port /\ c = Caller(sockets, k, p)
    BY DEF k, p, c
  <2>3. Moves(h, sockets, n, fd, s2, sockets', wire, wire, wire', None, NoPacket, abandoned, abandoned')
    BY <1>2, <1>5 DEF Moves, Conns, Locals
  <2> QED BY <1>3, <1>4, <1>12, <2>1, <2>2, <2>3, ServerMove
<1>9. Locals(h)'
  <2>1. SocketInv(h, n, s2)
    BY <1>4 DEF SocketInv
  <2>2. OfPeer(s2) /\ s2.local_port = s.local_port
    BY <1>4 DEF OfPeer, SameEnds
  <2> QED BY <1>2, <1>5, <2>1, <2>2, LocalStep, PortFacts DEF Conns
<1> QED BY <1>7, <1>8, <1>9 DEF Conns

\* A socket of a connection changes in what does not matter to the connection.
LEMMA StateKept ==
  ASSUME NEW h, HomeOK(h), NEW S, SocketsInv(h, S), NEW k \in Nodes, NEW fd \in Fds, NEW s2, NEW S2,
         Changes(S, S2, k, fd, s2), SameEnds(S[k][fd], s2), s2.state = S[k][fd].state,
         Serves(h, k, S[k][fd]) \/ Connects(h, k, S[k][fd]),
         NEW w, NEW w1, Passes(w, w1, w1, None, NoPacket), NEW a, ConnsInv(h, S, w, a)
  PROVE  ConnsInv(h, S2, w1, a)
<1> DEFINE s == S[k][fd]
<1>1. FromEnd(k, s, None, NoPacket)
  BY DEF FromEnd
<1>2. ConnsInv(h, S, w1, a)
  BY ConnsSame
<1>3. Moves(h, S, k, fd, s2, S2, w1, w1, w1, None, NoPacket, a, a)
  <2>1. Passes(w1, w1, w1, None, NoPacket)
    BY PassNone DEF Passes
  <2> QED BY <1>2, <2>1 DEF Moves
<1>4. CASE Serves(h, k, s)
  <2> DEFINE n == s.remote_ip
             p == s.remote_port
             c == Caller(S, n, p)
  <2>1. ConnInv(c, {s.state}, w1, a, n, p, k)
    BY <1>2, <1>4, ServerConn
  <2>2. ConnInv(c, {s2.state}, w1, a, n, p, k)
    BY <2>1
  <2> HIDE DEF c, n, p
  <2>3. n = s.remote_ip /\ p = s.remote_port /\ c = Caller(S, n, p)
    BY DEF n, p, c
  <2> QED BY <1>1, <1>2, <1>3, <1>4, <2>2, <2>3, ServerMove
<1>5. CASE Connects(h, k, s)
  <2> DEFINE m == s.remote_ip
             p == s.local_port
             e == Callee(S, m, k, p)
  <2>1. ConnInv({s.state}, e, w1, a, k, p, m)
    BY <1>2, <1>5, ClientConn
  <2>2. ConnInv({s2.state}, e, w1, a, k, p, m)
    BY <2>1
  <2> HIDE DEF e, m, p
  <2>3. m = s.remote_ip /\ p = s.local_port /\ e = Callee(S, m, k, p)
    BY DEF m, p, e
  <2> QED BY <1>1, <1>2, <1>3, <1>5, <2>2, <2>3, ClientMove
<1> QED BY <1>4, <1>5

\* socket_recv changes the buffer only.
LEMMA RecvConns ==
  ASSUME TcpTypeInv, NEW h, HomeOK(h), Conns(h), NEW n \in Nodes, NEW fd \in Fds, socket_recv(n, fd)
  PROVE  Conns(h)'
<1> DEFINE s  == sockets[n][fd]
<1>1. PICK len \in 1..Len(s.rx_buffer) : Store(n, fd, [s EXCEPT !.rx_buffer = Rest(s.rx_buffer, len)])
  BY DEF socket_recv
<1> DEFINE b  == Rest(s.rx_buffer, len)
           s2 == [s EXCEPT !.rx_buffer = b]
<1>2. s.rx_buffer # <<>> /\ UNCHANGED <<wire, open, abandoned>> /\ Changes(sockets, sockets', n, fd, s2)
  BY <1>1, StoreChanges DEF socket_recv
<1>3. s \in Socket /\ SocketInv(h, n, s) /\ s.rx_buffer \in Seq(Unit)
  BY SocketKinds, SocketFields DEF Conns, TcpTypeInv
<1>4. s.active /\ (Serves(h, n, s) \/ Connects(h, n, s)) /\ s.state # "SYN_RECEIVED"
  BY <1>2, <1>3 DEF SocketInv, Idle, Listens
<1>5. Passes(wire, wire, wire', None, NoPacket) /\ wire' = wire /\ abandoned' = abandoned
  BY <1>2, PassNone DEF TcpTypeInv
<1>6. \A m \in Nodes : \A g \in open'[m] : g \in Fds /\ ((m = n /\ g = fd) \/ g \in open[m])
  BY <1>2 DEF TcpTypeInv
<1>7. \A i \in DOMAIN b : \E j \in DOMAIN s.rx_buffer : b[i] = s.rx_buffer[j]
  <2>1. \A i \in DOMAIN b : len + i \in DOMAIN s.rx_buffer /\ b[i] = s.rx_buffer[len + i]
    <3>1. Len(s.rx_buffer) \in Nat /\ len \in 1..Len(s.rx_buffer) /\ DOMAIN s.rx_buffer = 1..Len(s.rx_buffer)
      BY <1>3
    <3>2. b = SubSeq(s.rx_buffer, len + 1, Len(s.rx_buffer))
      BY DEF Rest
    <3>3. DOMAIN b = 1..(Len(s.rx_buffer) - len)
      BY <1>3, <3>1, <3>2
    <3>4. \A i \in 1..(Len(s.rx_buffer) - len) : b[i] = s.rx_buffer[len + i]
      BY <1>3, <3>1, <3>2
    <3> QED BY <3>1, <3>3, <3>4
  <2> QED BY <2>1
<1> HIDE DEF b
<1>8. /\ SameEnds(s, s2) /\ s2.active = s.active /\ s2.state = s.state /\ s2.timeout = s.timeout
      /\ s2.rx_buffer = b
  BY <1>3 DEF Socket, SameEnds
<1> HIDE DEF s2
<1>9. OpenInv'
  <2>1. fd \in open'[n] => s2.state \notin {"FIN_WAIT_1", "FIN_WAIT_2", "LAST_ACK", "TIME_WAIT"}
    BY <1>2, <1>8 DEF Conns, OpenInv
  <2> QED BY <1>2, <1>6, <2>1, OpenStep DEF Conns
<1>10. ConnsInv(h, sockets', wire', abandoned')
  BY <1>2, <1>4, <1>5, <1>8, StateKept DEF Conns, Locals
<1>11. Locals(h)'
  <2>1. SocketInv(h, n, s2)
    BY <1>3, <1>4, <1>8 DEF SocketInv, SameEnds, Serves, Connects
  <2>2. s2.local_port = s.local_port
    BY <1>8 DEF SameEnds
  <2>3. ASSUME s2.local_port # SERVER_PORT \/ ~abandoned'
        PROVE  OfPeer(s2)
    <3>1. OfPeer(s)
      BY <1>5, <2>2, <2>3 DEF Conns, Locals, PeerData, Exclusive
    <3> QED BY <1>7, <1>8, <3>1 DEF OfPeer, SameEnds
  <2> QED BY <1>2, <1>5, <2>1, <2>2, <2>3, LocalStep, PortFacts DEF Conns
<1> QED BY <1>9, <1>10, <1>11 DEF Conns

\* What an end of a connection sends.
Sendable(h, n, s, f, u) ==
  \/ f \in {{"ACK"}, {"FIN", "ACK"}} /\ u = NoUnit /\ (Serves(h, n, s) \/ Connects(h, n, s))
  \/ /\ f = {"PSH", "ACK"} /\ u \in Unit /\ u.from = n /\ u.port = s.local_port
     /\ Serves(h, n, s) \/ Connects(h, n, s)
  \/ f = {"SYN"} /\ u = NoUnit /\ Connects(h, n, s)
  \/ f = {"SYN", "ACK"} /\ u = NoUnit /\ Serves(h, n, s)

\* What an end of a connection sends is of that connection.
LEMMA SegmentInv ==
  ASSUME NEW h, NEW n \in Nodes, NEW s, NEW f, NEW u, Sendable(h, n, s, f, u), NEW a
  PROVE  PacketInv(h, a, s.remote_ip, Segment(n, s, f, u))
<1> DEFINE q == Segment(n, s, f, u)
<1>1. /\ q.from = n /\ q.sport = s.local_port /\ q.dport = s.remote_port /\ q.flags = f /\ q.data = u
  BY DEF Segment
<1>2. f # {"RST"}
  BY DEF Sendable
<1>3. IF f = {"PSH", "ACK"} THEN u \in Unit /\ u.from = n /\ u.port = s.local_port ELSE u = NoUnit
  BY DEF Sendable
<1> HIDE DEF q
<1>4. CASE Serves(h, n, s)
  <2>1. f \in Heard
    BY <1>4, PortFacts DEF Sendable, Heard, Connects, Serves
  <2> QED BY <1>1, <1>2, <1>3, <1>4, <2>1 DEF PacketInv, Serves, q
<1>5. CASE Connects(h, n, s)
  <2>1. f \in Syn \cup {{"ACK"}, {"RST"}} \cup Says
    BY <1>5, PortFacts DEF Sendable, Syn, Says, Connects, Serves
  <2> QED BY <1>1, <1>2, <1>3, <1>5, <2>1 DEF PacketInv, Connects, q
<1> QED BY <1>4, <1>5 DEF Sendable

\* tcp_send_packet, as a change of the wire.
LEMMA SendPasses ==
  ASSUME NEW w, WireOK(w), NEW w1, WireOK(w1), Thinner(w, w1), NEW n \in Nodes, NEW s, NEW f, NEW u,
         tcp_send_packet(w1, n, s, f, u)
  PROVE  /\ Passes(w, w1, wire', s.remote_ip, Segment(n, s, f, u))
         /\ FromEnd(n, s, s.remote_ip, Segment(n, s, f, u))
<1> DEFINE q == Segment(n, s, f, u)
<1>1. q.kind = "tcp" /\ q.from = n /\ q.sport = s.local_port /\ q.dport = s.remote_port
  BY DEF Segment
<1>2. wire' = Sent(w1, n, s.remote_ip, q)
  BY DEF tcp_send_packet
<1> HIDE DEF q
<1>3. Grown(w1, wire', s.remote_ip, q)
  BY <1>2, SentGrown
<1>4. FromEnd(n, s, s.remote_ip, q) /\ Passes(w, w1, wire', s.remote_ip, q)
  BY <1>1, <1>3 DEF FromEnd, Passes
<1> QED BY <1>4 DEF q

\* socket_send sends data of an established end.
LEMMA SendConns ==
  ASSUME TcpTypeInv, NEW h, HomeOK(h), Conns(h), NEW n \in Nodes, NEW fd \in Fds, socket_send(n, fd)
  PROVE  Conns(h)'
<1> DEFINE s == sockets[n][fd]
           u == [from |-> n, port |-> s.local_port, k |-> sent + 1]
           q == Segment(n, s, {"PSH", "ACK"}, u)
<1>1. /\ s.active /\ s.state = "ESTABLISHED" /\ sent < MAX_DATA /\ tcp_send_packet(wire, n, s, {"PSH", "ACK"}, u)
      /\ UNCHANGED <<sockets, open, abandoned>>
  BY DEF socket_send
<1>2. s \in Socket /\ (Serves(h, n, s) \/ Connects(h, n, s))
  BY <1>1, SocketKinds DEF Conns, Joined
<1>3. u \in Unit /\ u.from = n /\ u.port = s.local_port
  <2>1. s.local_port \in 0..(PORT_MOD - 1)
    BY <1>2 DEF Socket
  <2>2. sent + 1 \in 1..MAX_DATA
    BY <1>1, TcpipAssumption DEF TcpTypeInv
  <2> QED BY <2>1, <2>2 DEF Unit
<1>4. q.kind = "tcp" /\ q.dport = s.remote_port /\ q.flags = {"PSH", "ACK"}
  BY DEF Segment
<1>5. Changes(sockets, sockets', n, fd, s) /\ SameEnds(s, s)
  BY <1>1 DEF Changes, SameEnds, TcpTypeInv, SocketsOK
<1> HIDE DEF u
<1>6. Passes(wire, wire, wire', s.remote_ip, q) /\ FromEnd(n, s, s.remote_ip, q)
  BY <1>1, SendPasses, SameThinner DEF TcpTypeInv
<1>7. PacketInv(h, abandoned, s.remote_ip, q)
  BY <1>2, <1>3, SegmentInv DEF Sendable
<1> HIDE DEF q
<1>8. Moves(h, sockets, n, fd, s, sockets', wire, wire, wire', s.remote_ip, q, abandoned, abandoned')
  BY <1>1, <1>5, <1>6 DEF Moves, Conns, Locals
<1>9. ConnsInv(h, sockets', wire', abandoned')
  <2>1. CASE Serves(h, n, s)
    <3> DEFINE k == s.remote_ip
               p == s.remote_port
               c == Caller(sockets, k, p)
    <3>1. k \in Nodes /\ p \in Ephemeral /\ ConnInv(c, {s.state}, wire, abandoned, k, p, n)
      BY <2>1, ServerConn DEF Conns, Locals
    <3> HIDE DEF c
    <3>2. q.flags \in {{"ACK"}} \cup Says /\ q.flags \notin Fin
      BY <1>4 DEF Says, Fin
    <3>5. s.state \in TcpStates
      BY <1>2 DEF Socket
    <3>3. ConnInv(c, {s.state}, wire', abandoned, k, p, n)
      BY <1>4, <1>6, <3>1, <3>2, <3>5, ServerSends DEF Passes
    <3>4. c = Caller(sockets, k, p)
      BY DEF c
    <3> QED BY <1>1, <1>5, <1>6, <1>8, <2>1, <3>3, <3>4, ServerMove
  <2>2. CASE Connects(h, n, s)
    <3> DEFINE m == s.remote_ip
               p == s.local_port
               e == Callee(sockets, m, n, p)
    <3>1. m \in Nodes /\ p \in Ephemeral /\ ConnInv({s.state}, e, wire, abandoned, n, p, m)
      BY <2>2, ClientConn DEF Conns, Locals
    <3> HIDE DEF e
    <3>2. q.dport = SERVER_PORT
      BY <1>4, <2>2 DEF Connects
    <3>3. ConnInv({s.state}, e, wire', abandoned, n, p, m)
      <4>1. WireOK(wire) /\ Grown(wire, wire', s.remote_ip, q) /\ q.kind = "tcp"
        BY <1>6 DEF Passes
      <4>2. q.flags = {"PSH", "ACK"} /\ s.state = "ESTABLISHED"
        BY <1>1, <1>4
      <4> HIDE DEF s, p, m
      <4> QED BY <3>1, <3>2, <4>1, <4>2, ClientSends
    <3>4. e = Callee(sockets, m, n, p)
      BY DEF e
    <3> QED BY <1>1, <1>5, <1>6, <1>8, <2>2, <3>3, <3>4, ClientMove
  <2> QED BY <1>2, <2>1, <2>2
<1>10. Locals(h)'
  BY <1>1, <1>6, <1>7, LocalSame DEF Conns
<1>11. OpenInv'
  BY <1>1 DEF Conns, OpenInv
<1> QED BY <1>9, <1>10, <1>11 DEF Conns

Closing == {"FIN_WAIT_1", "FIN_WAIT_2", "LAST_ACK", "TIME_WAIT"}

\* A socket is freed: without a word to the other end, or as the last step.
LEMMA FreeConns ==
  ASSUME TcpTypeInv, NEW h, HomeOK(h), Conns(h), NEW n \in Nodes, NEW fd \in Fds, Store(n, fd, Zeroed),
         Passes(wire, wire', wire', None, NoPacket), abandoned => abandoned',
         LET s == sockets[n][fd] IN
         \/ abandoned' \/ s.state \in {"LAST_ACK", "TIME_WAIT"}
         \/ s.state \notin Closers /\ ~Serves(h, n, s)
  PROVE  Locals(h)' /\ ConnsInv(h, sockets', wire', abandoned')
<1> DEFINE s == sockets[n][fd]
<1>1. Changes(sockets, sockets', n, fd, Zeroed)
  BY StoreChanges
<1>2. /\ Idle(Zeroed) /\ Zeroed.timeout = FALSE /\ Zeroed.local_port = 0 /\ Zeroed.remote_ip = None
      /\ SocketInv(h, n, Zeroed) /\ OfPeer(Zeroed)
  BY ZeroedIdle, IdleInv DEF Zeroed
<1>3. Locals(h)'
  BY <1>1, <1>2, LocalStep, PortFacts DEF Conns
<1>4. Moves(h, sockets, n, fd, Zeroed, sockets', wire, wire', wire', None, NoPacket, abandoned, abandoned')
  BY <1>1 DEF Moves, Conns, Locals
<1>5. /\ WireOK(wire) /\ WireOK(wire') /\ Thinner(wire, wire')
  BY DEF Passes
<1>6. CASE Idle(s) \/ Listens(s)
  BY <1>1, <1>2, <1>3, <1>6, NoEnd DEF Conns
<1>7. CASE Serves(h, n, s)
  <2> DEFINE k == s.remote_ip
             p == s.remote_port
             c == Caller(sockets, k, p)
  <2>1. k \in Nodes /\ ConnInv(c, {s.state}, wire, abandoned, k, p, n)
    BY <1>7, ServerConn DEF Conns, Locals
  <2> HIDE DEF c, k, p
  <2>2. ConnInv(c, {s.state}, wire', abandoned, k, p, n)
    BY <1>5, <2>1, ThinConn
  <2>3. ConnInv(c, {}, wire', abandoned', k, p, n)
    BY <1>7, <2>2, ServerGone
  <2>4. k = s.remote_ip /\ p = s.remote_port /\ c = Caller(sockets, k, p)
    BY DEF k, p, c
  <2> QED BY <1>2, <1>3, <1>4, <1>7, <2>3, <2>4, ServerEnd
<1>8. CASE Connects(h, n, s)
  <2> DEFINE m == s.remote_ip
             p == s.local_port
             e == Callee(sockets, m, n, p)
  <2>1. m \in Nodes /\ ConnInv({s.state}, e, wire, abandoned, n, p, m)
    BY <1>8, ClientConn DEF Conns, Locals
  <2> HIDE DEF e, m, p
  <2>2. ConnInv({s.state}, e, wire', abandoned, n, p, m)
    BY <1>5, <2>1, ThinConn
  <2>5. abandoned' \/ s.state \notin Closers
    BY DEF Closers
  <2>3. ConnInv({}, e, wire', abandoned', n, p, m)
    BY <2>2, <2>5, ClientGone
  <2>4. m = s.remote_ip /\ p = s.local_port /\ e = Callee(sockets, m, n, p)
    BY DEF m, p, e
  <2> QED BY <1>2, <1>3, <1>4, <1>8, <2>3, <2>4, ClientEnd
<1> QED BY <1>6, <1>7, <1>8, SocketKinds DEF Conns, SocketInv

\* tcpip_check_timeouts frees an end in TIME_WAIT.
LEMMA TimeoutConns ==
  ASSUME TcpTypeInv, NEW h, HomeOK(h), Conns(h), NEW n \in Nodes, tcpip_check_timeouts(n)
  PROVE  Conns(h)'
<1>1. PICK fd \in Fds : sockets[n][fd].timeout /\ Store(n, fd, Zeroed)
  BY DEF tcpip_check_timeouts, Free
<1>2. UNCHANGED <<wire, open, abandoned>>
  BY DEF tcpip_check_timeouts
<1>3. sockets[n][fd].state = "TIME_WAIT"
  BY <1>1, SocketKinds DEF Conns, SocketInv
<1>4. Passes(wire, wire', wire', None, NoPacket)
  <2>1. Passes(wire, wire, wire, None, NoPacket)
    BY PassNone DEF TcpTypeInv
  <2> QED BY <1>2, <2>1
<1>5. Locals(h)' /\ ConnsInv(h, sockets', wire', abandoned')
  BY <1>1, <1>2, <1>3, <1>4, FreeConns
<1>6. OpenInv'
  <2>1. Changes(sockets, sockets', n, fd, Zeroed) /\ Zeroed.state = "CLOSED"
    BY <1>1, StoreChanges DEF Zeroed
  <2>2. \A m \in Nodes : \A g \in open'[m] : g \in Fds /\ ((m = n /\ g = fd) \/ g \in open[m])
    BY <1>2 DEF TcpTypeInv
  <2> QED BY <2>1, <2>2, OpenStep DEF Conns
<1> QED BY <1>5, <1>6 DEF Conns

\* socket_close sends a FIN, or frees the socket at once.
LEMMA CloseConns ==
  ASSUME TcpTypeInv, NEW h, HomeOK(h), Conns(h), NEW n \in Nodes, NEW fd \in Fds, socket_close(n, fd)
  PROVE  Conns(h)'
<1> DEFINE s == sockets[n][fd]
           y == IF s.state = "ESTABLISHED" THEN "FIN_WAIT_1" ELSE "LAST_ACK"
           s2 == [s EXCEPT !.state = y]
           q == Segment(n, s, {"FIN", "ACK"}, NoUnit)
<1>1. /\ fd \in open[n] /\ open' = [open EXCEPT ![n] = open[n] \ {fd}]
      /\ abandoned' = (abandoned \/ s.state = "SYN_RECEIVED")
  BY DEF socket_close
<1>2. \A m \in Nodes : \A g \in open'[m] : g \in Fds /\ ((m = n /\ g = fd) \/ g \in open[m])
  BY <1>1 DEF TcpTypeInv
<1>3. fd \notin open'[n]
  BY <1>1 DEF TcpTypeInv
<1>4. s.state \notin Closing
  BY <1>1 DEF Conns, OpenInv, Closing
<1>5. CASE /\ s.state \notin ClosesByFin
           /\ Free(n, fd) /\ Quiet(wire)
  <2>1. Store(n, fd, Zeroed) /\ wire' = wire
    BY <1>5 DEF Free, Quiet
  <2>2. Passes(wire, wire', wire', None, NoPacket)
    <3>1. Passes(wire, wire, wire, None, NoPacket)
      BY PassNone DEF TcpTypeInv
    <3> QED BY <2>1, <3>1
  <2>3. abandoned' \/ (s.state \notin Closers /\ ~Serves(h, n, s))
    BY <1>1, <1>4, <1>5 DEF Closing, Closers, Serves, Joined, ClosesByFin
  <2>4. Locals(h)' /\ ConnsInv(h, sockets', wire', abandoned')
    BY <1>1, <2>1, <2>2, <2>3, FreeConns
  <2>5. OpenInv'
    BY <1>2, <1>3, <2>1, StoreChanges, OpenStep DEF Conns
  <2> QED BY <2>4, <2>5 DEF Conns
<1>6. CASE /\ s.state \in ClosesByFin
           /\ Store(n, fd, s2)
           /\ tcp_send_packet(wire, n, s, {"FIN", "ACK"}, NoUnit)
  <2>1. s.state \in {"ESTABLISHED", "CLOSE_WAIT"} /\ abandoned' = abandoned
    BY <1>1, <1>6 DEF ClosesByFin, TcpTypeInv
  <2>2. s \in Socket /\ SocketInv(h, n, s) /\ s.active /\ (Serves(h, n, s) \/ Connects(h, n, s))
    BY <2>1, SocketKinds DEF Conns, Joined
  <2>3. q.kind = "tcp" /\ q.dport = s.remote_port /\ q.flags = {"FIN", "ACK"}
    BY DEF Segment
  <2>4. Changes(sockets, sockets', n, fd, s2)
    BY <1>6, StoreChanges
  <2>5. /\ SameEnds(s, s2) /\ s2.active = s.active /\ s2.rx_buffer = s.rx_buffer /\ s2.timeout = s.timeout
        /\ s2.state = y
    BY <2>2 DEF Socket, SameEnds
  <2>6. Passes(wire, wire, wire', s.remote_ip, q) /\ FromEnd(n, s, s.remote_ip, q)
    BY <1>6, SendPasses, SameThinner DEF TcpTypeInv
  <2>7. PacketInv(h, abandoned', s.remote_ip, q)
    BY <2>2, SegmentInv DEF Sendable
  <2>8. y \in Joined /\ y # "ESTABLISHED" /\ y # "SYN_RECEIVED" /\ y \in TcpStates
    BY DEF Joined, TcpStates
  <2>15. \/ s.state = "ESTABLISHED" /\ y = "FIN_WAIT_1"
         \/ s.state = "CLOSE_WAIT" /\ y = "LAST_ACK"
    BY <2>1
  <2> HIDE DEF q, s2, y
  <2>9. Moves(h, sockets, n, fd, s2, sockets', wire, wire, wire', s.remote_ip, q, abandoned, abandoned')
    BY <2>1, <2>4, <2>6 DEF Moves, Conns, Locals
  <2>10. ConnsInv(h, sockets', wire', abandoned')
    <3>1. CASE Serves(h, n, s)
      <4> DEFINE k == s.remote_ip
                 p == s.remote_port
                 c == Caller(sockets, k, p)
      <4>1. k \in Nodes /\ p \in Ephemeral /\ ConnInv(c, {s.state}, wire, abandoned, k, p, n)
        BY <3>1, ServerConn DEF Conns, Locals
      <4> HIDE DEF c, k, p
      <4>2. ConnInv(c, {y}, wire, abandoned, k, p, n) /\ (y # "ESTABLISHED" => y \notin Open)
        BY <2>15, <4>1, ServerCloses
      <4>3. q.flags \in {{"ACK"}} \cup Says /\ q.dport = p
        BY <2>3 DEF Says, p
      <4>6. WireOK(wire) /\ Grown(wire, wire', s.remote_ip, q)
        BY <2>6 DEF Passes
      <4>4. ConnInv(c, {y}, wire', abandoned, k, p, n)
        BY <2>3, <2>8, <4>1, <4>2, <4>3, <4>6, ServerSends
      <4>5. k = s.remote_ip /\ p = s.remote_port /\ c = Caller(sockets, k, p)
        BY DEF c, k, p
      <4> QED BY <2>1, <2>5, <2>6, <2>9, <3>1, <4>4, <4>5, ServerMove
    <3>2. CASE Connects(h, n, s)
      <4> DEFINE m == s.remote_ip
                 p == s.local_port
                 e == Callee(sockets, m, n, p)
      <4>1. m \in Nodes /\ p \in Ephemeral /\ ConnInv({s.state}, e, wire, abandoned, n, p, m)
        BY <3>2, ClientConn DEF Conns, Locals
      <4> HIDE DEF e, m, p
      <4>2. q.dport = SERVER_PORT
        BY <2>3, <3>2 DEF Connects
      <4>6. WireOK(wire) /\ Grown(wire, wire', s.remote_ip, q)
        BY <2>6 DEF Passes
      <4>3. ConnInv({y}, e, wire', abandoned, n, p, m)
        <5> DEFINE to == s.remote_ip
                   x  == s.state
                   w2 == wire'
        <5> HIDE DEF to, x, w2
        <5>1. /\ WireOK(wire) /\ Grown(wire, w2, to, q) /\ ConnInv({x}, e, wire, abandoned, n, p, m)
              /\ \/ x = "ESTABLISHED" /\ y = "FIN_WAIT_1"
                 \/ x = "CLOSE_WAIT" /\ y = "LAST_ACK"
              /\ m \in Nodes /\ p \in Ephemeral
          BY <2>15, <4>1, <4>6 DEF to, x, w2
        <5>2. ConnInv({y}, e, w2, abandoned, n, p, m)
          BY <2>3, <4>2, <5>1, ClientCloses
        <5> QED BY <5>2 DEF w2
      <4>4. m = s.remote_ip /\ p = s.local_port /\ e = Callee(sockets, m, n, p)
        BY DEF e, m, p
      <4> QED BY <2>1, <2>5, <2>6, <2>9, <3>2, <4>3, <4>4, ClientMove
    <3> QED BY <2>2, <3>1, <3>2
  <2>11. Locals(h)'
    <3>1. SocketInv(h, n, s2)
      <4>1. s.timeout = FALSE
        BY <2>1, <2>2 DEF SocketInv, Socket
      <4> QED BY <2>2, <2>5, <2>8, <4>1 DEF SocketInv, SameEnds, Serves, Connects
    <3>2. s2.local_port # SERVER_PORT \/ ~abandoned' => OfPeer(s2)
      BY <2>1, <2>5 DEF Conns, Locals, PeerData, Exclusive, OfPeer, SameEnds
    <3>3. s2.local_port = s.local_port
      BY <2>5 DEF SameEnds
    <3> QED BY <2>1, <2>4, <2>6, <2>7, <3>1, <3>2, <3>3, LocalStep DEF Conns
  <2>12. OpenInv'
    BY <1>2, <1>3, <2>4, OpenStep DEF Conns
  <2> QED BY <2>10, <2>11, <2>12 DEF Conns
<1> QED BY <1>5, <1>6 DEF socket_close

\* The head of the wire to node k: which connection it is of.
LEMMA HeadInv ==
  ASSUME TcpTypeInv, NEW h, Conns(h), NEW k \in Nodes, Arrives(k, "tcp")
  PROVE  LET r == Head(wire[k]) IN
         r.kind = "tcp" /\ PacketInv(h, abandoned, k, r) /\ r.flags \in Flags
<1> DEFINE r == Head(wire[k])
<1>1. wire[k] # <<>> /\ wire[k] \in Seq(Packet) /\ r.kind = "tcp"
  BY DEF Arrives, TcpTypeInv, WireOK
<1>2. 1 \in DOMAIN wire[k] /\ r = wire[k][1]
  BY <1>1
<1>3. PacketInv(h, abandoned, k, r)
  BY <1>2 DEF Conns, Locals, WireInv
<1>4. r.flags \in Flags
  BY <1>1, <1>3 DEF PacketInv, Flags, Syn, Says, Heard
<1> QED BY <1>1, <1>3, <1>4

\* As long as no connection was given up the serving socket is the peer of
\* whoever says something to the server's port.
LEMMA HeardByPeer ==
  ASSUME TcpTypeInv, NEW h, HomeOK(h), Conns(h), NEW k \in Nodes, Arrives(k, "tcp"), NEW fd \in Fds,
         sockets[k][fd].local_port = SERVER_PORT, ~abandoned,
         Head(wire[k]).dport = SERVER_PORT, Head(wire[k]).flags \in Says
  PROVE  At(sockets[k][fd], Head(wire[k]).from, Head(wire[k]).sport)
<1> DEFINE r == Head(wire[k])
           n == r.from
           p == r.sport
           e == Callee(sockets, k, n, p)
<1>1. r.kind = "tcp" /\ PacketInv(h, abandoned, k, r) /\ wire[k] # <<>>
  BY HeadInv DEF Arrives
<1>2. n \in Nodes /\ p \in Ephemeral /\ h[n][p] = k /\ h[n][p] # None
  BY <1>1, PortFacts DEF PacketInv
<1>3. Up(r, n, p)
  BY <1>1 DEF Up
<1>4. HasUp(wire, k, n, p, Says)
  BY <1>1, <1>2, <1>3, HeadThere
<1>5. ConnInv(Caller(sockets, n, p), e, wire, abandoned, n, p, k)
  BY <1>2 DEF Conns, ConnsInv
<1>6. In(e, Listening)
  BY <1>4, <1>5 DEF ConnInv, Answered, Live
<1>7. e = IF At(sockets[k][fd], n, p) THEN {sockets[k][fd].state} ELSE {}
  BY CalleeIs DEF Conns, Locals, SocketsInv
<1>8. e # {}
  BY <1>6 DEF In
<1> QED BY <1>7, <1>8

\* A listening socket after the SYN r.
Called(s, r) == [s EXCEPT !.state = "SYN_RECEIVED", !.remote_ip = r.from, !.remote_port = r.sport]

\* A SYN comes to a listening socket.
LEMMA ListenConns ==
  ASSUME TcpTypeInv, NEW h, HomeOK(h), Conns(h), NEW k \in Nodes, Arrives(k, "tcp"), NEW fd \in Fds,
         sockets[k][fd].active, Listens(sockets[k][fd]), Head(wire[k]).dport = SERVER_PORT, Head(wire[k]).flags \in Syn,
         NEW s2, s2 = Called(sockets[k][fd], Head(wire[k])),
         Store(k, fd, s2), tcp_send_packet(Taken(k), k, s2, {"SYN", "ACK"}, NoUnit),
         UNCHANGED <<open, abandoned>>
  PROVE  Conns(h)'
<1> DEFINE s == sockets[k][fd]
           r == Head(wire[k])
           n == r.from
           p == r.sport
           w1 == Taken(k)
           q == Segment(k, s2, {"SYN", "ACK"}, NoUnit)
           c == Caller(sockets, n, p)
           e == Callee(sockets, k, n, p)
<1>1. r.kind = "tcp" /\ PacketInv(h, abandoned, k, r) /\ wire[k] # <<>>
  BY HeadInv DEF Arrives
<1>2. n \in Nodes /\ p \in Ephemeral /\ h[n][p] = k /\ h[n][p] # None
  BY <1>1, PortFacts DEF PacketInv
<1>3. s \in Socket /\ SocketInv(h, k, s)
  BY SocketKinds DEF Conns
<1>4. /\ s2.local_port = SERVER_PORT /\ s2.remote_ip = n /\ s2.remote_port = p /\ s2.state = "SYN_RECEIVED"
      /\ s2.active /\ s2.rx_buffer = <<>> /\ s2.timeout = s.timeout
  BY <1>3 DEF Socket, Listens, Called
<1>5. s2.timeout = FALSE
  BY <1>3, <1>4 DEF SocketInv, Listens, Socket
<1>6. Serves(h, k, s2)
  BY <1>2, <1>4 DEF Serves
<1>7. Changes(sockets, sockets', k, fd, s2)
  BY StoreChanges
<1>8. WireOK(wire) /\ WireOK(w1) /\ Thinner(wire, w1)
  BY <1>1, TakenOK, TakenThinner DEF TcpTypeInv
<1>9. Passes(wire, w1, wire', s2.remote_ip, q)
  BY <1>8, SendPasses
<1>10. PacketInv(h, abandoned, s2.remote_ip, q)
  BY <1>6, SegmentInv DEF Sendable
<1>11. q.kind = "tcp" /\ q.from = k /\ q.sport = SERVER_PORT /\ q.dport = p /\ q.flags = {"SYN", "ACK"}
  BY <1>4 DEF Segment
<1>12. Up(r, n, p)
  BY <1>1 DEF Up
<1>13. HasUp(wire, k, n, p, Syn)
  BY <1>1, <1>2, <1>12, HeadThere
<1>14. ConnInv(c, e, wire, abandoned, n, p, k)
  BY <1>2 DEF Conns, ConnsInv
<1>15. e = {}
  <2>1. ~At(s, n, p)
    BY <1>2, PortFacts DEF At, Listens
  <2>2. PortsApart(sockets) /\ s.local_port = SERVER_PORT
    BY DEF Conns, Locals, SocketsInv, Listens
  <2>3. e = IF At(s, n, p) THEN {s.state} ELSE {}
    BY <2>2, CalleeIs
  <2> QED BY <2>1, <2>3
<1>16. \A F : ~HasUp(w1, k, n, p, F)
  BY <1>1, <1>12, <1>14, HeadGone
<1> HIDE DEF w1, q
<1> HIDE DEF c, e, n, p
<1>17. ConnInv(c, {}, w1, abandoned, n, p, k)
  BY <1>2, <1>8, <1>14, <1>15, ThinConn
<1>18. \A x, X : (In({x}, X) <=> x \in X) /\ ~In({}, X)
  BY InOne
<1>19. ConnInv(c, {"SYN_RECEIVED"}, w1, abandoned, n, p, k)
  <2>1. ~In(c, Joined) /\ ~HasDown(wire, n, p, Heard)
    BY <1>13, <1>14 DEF ConnInv, OnlySyn
  <2>2. ~HasDown(w1, n, p, Heard)
    BY <1>2, <1>8, <2>1, ThinHas
  <2>3. ~HasDown(w1, n, p, Fin)
    <3>1. Fin \subseteq Heard
      BY DEF Fin, Heard
    <3> QED BY <2>2, <3>1 DEF HasDown
  <2>4. ~In(c, {"CLOSE_WAIT", "LAST_ACK", "TIME_WAIT"})
    BY <2>1 DEF In, Joined
  <2>5. ~In({"SYN_RECEIVED"}, {"CLOSE_WAIT"})
    BY <1>18
  <2>6. ~In({}, Listening)
    BY <1>18
  <2> QED BY <1>16, <1>17, <2>3, <2>4, <2>5, <2>6, CalleeMove
<1>20. ConnInv(c, {"SYN_RECEIVED"}, wire', abandoned, n, p, k)
  <2>1. ~Up(q, n, p)
    BY <1>2, <1>11, PortFacts DEF Up
  <2>2. q.flags \notin Fin /\ In({"SYN_RECEIVED"}, Listening)
    BY <1>11, <1>18 DEF Fin, Listening
  <2>3. Fits(c, {"SYN_RECEIVED"}, w1, abandoned, n, p, k, s2.remote_ip, q)
    BY <1>16, <2>1, <2>2 DEF Fits
  <2>4. Grown(w1, wire', s2.remote_ip, q)
    BY <1>9 DEF Passes
  <2> QED BY <1>2, <1>8, <1>11, <1>19, <2>3, <2>4, GrowConn
<1>21. \A x \in Nodes : \A y \in Ephemeral : ~Own(k, s, x, y) /\ (Own(k, s2, x, y) => x = n /\ y = p)
  BY <1>4, PortFacts DEF Own, At, Listens
<1> DEFINE S2 == sockets'
<1>27. Changes(sockets, S2, k, fd, s2)
  BY <1>7
<1>28. PortsApart(sockets) /\ s.local_port = SERVER_PORT
  BY DEF Conns, Locals, SocketsInv, Listens
<1> HIDE DEF S2
<1>22. Caller(S2, n, p) = c
  <2>1. n # k \/ (s.local_port # p /\ s2.local_port # p)
    BY <1>2, <1>4, PortFacts DEF Listens
  <2>2. \A x \in Nodes : \A y : x # k \/ (s.local_port # y /\ s2.local_port # y) =>
          Caller(S2, x, y) = Caller(sockets, x, y)
    BY <1>27, CallerKept
  <2> QED BY <1>2, <2>1, <2>2 DEF c
<1>23. Callee(S2, k, n, p) = {"SYN_RECEIVED"}
  <2>1. \A x \in Nodes, g \in Fds : S2[x][g] = IF x = k /\ g = fd THEN s2 ELSE sockets[x][g]
    BY <1>27 DEF Changes
  <2>2. PortsApart(S2)
    BY <1>4, <1>28, <2>1 DEF PortsApart
  <2>3. At(s2, n, p) /\ S2[k][fd] = s2
    BY <1>4, <2>1 DEF At
  <2>4. Callee(S2, k, n, p) = IF At(S2[k][fd], n, p) THEN {S2[k][fd].state} ELSE {}
    BY <1>4, <2>2, <2>3, CalleeIs
  <2> QED BY <1>4, <2>3, <2>4
<1>24. ConnsInv(h, sockets', wire', abandoned')
  <2>1. ASSUME NEW x \in Nodes, NEW y \in Ephemeral, h[x][y] # None, Own(k, s, x, y) \/ Own(k, s2, x, y)
        PROVE  ConnInv(Caller(sockets', x, y), Callee(sockets', h[x][y], x, y), wire', abandoned', x, y, h[x][y])
    <3>1. x = n /\ y = p /\ abandoned' = abandoned
      BY <1>21, <2>1
    <3>2. ConnInv(Caller(sockets', n, p), Callee(sockets', k, n, p), wire', abandoned', n, p, k)
      BY <1>20, <1>22, <1>23, <3>1 DEF S2
    <3> QED BY <1>2, <3>1, <3>2
  <2>2. ASSUME NEW x \in Nodes, NEW y \in Ephemeral, h[x][y] # None, ~Own(k, s, x, y), ~Own(k, s2, x, y)
        PROVE  ~(s2.remote_ip = h[x][y] /\ Up(q, x, y)) /\ ~(s2.remote_ip = x /\ Down(q, y))
    <3>1. ~(x = n /\ y = p)
      BY <1>4, <2>2 DEF Own, At
    <3> QED BY <1>2, <1>4, <1>11, <3>1, PortFacts DEF Up, Down
  <2>3. ConnsInv(h, sockets, wire, abandoned)
    BY DEF Conns
  <2> QED BY <1>7, <1>9, <2>1, <2>2, <2>3, ConnsStep DEF Passes
<1>25. Locals(h)'
  <2>1. SocketInv(h, k, s2)
    BY <1>4, <1>5, <1>6 DEF SocketInv
  <2>2. OfPeer(s2) /\ s2.local_port = s.local_port
    BY <1>4 DEF OfPeer, Listens
  <2> QED BY <1>7, <1>9, <1>10, <2>1, <2>2, LocalStep DEF Conns
<1>26. OpenInv'
  <2>1. \A x \in Nodes : \A g \in open'[x] : g \in Fds /\ ((x = k /\ g = fd) \/ g \in open[x])
    BY DEF TcpTypeInv
  <2> QED BY <1>4, <1>7, <2>1, OpenStep DEF Conns
<1> QED BY <1>24, <1>25, <1>26 DEF Conns

\* Of handle_tcp: socket fd of node k becomes s2 and answers with flags g.
Takes(k, fd, s2, g) ==
  LET s == sockets[k][fd]
      r == Head(wire[k])
  IN /\ Arrives(k, "tcp") /\ s.local_port = r.dport /\ ~Ends(s, r)
     /\ s.state = "SYN_RECEIVED" => r.flags # {"RST"}
     /\ s2 = Handled(s, r) /\ Store(k, fd, s2) /\ g = Answer(s, r)
     /\ IF g = {} THEN Quiet(Taken(k)) ELSE tcp_send_packet(Taken(k), k, s2, g, NoUnit)

\* A segment for an end of a connection that does not end it.
LEMMA TurnConns ==
  ASSUME TcpTypeInv, NEW h, HomeOK(h), Conns(h), NEW k \in Nodes, NEW fd \in Fds, NEW s2, NEW g, Takes(k, fd, s2, g),
         Serves(h, k, sockets[k][fd]) \/ Connects(h, k, sockets[k][fd]),
         UNCHANGED <<open, abandoned>>
  PROVE  Conns(h)'
<1> DEFINE s == sockets[k][fd]
           r == Head(wire[k])
           w1 == Taken(k)
           w2 == wire'
           y == s2.state
           to == IF g = {} THEN None ELSE s.remote_ip
           q == IF g = {} THEN NoPacket ELSE Segment(k, s2, {"ACK"}, NoUnit)
<1>1. r.kind = "tcp" /\ PacketInv(h, abandoned, k, r) /\ r.flags \in Flags /\ wire[k] # <<>>
  BY HeadInv DEF Arrives, Takes
<1>2. s \in Socket /\ SocketInv(h, k, s)
  BY SocketKinds DEF Conns
<1>3. s.state \in Joined \cup {"SYN_RECEIVED", "SYN_SENT"}
  BY DEF Serves, Connects
<1>4. s.active /\ (s.timeout => s.state = "TIME_WAIT") /\ (s.state = "SYN_RECEIVED" => s.rx_buffer = <<>>)
  BY <1>2, PortFacts DEF SocketInv, Idle, Serves, Connects
<1>5. /\ SameEnds(s, s2) /\ s2.active = s.active /\ Turn(s.state, r.flags, y, g)
      /\ \/ s2.rx_buffer = s.rx_buffer
         \/ /\ s.state = "ESTABLISHED" /\ y = "ESTABLISHED" /\ r.data # NoUnit
            /\ s2.rx_buffer = Append(s.rx_buffer, r.data)
      /\ s2.timeout = s.timeout \/ s.state = "TIME_WAIT"
  BY <1>1, <1>2, <1>3, Turns DEF Takes
<1>6. g = {} \/ (g = {"ACK"} /\ y \in Joined /\ y # "SYN_SENT")
  BY <1>5 DEF Turn, Joined
<1>7. Changes(sockets, sockets', k, fd, s2)
  BY StoreChanges DEF Takes
<1>8. WireOK(wire) /\ WireOK(w1) /\ Thinner(wire, w1)
  BY <1>1, TakenOK, TakenThinner DEF TcpTypeInv
<1>9. /\ s2.local_port = s.local_port /\ s2.remote_ip = s.remote_ip /\ s2.remote_port = s.remote_port
  BY <1>5 DEF SameEnds
<1>10. /\ y = "SYN_RECEIVED" => s.state = "SYN_RECEIVED"
       /\ y = "SYN_SENT" => s.state = "SYN_SENT"
       /\ s.state = "TIME_WAIT" => y = "TIME_WAIT"
       /\ y \in Closing => s.state \in Closing
       /\ y \in Joined \/ y = s.state
  BY <1>5 DEF Turn, Closing, Closers, Joined
<1>11. /\ Serves(h, k, s) => Serves(h, k, s2) /\ y \in Joined \cup {"SYN_RECEIVED"}
       /\ Connects(h, k, s) => Connects(h, k, s2) /\ y \in Joined \cup {"SYN_SENT"}
  BY <1>9, <1>10 DEF Serves, Connects
<1>12. Passes(wire, w1, w2, to, q) /\ FromEnd(k, s, to, q) /\ (to \in Nodes => PacketInv(h, abandoned, to, q))
  <2>1. CASE g = {}
    <3>1. w2 = w1 /\ to = None /\ q = NoPacket
      BY <2>1 DEF Quiet, Takes
    <3>2. Passes(wire, w1, w1, None, NoPacket)
      BY <1>1, PassTaken
    <3> QED BY <3>1, <3>2, PortFacts DEF FromEnd
  <2>2. CASE g = {"ACK"}
    <3>1. tcp_send_packet(w1, k, s2, {"ACK"}, NoUnit) /\ q = Segment(k, s2, {"ACK"}, NoUnit)
          /\ to = s2.remote_ip
      BY <1>9, <2>2 DEF Takes
    <3>2. Passes(wire, w1, wire', s2.remote_ip, q) /\ FromEnd(k, s2, s2.remote_ip, q)
      BY <1>8, <3>1, SendPasses
    <3>3. PacketInv(h, abandoned, s2.remote_ip, q)
      <4>1. Sendable(h, k, s2, {"ACK"}, NoUnit)
        BY <1>11 DEF Sendable
      <4> QED BY <3>1, <4>1, SegmentInv
    <3> QED BY <1>9, <3>1, <3>2, <3>3 DEF FromEnd
  <2> QED BY <1>6, <2>1, <2>2
<1>13. Moves(h, sockets, k, fd, s2, sockets', wire, w1, w2, to, q, abandoned, abandoned')
  BY <1>7, <1>12 DEF Moves, Conns, Locals
<1>14. g = {"ACK"} => q.dport = s.remote_port /\ q.flags = {"ACK"}
  BY <1>9 DEF Segment
<1>25. g = {} => w2 = w1
  BY DEF Quiet, Takes
<1>26. q.kind = "tcp" /\ Grown(w1, w2, to, q)
  BY <1>12 DEF Passes
<1> HIDE DEF w1, w2, to, q, y
<1>27. y = s2.state
  BY DEF y
<1>15. ConnsInv(h, sockets', w2, abandoned')
  <2>1. CASE Serves(h, k, s)
    <3> DEFINE n == s.remote_ip
               p == s.remote_port
               c == Caller(sockets, n, p)
    <3>1. n \in Nodes /\ p \in Ephemeral /\ ConnInv(c, {s.state}, wire, abandoned, n, p, k)
      BY <2>1, ServerConn DEF Conns, Locals
    <3>2. s.local_port = SERVER_PORT /\ s.state \in Joined \cup {"SYN_RECEIVED"}
      BY <2>1 DEF Serves
    <3>3. ~abandoned /\ r.flags \in Fin /\ y # s.state => Up(r, n, p)
      <4>1. ASSUME ~abandoned, r.flags \in Fin
            PROVE  At(s, r.from, r.sport)
        <5>1. r.flags \in Says
          BY <4>1 DEF Fin, Says
        <5> QED BY <3>2, <4>1, <5>1, HeardByPeer DEF Takes
      <4> QED BY <1>1, <3>2, <4>1 DEF At, Up, Takes
    <3> DEFINE x == s.state
    <3>8. Turn(x, r.flags, y, g)
      BY <1>5, <1>27
    <3> HIDE DEF c, n, p, x
    <3>4. ConnInv(c, {y}, w1, abandoned, n, p, k)
      <4>1. ConnInv(c, {x}, wire, abandoned, n, p, k) /\ x \in Joined \cup {"SYN_RECEIVED"}
            /\ (~abandoned /\ r.flags \in Fin /\ y # x => Up(r, n, p))
        BY <3>1, <3>2, <3>3 DEF x
      <4>2. wire[k] # <<>> /\ n \in Nodes
        BY <1>1, <3>1
      <4> QED BY <3>8, <4>1, <4>2, ServerTurn DEF w1
    <3>5. ConnInv(c, {y}, w2, abandoned, n, p, k)
      <4>1. CASE g = {}
        BY <1>25, <3>4, <4>1
      <4>2. CASE g = {"ACK"}
        <5>1. q.dport = p /\ q.flags \in {{"ACK"}} \cup Says /\ q.flags \notin Fin
          BY <1>14, <4>2 DEF p, Fin
        <5>2. y \in TcpStates
          BY <1>6, <4>2, <1>27 DEF Joined, TcpStates
        <5> QED BY <1>8, <1>26, <3>1, <3>4, <5>1, <5>2, ServerSends
      <4> QED BY <1>6, <4>1, <4>2
    <3>6. n = s.remote_ip /\ p = s.remote_port /\ c = Caller(sockets, n, p)
      BY DEF n, p, c
    <3>7. ConnInv(c, {s2.state}, w2, abandoned', n, p, k)
      BY <1>27, <3>5
    <3> QED BY <1>5, <1>12, <1>13, <2>1, <3>6, <3>7, ServerMove
  <2>2. CASE Connects(h, k, s)
    <3> DEFINE m == s.remote_ip
               p == s.local_port
               e == Callee(sockets, m, k, p)
    <3>1. m \in Nodes /\ p \in Ephemeral /\ ConnInv({s.state}, e, wire, abandoned, k, p, m)
      BY <2>2, ClientConn DEF Conns, Locals
    <3>2. s.remote_port = SERVER_PORT /\ s.state \in Joined \cup {"SYN_SENT"} /\ Down(r, p)
      BY <1>1, <2>2 DEF Connects, Down, Takes
    <3> DEFINE x == s.state
    <3>8. Turn(x, r.flags, y, g)
      BY <1>5, <1>27
    <3> HIDE DEF e, m, p, x
    <3>4. ConnInv({y}, e, w1, abandoned, k, p, m)
      <4>1. ConnInv({x}, e, wire, abandoned, k, p, m) /\ x \in Joined \cup {"SYN_SENT"}
        BY <3>1, <3>2 DEF x
      <4>2. wire[k] # <<>> /\ m \in Nodes
        BY <1>1, <3>1
      <4> QED BY <3>2, <3>8, <4>1, <4>2, ClientTurn DEF w1
    <3>5. ConnInv({y}, e, w2, abandoned, k, p, m)
      <4>1. CASE g = {}
        BY <1>25, <3>4, <4>1
      <4>2. CASE g = {"ACK"}
        <5>1. q.dport = SERVER_PORT /\ q.flags = {"ACK"} /\ y \in Joined
          BY <1>6, <1>14, <1>27, <3>2, <4>2
        <5> QED BY <1>8, <1>26, <3>1, <3>4, <5>1, ClientSends
      <4> QED BY <1>6, <4>1, <4>2
    <3>6. m = s.remote_ip /\ p = s.local_port /\ e = Callee(sockets, m, k, p)
      BY DEF m, p, e
    <3>7. ConnInv({s2.state}, e, w2, abandoned', k, p, m)
      BY <1>27, <3>5
    <3> QED BY <1>5, <1>12, <1>13, <2>2, <3>6, <3>7, ClientMove
  <2> QED BY <2>1, <2>2
<1>16. Locals(h)'
  <2>1. SocketInv(h, k, s2)
    BY <1>4, <1>5, <1>9, <1>10, <1>11, <1>27 DEF SocketInv
  <2>2. ASSUME s2.local_port # SERVER_PORT \/ ~abandoned'
        PROVE  OfPeer(s2)
    <3>1. OfPeer(s)
      BY <1>9, <2>2 DEF Conns, Locals, PeerData, Exclusive
    <3>2. CASE s2.rx_buffer = s.rx_buffer
      BY <1>9, <3>1, <3>2 DEF OfPeer
    <3>3. CASE r.data # NoUnit /\ s2.rx_buffer = Append(s.rx_buffer, r.data)
      <4>1. r.flags = {"PSH", "ACK"} /\ r.data.from = r.from /\ r.data.port = r.sport
        BY <1>1, <3>3 DEF PacketInv
      <4>2. r.from = s.remote_ip /\ r.sport = s.remote_port
        <5>1. CASE Serves(h, k, s)
          <6>1. s.local_port = SERVER_PORT /\ r.flags \in Says /\ ~abandoned
            BY <1>9, <2>2, <4>1, <5>1 DEF Serves, Says
          <6>2. At(s, r.from, r.sport)
            BY <6>1, HeardByPeer DEF Takes
          <6> QED BY <6>2 DEF At
        <5>2. CASE Connects(h, k, s)
          BY <1>1, <5>2, PortFacts DEF PacketInv, Connects, Takes
        <5> QED BY <5>1, <5>2
      <4>3. s.rx_buffer \in Seq(Unit)
        BY SocketFields DEF TcpTypeInv
      <4>4. \A i \in DOMAIN s2.rx_buffer : s2.rx_buffer[i] = r.data \/ (i \in DOMAIN s.rx_buffer /\ s2.rx_buffer[i] = s.rx_buffer[i])
        <5> DEFINE b == s.rx_buffer
                   b2 == s2.rx_buffer
                   d == r.data
        <5> HIDE DEF b, b2, d
        <5>1. b \in Seq(Unit) /\ d \in Unit /\ b2 = Append(b, d)
          BY <1>1, <3>3, <4>1, <4>3 DEF b, b2, d, PacketInv
        <5>2. \A i \in DOMAIN b2 : b2[i] = d \/ (i \in DOMAIN b /\ b2[i] = b[i])
          BY <5>1
        <5> QED BY <5>2 DEF b, b2, d
      <4> QED BY <1>9, <3>1, <4>1, <4>2, <4>4 DEF OfPeer
    <3> QED BY <1>5, <3>2, <3>3
  <2>3. to \in Nodes => PacketInv(h, abandoned', to, q)
    BY <1>12
  <2> QED BY <1>7, <1>9, <1>12, <2>1, <2>2, <2>3, LocalStep DEF Conns, w2
<1>17. OpenInv'
  <2>1. \A x \in Nodes : \A i \in open'[x] : i \in Fds /\ ((x = k /\ i = fd) \/ i \in open[x])
    BY DEF TcpTypeInv
  <2>2. fd \in open'[k] => s2.state \notin {"FIN_WAIT_1", "FIN_WAIT_2", "LAST_ACK", "TIME_WAIT"}
    BY <1>10, <1>27 DEF Conns, OpenInv, Closing
  <2> QED BY <1>7, <2>1, <2>2, OpenStep DEF Conns
<1> QED BY <1>15, <1>16, <1>17 DEF Conns, w2

\* Nothing happens to the sockets and no segment is sent.
LEMMA SameConns ==
  ASSUME TcpTypeInv, NEW h, HomeOK(h), Conns(h), UNCHANGED <<sockets, open>>, abandoned => abandoned',
         NEW w1, Passes(wire, w1, wire', None, NoPacket)
  PROVE  Conns(h)'
<1>1. Locals(h)'
  BY LocalSame, PortFacts DEF Conns
<1>2. ConnsInv(h, sockets', wire', abandoned')
  BY ConnsSame DEF Conns
<1>3. OpenInv'
  BY DEF Conns, OpenInv
<1> QED BY <1>1, <1>2, <1>3 DEF Conns

\* A server's socket is reset before it was accepted, and listens again.
LEMMA ResetConns ==
  ASSUME TcpTypeInv, NEW h, HomeOK(h), Conns(h), NEW k \in Nodes, NEW fd \in Fds, NEW s2,
         sockets[k][fd].active, Serves(h, k, sockets[k][fd]), sockets[k][fd].state = "SYN_RECEIVED", abandoned,
         s2 = [sockets[k][fd] EXCEPT !.state = "LISTEN", !.remote_ip = None, !.remote_port = 0],
         Store(k, fd, s2), Arrives(k, "tcp"), Quiet(Taken(k)), UNCHANGED <<open, abandoned>>
  PROVE  Conns(h)'
<1> DEFINE s == sockets[k][fd]
           w1 == Taken(k)
           n == s.remote_ip
           p == s.remote_port
           c == Caller(sockets, n, p)
<1>1. s \in Socket /\ SocketInv(h, k, s) /\ wire[k] # <<>> /\ wire' = w1
  BY SocketKinds DEF Conns, Arrives, Quiet
<1>2. s.timeout = FALSE /\ s.rx_buffer = <<>> /\ s.local_port = SERVER_PORT
  BY <1>1 DEF SocketInv, Socket, Serves
<1>3. /\ s2.local_port = SERVER_PORT /\ s2.remote_ip = None /\ s2.remote_port = 0 /\ s2.state = "LISTEN"
      /\ s2.active /\ s2.rx_buffer = <<>> /\ s2.timeout = FALSE
  BY <1>1, <1>2 DEF Socket
<1>4. Changes(sockets, sockets', k, fd, s2)
  BY StoreChanges
<1>5. Passes(wire, w1, w1, None, NoPacket)
  BY <1>1, PassTaken
<1>6. n \in Nodes /\ ConnInv(c, {s.state}, wire, abandoned, n, p, k)
  BY ServerConn DEF Conns, Locals
<1>13. SocketInv(h, k, s2) /\ OfPeer(s2)
  BY <1>3 DEF SocketInv, Listens, OfPeer
<1> HIDE DEF w1, c, n, p
<1>7. ConnInv(c, {s.state}, w1, abandoned, n, p, k)
  BY <1>5, <1>6, ThinConn DEF Passes
<1>8. ConnInv(c, {}, w1, abandoned, n, p, k)
  BY <1>7, ServerGone
<1>9. n = s.remote_ip /\ p = s.remote_port /\ c = Caller(sockets, n, p)
  BY DEF n, p, c
<1>10. ConnsInv(h, sockets', w1, abandoned)
  <2>1. Moves(h, sockets, k, fd, s2, sockets', wire, w1, w1, None, NoPacket, abandoned, abandoned)
    BY <1>4, <1>5 DEF Moves, Conns, Locals
  <2> QED BY <1>3, <1>8, <1>9, <2>1, ServerEnd
<1>11. Locals(h)'
  <2>1. Passes(wire, w1, wire', None, NoPacket) /\ s2.local_port = s.local_port
    BY <1>1, <1>2, <1>3, <1>5
  <2> QED BY <1>4, <1>13, <2>1, LocalStep, PortFacts DEF Conns
<1>12. OpenInv'
  <2>1. \A x \in Nodes : \A i \in open'[x] : i \in Fds /\ ((x = k /\ i = fd) \/ i \in open[x])
    BY DEF TcpTypeInv
  <2> QED BY <1>3, <1>4, <2>1, OpenStep DEF Conns
<1> QED BY <1>1, <1>10, <1>11, <1>12 DEF Conns

\* handle_tcp: every case of a segment and of the socket it finds.
LEMMA HandleConns ==
  ASSUME TcpTypeInv, NEW h, HomeOK(h), Conns(h), NEW n \in Nodes, handle_tcp(n)
  PROVE  Conns(h)'
<1> DEFINE r == Head(wire[n])
           w1 == Taken(n)
<1>1. /\ Arrives(n, "tcp") /\ Deliver(n, r, w1) /\ UNCHANGED <<open, abandoned>> /\ wire[n] # <<>>
  BY DEF handle_tcp, Arrives
<1>2. PacketInv(h, abandoned, n, r) /\ r.kind = "tcp" /\ r.flags \in Flags
  BY <1>1, HeadInv
<1>3. Passes(wire, w1, w1, None, NoPacket)
  BY <1>1, PassTaken
<1>4. ASSUME Quiet(w1), UNCHANGED sockets
      PROVE  Conns(h)'
  <2>1. Passes(wire, w1, wire', None, NoPacket)
    BY <1>3, <1>4 DEF Quiet
  <2> QED BY <1>1, <1>4, <2>1, SameConns
<1>5. CASE Receiver(n, r.dport) = {}
  BY <1>1, <1>4, <1>5 DEF Deliver
<1>6. ASSUME NEW fd \in Receiver(n, r.dport),
             LET s == sockets[n][fd] IN
               IF Ends(s, r)
               THEN Free(n, fd) /\ Quiet(w1)
               ELSE /\ Store(n, fd, Handled(s, r))
                    /\ IF Answer(s, r) = {} THEN Quiet(w1)
                       ELSE tcp_send_packet(w1, n, Handled(s, r), Answer(s, r), NoUnit)
      PROVE  Conns(h)'
  <2> DEFINE s == sockets[n][fd]
             s2 == Handled(s, r)
  <2>1. fd \in Fds /\ s.active /\ s.local_port = r.dport
    BY <1>6 DEF Receiver
  <2>2. s \in Socket /\ SocketInv(h, n, s)
    BY <2>1, SocketKinds DEF Conns
  <2>3. Listens(s) \/ Serves(h, n, s) \/ Connects(h, n, s)
    BY <1>2, <2>1, <2>2, PortFacts DEF PacketInv, SocketInv, Idle
  <2>4. /\ ("SYN" \in r.flags) = (r.flags \in Syn \cup SynAck) /\ ("RST" \in r.flags) = (r.flags = {"RST"})
        /\ r.flags = {"RST"} => abandoned
    BY <1>2, FlagFacts DEF PacketInv
  <2>5. CASE Ends(s, r)
    <3>1. Store(n, fd, Zeroed) /\ wire' = w1
      BY <1>6, <2>5 DEF Free, Quiet
    <3>2. abandoned \/ s.state = "LAST_ACK"
      BY <2>4, <2>5 DEF Ends
    <3>3. Passes(wire, wire', wire', None, NoPacket)
      BY <1>3, <3>1
    <3>4. Locals(h)' /\ ConnsInv(h, sockets', wire', abandoned')
      BY <1>1, <2>1, <3>1, <3>2, <3>3, FreeConns
    <3>5. OpenInv'
      <4>1. Changes(sockets, sockets', n, fd, Zeroed) /\ Zeroed.state = "CLOSED"
        BY <2>1, <3>1, StoreChanges DEF Zeroed
      <4>2. \A x \in Nodes : \A i \in open'[x] : i \in Fds /\ ((x = n /\ i = fd) \/ i \in open[x])
        BY <1>1 DEF TcpTypeInv
      <4> QED BY <2>1, <4>1, <4>2, OpenStep DEF Conns
    <3> QED BY <3>4, <3>5 DEF Conns
  <2>6. CASE ~Ends(s, r)
    <3>1. /\ Store(n, fd, s2)
          /\ IF Answer(s, r) = {} THEN Quiet(w1) ELSE tcp_send_packet(w1, n, s2, Answer(s, r), NoUnit)
      BY <1>6, <2>6
    <3>2. CASE Listens(s) /\ "SYN" \in r.flags
      <4>1. r.dport = SERVER_PORT /\ r.flags \in Syn
        <5>1. r.dport = SERVER_PORT
          BY <2>1, <3>2 DEF Listens
        <5>2. r.flags \in Syn \cup {{"ACK"}, {"RST"}} \cup Says
          BY <1>2, <5>1, PortFacts DEF PacketInv
        <5> QED BY <3>2, <5>1, <5>2 DEF Says
      <4>2. s2 = Called(s, r) /\ Answer(s, r) = {"SYN", "ACK"}
        <5>1. s.state = "LISTEN"
          BY <3>2 DEF Listens
        <5>2. s2 = Called(s, r)
          BY <3>2, <5>1 DEF Handled, Called
        <5>3. Answer(s, r) = {"SYN", "ACK"}
          BY <3>2, <5>1 DEF Answer, AcksFin
        <5> QED BY <5>2, <5>3
      <4>3. tcp_send_packet(w1, n, s2, {"SYN", "ACK"}, NoUnit)
        BY <3>1, <4>2
      <4> HIDE DEF s2
      <4> QED BY <1>1, <2>1, <3>1, <3>2, <4>1, <4>2, <4>3, ListenConns
    <3>3. CASE Listens(s) /\ "SYN" \notin r.flags
      <4>1. Answer(s, r) = {}
        BY <3>3 DEF Listens, Answer, AcksFin
      <4>2. s2 = [s EXCEPT !.state = Teardown(s, r)] /\ Teardown(s, r) = s.state
        BY <3>3 DEF Listens, Handled, Teardown
      <4>3. s2 = s
        BY <2>2, <4>2 DEF Socket
      <4>4. sockets' = sockets
        BY <2>1, <3>1, <4>3 DEF Store, TcpTypeInv, SocketsOK
      <4> QED BY <1>4, <3>1, <4>1, <4>4
    <3>4. CASE s.state = "SYN_RECEIVED" /\ "RST" \in r.flags
      <4>1. Answer(s, r) = {} /\ s2 = [s EXCEPT !.state = "LISTEN", !.remote_ip = None, !.remote_port = 0]
        BY <3>4 DEF Handled, Answer, AcksFin
      <4>2. Serves(h, n, s)
        BY <2>3, <3>4 DEF Listens, Connects, Joined
      <4>3. Quiet(w1)
        BY <3>1, <4>1
      <4> HIDE DEF s2
      <4> QED BY <1>1, <2>1, <2>4, <3>1, <3>4, <4>1, <4>2, <4>3, ResetConns
    <3>5. CASE /\ Serves(h, n, s) \/ Connects(h, n, s)
               /\ ~(s.state = "SYN_RECEIVED" /\ "RST" \in r.flags)
      <4>1. Takes(n, fd, s2, Answer(s, r))
        BY <1>1, <2>1, <2>4, <2>6, <3>1, <3>5 DEF Takes
      <4> HIDE DEF s2
      <4> QED BY <1>1, <2>1, <3>5, <4>1, TurnConns
    <3> QED BY <2>3, <3>2, <3>3, <3>4, <3>5
  <2> QED BY <2>5, <2>6
<1> QED BY <1>1, <1>5, <1>6 DEF Deliver

\* No segment is sent when a host is pinged or ARP is handled, or one is lost.
ArpSteps(n) ==
  \/ \E to \in Servers : tcpip_ping(n, to)
  \/ handle_arp(n) \/ Lose(n)
  \/ \E x \in Others : OtherArp(n, x)

\* ARP, losses and pings move no segment but away.
LEMMA ArpPasses ==
  ASSUME TcpTypeInv, NEW n \in Nodes, ArpSteps(n)
  PROVE  /\ \E w1 : Passes(wire, w1, wire', None, NoPacket)
         /\ UNCHANGED <<sockets, next_ephemeral_port, created, open, sent, last, abandoned>>
<1>0. UNCHANGED <<sockets, next_ephemeral_port, created, open, sent, last, abandoned>>
  BY DEF ArpSteps, tcpip_ping, handle_arp, Lose, OtherArp
<1>1. CASE \E to \in Servers : tcpip_ping(n, to)
  <2>1. PICK to : wire' = arp_request(wire, n, to)
    BY <1>1 DEF tcpip_ping, Quiet
  <2>2. Passes(wire, wire, wire', None, NoPacket)
    BY <2>1, SentGrown, SameThinner DEF Passes, NoPacket, TcpTypeInv
  <2> QED BY <1>0, <2>2
<1>2. CASE handle_arp(n)
  <2>1. wire[n] # <<>>
    BY <1>2 DEF handle_arp, Arrives
  <2>2. wire' = Taken(n) \/ \E x : wire' = Put(Taken(n), x, Arp("reply", n, x))
    BY <1>2 DEF handle_arp
  <2>3. Passes(wire, Taken(n), Taken(n), None, NoPacket) /\ WireOK(Taken(n))
    BY <2>1, PassTaken DEF Passes
  <2>4. Passes(wire, Taken(n), wire', None, NoPacket)
    BY <2>2, <2>3, ReplyGrown DEF Passes
  <2> QED BY <1>0, <2>4
<1>3. CASE Lose(n)
  <2>1. wire[n] # <<>> /\ wire' = Taken(n)
    BY <1>3 DEF Lose
  <2>2. Passes(wire, Taken(n), Taken(n), None, NoPacket)
    BY <2>1, PassTaken
  <2> QED BY <1>0, <2>1, <2>2
<1>4. CASE \E x \in Others : OtherArp(n, x)
  <2>1. wire' = wire /\ Passes(wire, wire, wire, None, NoPacket)
    BY <1>4, PassNone DEF OtherArp, TcpTypeInv
  <2> QED BY <1>0, <2>1
<1> QED BY <1>1, <1>2, <1>3, <1>4 DEF ArpSteps

\* So the connections are not disturbed.
LEMMA ArpConns ==
  ASSUME TcpTypeInv, NEW h, HomeOK(h), Conns(h), NEW n \in Nodes, ArpSteps(n)
  PROVE  Conns(h)'
BY ArpPasses, SameConns

\* A reset from elsewhere: its connection counts as given up.
LEMMA OtherResetConns ==
  ASSUME TcpTypeInv, NEW h, HomeOK(h), Conns(h), NEW n \in Nodes, NEW fd \in Fds, OtherReset(n, fd)
  PROVE  Conns(h)'
<1> DEFINE s == sockets[n][fd]
           q == [kind |-> "tcp", from |-> s.remote_ip, sport |-> s.remote_port,
                 dport |-> s.local_port, flags |-> {"RST"}, data |-> NoUnit]
           S == sockets
           w2 == wire'
<1>1. /\ s.remote_ip # None /\ w2 = Put(wire, n, q) /\ abandoned' = TRUE /\ UNCHANGED <<sockets, open>>
  BY DEF OtherReset
<1>2. s \in Socket /\ (Serves(h, n, s) \/ Connects(h, n, s))
  BY <1>1, SocketKinds DEF Conns, SocketInv, Idle, Listens
<1>3. /\ q.kind = "tcp" /\ q.from = s.remote_ip /\ q.sport = s.remote_port /\ q.dport = s.local_port
      /\ q.flags = {"RST"} /\ q.data = NoUnit
  OBVIOUS
<1> HIDE DEF q
<1>4. Passes(wire, wire, w2, n, q)
  BY <1>1, <1>3, SentGrown, SameThinner DEF Passes, TcpTypeInv
<1>5. PacketInv(h, TRUE, n, q)
  <2>1. q.flags # {"PSH", "ACK"}
    BY <1>3
  <2> QED BY <1>2, <1>3, <2>1 DEF PacketInv, Serves, Connects
<1>6. Locals(h)'
  BY <1>1, <1>4, <1>5, LocalSame DEF Conns
<1>7. q.flags \notin Syn \cup Fin \cup Says \cup Heard \cup SynAck
  BY <1>3 DEF Syn, Fin, Says, Heard, SynAck
<1> HIDE DEF w2
<1>9. ConnsInv(h, S, w2, TRUE)
  <2>1. ASSUME NEW x \in Nodes, NEW y \in Ephemeral, h[x][y] # None
        PROVE  ConnInv(Caller(S, x, y), Callee(S, h[x][y], x, y), w2, TRUE, x, y, h[x][y])
    <3> DEFINE m == h[x][y]
               c == Caller(S, x, y)
               e == Callee(S, m, x, y)
    <3>1. m \in Nodes /\ ConnInv(c, e, wire, abandoned, x, y, m)
      BY <2>1 DEF HomeOK, Conns, ConnsInv
    <3>2. n = m /\ Up(q, x, y) => ~HasUp(wire, m, x, y, Syn)
      <4>1. SUFFICES ASSUME n = m, Up(q, x, y)
                     PROVE  ~HasUp(wire, m, x, y, Syn)
        OBVIOUS
      <4>2. s.local_port = SERVER_PORT /\ s.remote_ip = x /\ s.remote_port = y
        BY <1>3, <4>1 DEF Up
      <4>3. Serves(h, n, s)
        BY <1>2, <4>2, PortFacts DEF Connects
      <4>4. Callee(S, n, x, y) = {s.state} /\ s.state \in TcpStates
        <5>1. PortsApart(S)
          BY DEF Conns, Locals, SocketsInv
        <5>2. Callee(S, n, x, y) = IF At(s, x, y) THEN {s.state} ELSE {}
          BY <4>2, <5>1, CalleeIs
        <5> QED BY <1>2, <4>2, <5>2 DEF Socket, At
      <4>5. e = {s.state}
        BY <4>1, <4>4
      <4> QED BY <3>1, <4>4, <4>5 DEF ConnInv, OnlySyn, In
    <3> HIDE DEF c, e, m
    <3>3. Fits(c, e, wire, TRUE, x, y, m, n, q)
      BY <1>7, <3>2 DEF Fits
    <3>4. ConnInv(c, e, wire, TRUE, x, y, m)
      BY <3>1, Given
    <3>5. WireOK(wire) /\ q.kind = "tcp" /\ Grown(wire, w2, n, q)
      BY <1>4 DEF Passes
    <3>6. ConnInv(c, e, w2, TRUE, x, y, m)
      BY <3>1, <3>3, <3>4, <3>5, GrowConn
    <3> QED BY <3>6 DEF c, e, m
  <2> QED BY <2>1 DEF ConnsInv
<1>10. OpenInv'
  BY <1>1 DEF Conns, OpenInv
<1> QED BY <1>1, <1>6, <1>9, <1>10 DEF Conns, w2

-----------------------------------------------------------------------------
(* Ports: u[n] of them have been used at node n, and no more are ever used   *)
(* than sockets created.                                                     *)

Fresh(S, n) == {fd \in Fds : S[n][fd].active /\ S[n][fd].local_port = 0}

PortsInv(h, u) ==
  /\ HomeOK(h) /\ u \in [Nodes -> Nat]
  /\ \A n \in Nodes :
       /\ \A p \in Ephemeral : h[n][p] # None => p < EPHEMERAL + u[n]
       /\ u[n] + Cardinality(Fresh(sockets, n)) <= created[n]
       /\ EPHEMERAL + u[n] < PORT_MOD => next_ephemeral_port[n] = EPHEMERAL + u[n]

\* The sockets that may still connect are finitely many.
LEMMA FreshFinite == \A S, n : IsFiniteSet(Fresh(S, n)) /\ Cardinality(Fresh(S, n)) \in Nat
<1>1. IsFiniteSet(Fds)
  BY Bounds, FS_Interval DEF Fds
<1> QED BY <1>1, FS_Subset, FS_CardinalityType DEF Fresh

\* A step that makes no socket fresh uses no port.
LEMMA FewerFresh ==
  ASSUME TcpTypeInv, NEW h, NEW u, PortsInv(h, u), UNCHANGED <<next_ephemeral_port, created>>,
         \A n \in Nodes : Fresh(sockets', n) \subseteq Fresh(sockets, n)
  PROVE  PortsInv(h, u)'
<1>1. ASSUME NEW n \in Nodes
      PROVE  u[n] + Cardinality(Fresh(sockets', n)) <= created[n]
  <2>1. Cardinality(Fresh(sockets', n)) <= Cardinality(Fresh(sockets, n))
    BY FreshFinite, FS_Subset
  <2>2. Cardinality(Fresh(sockets', n)) \in Nat /\ Cardinality(Fresh(sockets, n)) \in Nat
    BY FreshFinite
  <2>3. u[n] \in Nat /\ created[n] \in Nat /\ u[n] + Cardinality(Fresh(sockets, n)) <= created[n]
    BY Bounds DEF PortsInv, TcpTypeInv
  <2> QED BY <2>1, <2>2, <2>3
<1> QED BY <1>1 DEF PortsInv

\* One socket changes and does not become fresh.
LEMMA StorePorts ==
  ASSUME TcpTypeInv, NEW h, NEW u, PortsInv(h, u), UNCHANGED <<next_ephemeral_port, created>>,
         NEW n \in Nodes, NEW fd \in Fds, NEW s2, Store(n, fd, s2),
         s2.active /\ s2.local_port = 0 => sockets[n][fd].active /\ sockets[n][fd].local_port = 0
  PROVE  PortsInv(h, u)'
<1>1. \A m \in Nodes, g \in Fds : sockets'[m][g] = IF m = n /\ g = fd THEN s2 ELSE sockets[m][g]
  BY StoreChanges DEF Changes
<1>2. \A m \in Nodes : Fresh(sockets', m) \subseteq Fresh(sockets, m)
  BY <1>1 DEF Fresh
<1> QED BY <1>2, FewerFresh

\* A segment changes no port.
LEMMA HandledEnd ==
  ASSUME NEW s \in Socket, NEW r
  PROVE  Handled(s, r).local_port = s.local_port /\ Handled(s, r).active = s.active
<1>1. \A st : LET t == [s EXCEPT !.state = st] IN t.local_port = s.local_port /\ t.active = s.active
  BY DEF Socket
<1>2. /\ Called(s, r).local_port = s.local_port /\ Called(s, r).active = s.active
      /\ [s EXCEPT !.state = "LISTEN", !.remote_ip = None, !.remote_port = 0].local_port = s.local_port
      /\ [s EXCEPT !.state = "LISTEN", !.remote_ip = None, !.remote_port = 0].active = s.active
      /\ [s EXCEPT !.rx_buffer = Append(s.rx_buffer, r.data)].local_port = s.local_port
      /\ [s EXCEPT !.rx_buffer = Append(s.rx_buffer, r.data)].active = s.active
      /\ [s EXCEPT !.timeout = TRUE].local_port = s.local_port
      /\ [s EXCEPT !.timeout = TRUE].active = s.active
  BY DEF Socket, Called
<1> QED BY <1>1, <1>2 DEF Handled, Called

\* A socket is created: one more of both.
LEMMA CreatePorts ==
  ASSUME TcpTypeInv, NEW h, NEW u, PortsInv(h, u), NEW n \in Nodes, socket_create(n)
  PROVE  PortsInv(h, u)'
<1>1. PICK fd \in Fds : ~sockets[n][fd].active /\ Store(n, fd, [Zeroed EXCEPT !.active = TRUE])
  BY DEF socket_create
<1>2. /\ created' = [created EXCEPT ![n] = created[n] + 1] /\ next_ephemeral_port' = next_ephemeral_port
      /\ created \in [Nodes -> Nat]
  BY Bounds DEF socket_create, TcpTypeInv
<1>3. \A m \in Nodes, g \in Fds :
        sockets'[m][g] = IF m = n /\ g = fd THEN [Zeroed EXCEPT !.active = TRUE] ELSE sockets[m][g]
  BY <1>1, StoreChanges DEF Changes
<1>4. ASSUME NEW m \in Nodes
      PROVE  u[m] + Cardinality(Fresh(sockets', m)) <= created'[m]
  <2>1. /\ u[m] \in Nat /\ created[m] \in Nat /\ u[m] + Cardinality(Fresh(sockets, m)) <= created[m]
        /\ Cardinality(Fresh(sockets', m)) \in Nat /\ Cardinality(Fresh(sockets, m)) \in Nat
    BY <1>2, FreshFinite DEF PortsInv
  <2>2. CASE m = n
    <3>1. Fresh(sockets', m) = Fresh(sockets, m) \cup {fd} /\ fd \notin Fresh(sockets, m)
      BY <1>1, <1>3, <2>2 DEF Fresh, Zeroed
    <3>2. Cardinality(Fresh(sockets', m)) = Cardinality(Fresh(sockets, m)) + 1
      BY <3>1, FreshFinite, FS_AddElement
    <3>3. created'[m] = created[m] + 1
      BY <1>2, <2>2
    <3> QED BY <2>1, <3>2, <3>3
  <2>3. CASE m # n
    <3>1. Fresh(sockets', m) = Fresh(sockets, m) /\ created'[m] = created[m]
      BY <1>2, <1>3, <2>3 DEF Fresh
    <3> QED BY <2>1, <3>1
  <2> QED BY <2>2, <2>3
<1> QED BY <1>2, <1>4 DEF PortsInv

\* Every step but these two.
LEMMA OtherPorts ==
  ASSUME TcpTypeInv, NEW h, NEW u, PortsInv(h, u), NEW n \in Nodes,
         \/ \E to \in Servers : tcpip_ping(n, to)
         \/ \E fd \in Fds : \/ BindListen(n, fd) \/ socket_accept(n, fd) \/ socket_close(n, fd)
                            \/ socket_send(n, fd) \/ socket_recv(n, fd)
         \/ tcpip_poll(n) \/ tcpip_check_timeouts(n) \/ Network(n)
  PROVE  PortsInv(h, u)'
<1>1. ASSUME UNCHANGED <<sockets, next_ephemeral_port, created>>
      PROVE  PortsInv(h, u)'
  BY <1>1 DEF PortsInv, Fresh
<1>2. \A fd \in Fds : sockets[n][fd] \in Socket
  BY SocketFields DEF TcpTypeInv
<1>3. ASSUME NEW fd \in Fds, Store(n, fd, Zeroed), UNCHANGED <<next_ephemeral_port, created>>
      PROVE  PortsInv(h, u)'
  BY <1>3, StorePorts DEF Zeroed
<1>4. CASE \E to \in Servers : tcpip_ping(n, to)
  BY <1>1, <1>4 DEF tcpip_ping
<1>5. ASSUME NEW fd \in Fds, BindListen(n, fd)
      PROVE  PortsInv(h, u)'
  <2> DEFINE s2 == [sockets[n][fd] EXCEPT !.local_port = SERVER_PORT, !.state = "LISTEN"]
  <2>1. s2.local_port # 0 /\ Store(n, fd, s2) /\ UNCHANGED <<next_ephemeral_port, created>>
    BY <1>2, <1>5, PortFacts DEF BindListen, Socket
  <2> HIDE DEF s2
  <2> QED BY <2>1, StorePorts
<1>6. ASSUME NEW fd \in Fds, socket_accept(n, fd)
      PROVE  PortsInv(h, u)'
  <2> DEFINE s2 == [sockets[n][fd] EXCEPT !.state = "ESTABLISHED"]
  <2>1. /\ s2.local_port = sockets[n][fd].local_port /\ s2.active = sockets[n][fd].active
        /\ Store(n, fd, s2) /\ UNCHANGED <<next_ephemeral_port, created>>
    BY <1>2, <1>6 DEF socket_accept, Socket
  <2> HIDE DEF s2
  <2> QED BY <2>1, StorePorts
<1>7. ASSUME NEW fd \in Fds, socket_close(n, fd)
      PROVE  PortsInv(h, u)'
  <2> DEFINE s  == sockets[n][fd]
             s2 == [s EXCEPT !.state = IF s.state = "ESTABLISHED" THEN "FIN_WAIT_1" ELSE "LAST_ACK"]
  <2>1. s2.local_port = sockets[n][fd].local_port /\ s2.active = sockets[n][fd].active
    BY <1>2 DEF Socket
  <2>2. UNCHANGED <<next_ephemeral_port, created>> /\ (Store(n, fd, s2) \/ Store(n, fd, Zeroed))
    BY <1>7 DEF socket_close, Free
  <2> HIDE DEF s2
  <2> QED BY <1>3, <2>1, <2>2, StorePorts
<1>8. ASSUME NEW fd \in Fds, socket_send(n, fd)
      PROVE  PortsInv(h, u)'
  BY <1>1, <1>8 DEF socket_send
<1>9. ASSUME NEW fd \in Fds, socket_recv(n, fd)
      PROVE  PortsInv(h, u)'
  <2>1. PICK b : Store(n, fd, [sockets[n][fd] EXCEPT !.rx_buffer = b])
    BY <1>9 DEF socket_recv
  <2> DEFINE s2 == [sockets[n][fd] EXCEPT !.rx_buffer = b]
  <2>2. /\ s2.local_port = sockets[n][fd].local_port /\ s2.active = sockets[n][fd].active
        /\ Store(n, fd, s2) /\ UNCHANGED <<next_ephemeral_port, created>>
    BY <1>2, <1>9, <2>1 DEF socket_recv, Socket
  <2> HIDE DEF s2
  <2> QED BY <2>2, StorePorts
<1>10. CASE handle_arp(n)
  BY <1>1, <1>10 DEF handle_arp
<1>11. CASE handle_tcp(n)
  <2>1. Deliver(n, Head(wire[n]), Taken(n)) /\ UNCHANGED <<next_ephemeral_port, created>>
    BY <1>11 DEF handle_tcp
  <2>2. \/ UNCHANGED sockets
        \/ \E fd \in Fds : Store(n, fd, Zeroed) \/ Store(n, fd, Handled(sockets[n][fd], Head(wire[n])))
    BY <2>1, ReceiverFound DEF Deliver, Free
  <2>3. ASSUME NEW fd \in Fds, Store(n, fd, Handled(sockets[n][fd], Head(wire[n])))
        PROVE  PortsInv(h, u)'
    <3> DEFINE s2 == Handled(sockets[n][fd], Head(wire[n]))
    <3>1. s2.local_port = sockets[n][fd].local_port /\ s2.active = sockets[n][fd].active /\ Store(n, fd, s2)
      BY <1>2, <2>3, HandledEnd
    <3> HIDE DEF s2
    <3> QED BY <2>1, <3>1, StorePorts
  <2> QED BY <1>1, <1>3, <2>1, <2>2, <2>3
<1>12. CASE tcpip_check_timeouts(n)
  <2>1. UNCHANGED <<next_ephemeral_port, created>> /\ \E fd \in Fds : Store(n, fd, Zeroed)
    BY <1>12 DEF tcpip_check_timeouts, Free
  <2> QED BY <1>3, <2>1
<1>13. CASE Network(n)
  BY <1>1, <1>13 DEF Network, Lose, OtherArp, OtherReset
<1> QED BY <1>4, <1>5, <1>6, <1>7, <1>8, <1>9, <1>10, <1>11, <1>12, <1>13 DEF tcpip_poll

\* The next port has not been used, as there are no fewer than sockets.
LEMMA ConnectPorts ==
  ASSUME MAX_CREATED <= PORT_MOD - EPHEMERAL, TcpTypeInv, NEW h, NEW u, PortsInv(h, u),
         NEW n \in Nodes, NEW fd \in Fds, NEW to \in Servers, socket_connect(n, fd, to),
         NEW p, p = next_ephemeral_port[n], NEW h2, h2 = [h EXCEPT ![n][p] = to],
         NEW u2, u2 = [u EXCEPT ![n] = u[n] + 1]
  PROVE  p \in Ephemeral /\ h[n][p] = None /\ PortsInv(h2, u2)'
<1> DEFINE s2 == [sockets[n][fd] EXCEPT !.local_port = p, !.remote_ip = to, !.remote_port = SERVER_PORT,
                                        !.state = "SYN_SENT"]
<1>1. /\ sockets[n][fd].active /\ sockets[n][fd].local_port = 0
      /\ next_ephemeral_port' = [next_ephemeral_port EXCEPT ![n] = NextPort(p)]
      /\ created' = created /\ to \in Nodes
  BY TcpipAssumption DEF socket_connect
<1>2. Store(n, fd, s2) /\ sockets[n][fd] \in Socket
  BY SocketFields DEF socket_connect, Store, TcpTypeInv
<1>3. /\ EPHEMERAL \in Nat /\ PORT_MOD \in Nat /\ EPHEMERAL < PORT_MOD /\ EPHEMERAL > 0 /\ MAX_CREATED \in Nat
      /\ u[n] \in Nat /\ created[n] \in Nat /\ created[n] <= MAX_CREATED
      /\ next_ephemeral_port[n] \in EPHEMERAL..(PORT_MOD - 1) /\ u \in [Nodes -> Nat]
  BY TcpipAssumption DEF PortsInv, TcpTypeInv
<1>4. p \in Ephemeral /\ p # 0 /\ p \in Nat
  BY <1>3 DEF Ephemeral
<1>5. s2.local_port = p
  BY <1>2 DEF Socket
<1> HIDE DEF s2
<1>6. \A m \in Nodes, g \in Fds : sockets'[m][g] = IF m = n /\ g = fd THEN s2 ELSE sockets[m][g]
  BY <1>2, StoreChanges DEF Changes
<1>7. \A m \in Nodes : Fresh(sockets', m) = IF m = n THEN Fresh(sockets, m) \ {fd} ELSE Fresh(sockets, m)
  BY <1>4, <1>5, <1>6 DEF Fresh
<1>8. \A m \in Nodes : /\ u[m] \in Nat /\ created[m] \in Nat /\ u[m] + Cardinality(Fresh(sockets, m)) <= created[m]
                       /\ Cardinality(Fresh(sockets, m)) \in Nat
  BY Bounds, FreshFinite DEF PortsInv, TcpTypeInv
<1>9. fd \in Fresh(sockets, n)
  BY <1>1 DEF Fresh
<1>10. Cardinality(Fresh(sockets', n)) = Cardinality(Fresh(sockets, n)) - 1
  BY <1>7, <1>9, FreshFinite, FS_RemoveElement
<1>11. Cardinality(Fresh(sockets', n)) \in Nat
  BY FreshFinite
<1>12. u[n] + 1 <= MAX_CREATED
  BY <1>3, <1>8, <1>10, <1>11
<1>13. p = EPHEMERAL + u[n]
  <2>1. EPHEMERAL + u[n] < PORT_MOD
    BY <1>3, <1>12
  <2> QED BY <2>1 DEF PortsInv
<1>14. h[n][p] = None
  BY <1>3, <1>4, <1>13 DEF PortsInv
<1>15. HomeOK(h2) /\ u2 \in [Nodes -> Nat]
  <2>1. HomeOK(h)
    BY DEF PortsInv
  <2> QED BY <1>1, <1>3, <1>4, <2>1 DEF HomeOK
<1>16. \A m \in Nodes : /\ \A x \in Ephemeral : h2[m][x] = IF m = n /\ x = p THEN to ELSE h[m][x]
                        /\ u2[m] = IF m = n THEN u[n] + 1 ELSE u[m]
  <2>1. HomeOK(h)
    BY DEF PortsInv
  <2> QED BY <1>3, <1>4, <2>1 DEF HomeOK
<1>17. ASSUME NEW m \in Nodes, NEW x \in Ephemeral, h2[m][x] # None
       PROVE  x < EPHEMERAL + u2[m]
  <2>1. x \in Nat
    BY <1>3 DEF Ephemeral
  <2>2. CASE m = n /\ x = p
    BY <1>3, <1>13, <1>16, <2>2
  <2>3. CASE ~(m = n /\ x = p)
    <3>1. x < EPHEMERAL + u[m]
      BY <1>16, <1>17, <2>3 DEF PortsInv
    <3> QED BY <1>3, <1>8, <1>16, <2>1, <3>1
  <2> QED BY <2>2, <2>3
<1>18. ASSUME NEW m \in Nodes
       PROVE  u2[m] + Cardinality(Fresh(sockets', m)) <= created'[m]
  <2>1. CASE m = n
    BY <1>1, <1>8, <1>10, <1>11, <1>16, <2>1
  <2>2. CASE m # n
    BY <1>1, <1>7, <1>8, <1>16, <2>2
  <2> QED BY <2>1, <2>2
<1>19. ASSUME NEW m \in Nodes, EPHEMERAL + u2[m] < PORT_MOD
       PROVE  next_ephemeral_port'[m] = EPHEMERAL + u2[m]
  <2>1. CASE m = n
    <3>1. p + 1 < PORT_MOD /\ p + 1 >= EPHEMERAL /\ u2[m] = u[n] + 1
      BY <1>3, <1>13, <1>16, <1>19, <2>1
    <3>2. (p + 1) % PORT_MOD = p + 1
      BY <1>3, <1>4, <3>1
    <3>3. NextPort(p) = p + 1
      BY <1>3, <1>4, <3>1, <3>2 DEF NextPort
    <3>4. next_ephemeral_port'[m] = NextPort(p)
      BY <1>1, <2>1 DEF TcpTypeInv
    <3> QED BY <1>3, <1>13, <3>1, <3>3, <3>4
  <2>2. CASE m # n
    <3>1. u2[m] = u[m] /\ next_ephemeral_port'[m] = next_ephemeral_port[m]
      BY <1>1, <1>16, <2>2 DEF TcpTypeInv
    <3> QED BY <1>19, <3>1 DEF PortsInv
  <2> QED BY <2>1, <2>2
<1> QED BY <1>4, <1>14, <1>15, <1>17, <1>18, <1>19 DEF PortsInv

\* In h2 port p of node n leads to node to.
Leads(h, n, p, to, h2) == h2 = [h EXCEPT ![n][p] = to]

\* A connection nobody has heard of yet.
LEMMA NewHome ==
  ASSUME TcpTypeInv, NEW h, HomeOK(h), Conns(h), NEW n \in Nodes, NEW to \in Nodes,
         NEW p \in Ephemeral, h[n][p] = None, NEW h2, Leads(h, n, p, to, h2)
  PROVE  /\ HomeOK(h2) /\ Conns(h2) /\ h2[n][p] = to
         /\ Caller(sockets, n, p) = {} /\ Callee(sockets, to, n, p) = {}
         /\ \A F : ~HasUp(wire, to, n, p, F) /\ ~HasDown(wire, n, p, F)
         /\ \A fd \in Fds : sockets[n][fd].local_port # p
<1>1. HomeOK(h2) /\ \A x \in Nodes : \A y \in Ephemeral : h2[x][y] = IF x = n /\ y = p THEN to ELSE h[x][y]
  BY DEF HomeOK, Leads
<1>2. \A x \in Nodes : \A y \in Ephemeral : \A m \in Nodes : h[x][y] = m => h2[x][y] = m
  BY <1>1, PortFacts
<1>3. \A x \in Nodes : \A fd \in Fds : SocketInv(h, x, sockets[x][fd])
  BY DEF Conns, Locals, SocketsInv
<1>4. \A x \in Nodes : \A fd \in Fds : SocketInv(h2, x, sockets[x][fd])
  <2>1. ASSUME NEW x \in Nodes, NEW s, SocketInv(h, x, s)
        PROVE  SocketInv(h2, x, s)
    <3>1. Serves(h, x, s) => Serves(h2, x, s)
      BY <1>2 DEF Serves
    <3>2. Connects(h, x, s) => Connects(h2, x, s)
      BY <1>2 DEF Connects
    <3> QED BY <2>1, <3>1, <3>2 DEF SocketInv
  <2> QED BY <1>3, <2>1
<1>5. \A m \in Nodes : \A i \in DOMAIN wire[m] : PacketInv(h, abandoned, m, wire[m][i])
  BY DEF Conns, Locals, WireInv
<1>6. \A m \in Nodes : \A i \in DOMAIN wire[m] : PacketInv(h2, abandoned, m, wire[m][i])
  <2>1. ASSUME NEW m \in Nodes, NEW q, PacketInv(h, abandoned, m, q)
        PROVE  PacketInv(h2, abandoned, m, q)
    BY <1>2, <2>1 DEF PacketInv
  <2> QED BY <1>5, <2>1
<1>7. \A fd \in Fds : sockets[n][fd].local_port # p
  BY <1>3, PortFacts DEF SocketInv, Idle, Listens, Serves, Connects
<1>8. \A fd \in Fds : ~At(sockets[to][fd], n, p)
  BY <1>3, PortFacts DEF SocketInv, Idle, Listens, Serves, Connects, At
<1>9. Caller(sockets, n, p) = {} /\ Callee(sockets, to, n, p) = {}
  BY <1>7, <1>8, CallerNone, CalleeNone
<1>10. ASSUME NEW F
       PROVE  ~HasUp(wire, to, n, p, F) /\ ~HasDown(wire, n, p, F)
  <2>1. \A i \in DOMAIN wire[to] : ~Up(wire[to][i], n, p)
    BY <1>5, PortFacts DEF PacketInv, Up
  <2>2. \A i \in DOMAIN wire[n] : ~Down(wire[n][i], p)
    BY <1>5, PortFacts DEF PacketInv, Down
  <2> QED BY <2>1, <2>2 DEF HasUp, HasDown
<1>11. ConnInv({}, {}, wire, abandoned, n, p, to)
  <2>1. \A X : ~In({}, X)
    BY DEF In
  <2>2. \A i \in DOMAIN wire[to] : ~Up(wire[to][i], n, p)
    BY <1>5, PortFacts DEF PacketInv, Up
  <2> QED BY <1>10, <2>1, <2>2 DEF ConnInv, OnlySyn, FinHeard, FinLast, Answered, Live, FinFrom
<1>12. ConnsInv(h2, sockets, wire, abandoned)
  <2> SUFFICES ASSUME NEW x \in Nodes, NEW y \in Ephemeral, h2[x][y] # None
               PROVE  ConnInv(Caller(sockets, x, y), Callee(sockets, h2[x][y], x, y), wire, abandoned, x, y, h2[x][y])
    BY DEF ConnsInv
  <2>1. CASE x = n /\ y = p
    BY <1>1, <1>9, <1>11, <2>1
  <2>2. CASE ~(x = n /\ y = p)
    BY <1>1, <2>2 DEF Conns, ConnsInv
  <2> QED BY <2>1, <2>2
<1>13. Conns(h2)
  BY <1>4, <1>6, <1>12 DEF Conns, Locals, SocketsInv, WireInv
<1> QED BY <1>1, <1>7, <1>9, <1>10, <1>13

Calls(n, p) == p = next_ephemeral_port[n]

\* socket_connect makes a connection on a port never used before.
LEMMA ConnectConns ==
  ASSUME TcpTypeInv, NEW h, HomeOK(h), Conns(h), NEW n \in Nodes, NEW fd \in Fds, NEW to \in Servers,
         socket_connect(n, fd, to), NEW p \in Ephemeral, Calls(n, p), h[n][p] = None,
         NEW h2, Leads(h, n, p, to, h2)
  PROVE  Conns(h2)'
<1> DEFINE s0 == sockets[n][fd]
           s  == [s0 EXCEPT !.local_port = p, !.remote_ip = to, !.remote_port = SERVER_PORT]
           s2 == [s EXCEPT !.state = "SYN_SENT"]
           q  == Segment(n, s, {"SYN"}, NoUnit)
           S2 == sockets'
           w2 == wire'
<1>1. /\ s0.active /\ s0.state = "CLOSED" /\ s0.local_port = 0 /\ to \in Nodes
      /\ Store(n, fd, s2) /\ tcp_send_packet(wire, n, s, {"SYN"}, NoUnit) /\ UNCHANGED <<open, abandoned>>
  BY TcpipAssumption DEF socket_connect, Calls
<1>2. /\ HomeOK(h2) /\ Conns(h2) /\ h2[n][p] = to
      /\ Caller(sockets, n, p) = {} /\ Callee(sockets, to, n, p) = {}
      /\ \A F : ~HasUp(wire, to, n, p, F) /\ ~HasDown(wire, n, p, F)
      /\ \A g \in Fds : sockets[n][g].local_port # p
  BY <1>1, NewHome
<1>3. Idle(s0) /\ s0 \in Socket /\ s0.timeout = FALSE
  <2>1. Idle(s0) /\ s0 \in Socket /\ SocketInv(h, n, s0)
    BY <1>1, SocketKinds DEF Conns
  <2> QED BY <2>1 DEF SocketInv, Idle, Socket
<1>4. /\ s2.local_port = p /\ s2.remote_ip = to /\ s2.remote_port = SERVER_PORT /\ s2.state = "SYN_SENT"
      /\ s2.rx_buffer = <<>> /\ s2.timeout = FALSE /\ s2.active
      /\ s.local_port = p /\ s.remote_ip = to /\ s.remote_port = SERVER_PORT
  BY <1>1, <1>3 DEF Socket, Idle
<1>5. q.kind = "tcp" /\ q.from = n /\ q.sport = p /\ q.dport = SERVER_PORT /\ q.flags = {"SYN"} /\ q.data = NoUnit
  BY <1>4 DEF Segment
<1>6. Passes(wire, wire, w2, s.remote_ip, q)
  BY <1>1, SendPasses, SameThinner DEF TcpTypeInv
<1>7. PacketInv(h2, abandoned, to, q)
  <2>1. q.flags \in Syn /\ q.flags # {"RST"} /\ q.flags # {"PSH", "ACK"}
    BY <1>5 DEF Syn
  <2> QED BY <1>1, <1>2, <1>5, <2>1 DEF PacketInv
<1>8. Changes(sockets, S2, n, fd, s2)
  BY <1>1, StoreChanges
<1>9. Connects(h2, n, s2)
  BY <1>1, <1>2, <1>4 DEF Connects
<1> HIDE DEF s2, s, q
<1>10. Passes(wire, wire, w2, to, q)
  BY <1>4, <1>6
<1>11. WireOK(wire) /\ Thinner(wire, wire) /\ q.kind = "tcp" /\ Grown(wire, w2, to, q)
  BY <1>10 DEF Passes
<1> HIDE DEF w2
<1>12. \A i \in DOMAIN w2[to] : Up(w2[to][i], n, p) => i = Len(wire[to]) + 1 /\ w2[to][i].flags = {"SYN"}
  <2>1. \A i \in DOMAIN wire[to] : w2[to][i] = wire[to][i] /\ ~Up(wire[to][i], n, p)
    <3>1. \A i \in DOMAIN wire[to] : ~Up(wire[to][i], n, p)
      <4>1. \A i \in DOMAIN wire[to] : PacketInv(h, abandoned, to, wire[to][i])
        BY <1>1 DEF Conns, Locals, WireInv
      <4> QED BY <1>1, <4>1, PortFacts DEF PacketInv, Up
    <3> QED BY <1>1, <1>11, <3>1, GrownAt
  <2>2. \A i \in DOMAIN w2[to] : \/ i \in DOMAIN wire[to]
                                 \/ /\ i = Len(wire[to]) + 1
                                    /\ w2[to][i].kind = "arp" \/ (to = to /\ w2[to][i] = q)
    BY <1>1, <1>11, GrownAt
  <2> QED BY <1>5, <2>1, <2>2 DEF Up
<1>13. \A F : HasDown(w2, n, p, F) => F = F /\ FALSE
  <2> SUFFICES ASSUME NEW F
               PROVE  ~HasDown(w2, n, p, F)
    OBVIOUS
  <2>1. ~Down(q, p)
    BY <1>5, PortFacts DEF Down
  <2> QED BY <1>1, <1>2, <1>11, <2>1, GrowHas
<1>14. ConnInv({"SYN_SENT"}, {}, w2, abandoned, n, p, to)
  <2>1. \A X : ~In({}, X) /\ (In({"SYN_SENT"}, X) <=> "SYN_SENT" \in X)
    BY InOne
  <2>2. ~HasUp(w2, to, n, p, Fin) /\ ~HasUp(w2, to, n, p, Says)
    BY <1>12 DEF HasUp, Fin, Says
  <2>3. OnlySyn({"SYN_SENT"}, {}, w2, n, p, to)
    BY <1>12, <1>13, <2>1 DEF OnlySyn, Joined
  <2>4. FinLast({"SYN_SENT"}, {}, w2, n, p, to)
    BY <1>12, <2>2 DEF FinLast, Fin
  <2>5. FinHeard({"SYN_SENT"}, {}, w2, n, p, to) /\ FinFrom({"SYN_SENT"}, {}, w2, n, p, to)
    BY <2>1 DEF FinHeard, FinFrom
  <2>6. Answered({"SYN_SENT"}, {}, w2, n, p, to)
    BY <1>13, <2>1, <2>2 DEF Answered, Live
  <2> QED BY <2>3, <2>4, <2>5, <2>6 DEF ConnInv
<1>20. /\ \A x \in Nodes : \A y \in Ephemeral : ~Own(n, s0, x, y)
       /\ \A x \in Nodes : \A y \in Ephemeral : Own(n, s2, x, y) => x = n /\ y = p
  BY <1>1, <1>3, <1>4, PortFacts DEF Own, At, Idle
<1> HIDE DEF S2
<1>15. Caller(S2, n, p) = {"SYN_SENT"} /\ Callee(S2, to, n, p) = {}
  <2>1. \A x \in Nodes, g \in Fds : S2[x][g] = IF x = n /\ g = fd THEN s2 ELSE sockets[x][g]
    BY <1>8 DEF Changes
  <2>2. {g \in Fds : S2[n][g].local_port = p} = {fd} /\ S2[n][fd] = s2
    BY <1>2, <1>4, <2>1
  <2>3. Caller(S2, n, p) = {"SYN_SENT"}
    BY <1>4, <2>2 DEF Caller
  <2>4. ~At(s0, n, p) /\ ~At(s2, n, p)
    BY <1>1, <1>4, PortFacts DEF At
  <2>5. Callee(S2, to, n, p) = Callee(sockets, to, n, p)
    BY <1>1, <1>8, <2>4, CalleeKept
  <2> QED BY <1>2, <2>3, <2>5
<1>16. ConnsInv(h2, S2, w2, abandoned)
  <2>1. ASSUME NEW x \in Nodes, NEW y \in Ephemeral, h2[x][y] # None, Own(n, sockets[n][fd], x, y) \/ Own(n, s2, x, y)
        PROVE  ConnInv(Caller(S2, x, y), Callee(S2, h2[x][y], x, y), w2, abandoned, x, y, h2[x][y])
    BY <1>2, <1>14, <1>15, <1>20, <2>1
  <2>2. ASSUME NEW x \in Nodes, NEW y \in Ephemeral, h2[x][y] # None,
               ~Own(n, sockets[n][fd], x, y), ~Own(n, s2, x, y)
        PROVE  ~(to = h2[x][y] /\ Up(q, x, y)) /\ ~(to = x /\ Down(q, y))
    BY <1>4, <1>5, <2>2, PortFacts DEF Own, Up, Down
  <2>3. ConnsInv(h2, sockets, wire, abandoned)
    BY <1>2 DEF Conns
  <2> QED BY <1>2, <1>8, <1>11, <2>1, <2>2, <2>3, ConnsStep
<1>17. Locals(h2)'
  <2>1. SocketInv(h2, n, s2) /\ OfPeer(s2)
    BY <1>4, <1>9 DEF SocketInv, OfPeer
  <2>2. \A g \in Fds : sockets[n][g].local_port # s2.local_port
    BY <1>2, <1>4
  <2> QED BY <1>1, <1>2, <1>7, <1>8, <1>10, <2>1, <2>2, LocalStep DEF Conns, S2, w2
<1>18. OpenInv'
  <2>1. \A x \in Nodes : \A i \in open'[x] : i \in Fds /\ ((x = n /\ i = fd) \/ i \in open[x])
    BY <1>1 DEF TcpTypeInv
  <2> QED BY <1>4, <1>8, <2>1, OpenStep DEF Conns, S2
<1> QED BY <1>1, <1>16, <1>17, <1>18 DEF Conns, S2, w2

-----------------------------------------------------------------------------
(* The order of data.                                                        *)

\* Packets that leave do not disturb the order of data.
LEMMA StreamThin ==
  ASSUME NEW w, NEW w1, WireOK(w1), Thinner(w, w1), NEW m \in Nodes
  PROVE  /\ \A t : InStream(w, m, t) => InStream(w1, m, t)
         /\ \A b, l : Later(w, m, b, l) => Later(w1, m, b, l)
<1>1. PICK d \in Nat : \A i \in DOMAIN w1[m] : i + d \in DOMAIN w[m] /\ w1[m][i] = w[m][i + d]
  BY DEF Thinner
<1>2. \A i \in DOMAIN w1[m] : i \in Nat
  BY DEF WireOK
<1>3. ASSUME NEW t, InStream(w, m, t)
      PROVE  InStream(w1, m, t)
  <2>1. ASSUME NEW i \in DOMAIN w1[m], HasData(w1[m][i])
        PROVE  w1[m][i].data.k <= t
    BY <1>1, <1>3, <2>1 DEF InStream
  <2>2. ASSUME NEW i \in DOMAIN w1[m], NEW j \in DOMAIN w1[m], HasData(w1[m][i]), i < j, HasData(w1[m][j])
        PROVE  w1[m][i].data.k < w1[m][j].data.k
    <3>1. i + d < j + d
      BY <1>2, <2>2
    <3>2. i + d \in DOMAIN w[m] /\ w1[m][i] = w[m][i + d] /\ j + d \in DOMAIN w[m] /\ w1[m][j] = w[m][j + d]
      BY <1>1
    <3> QED BY <1>3, <2>2, <3>1, <3>2 DEF InStream
  <2> QED BY <2>1, <2>2 DEF InStream
<1>4. ASSUME NEW b, NEW l, Later(w, m, b, l)
      PROVE  Later(w1, m, b, l)
  BY <1>1, <1>4 DEF Later
<1> QED BY <1>3, <1>4

\* At most one unit joins, with the next number.
LEMMA StreamGrow ==
  ASSUME NEW w, WireOK(w), NEW w2, NEW to, NEW q, q.kind = "tcp", Grown(w, w2, to, q), NEW m \in Nodes,
         NEW t \in Nat, NEW t2 \in Nat, t <= t2, HasData(q) => q.data.k = t + 1 /\ t2 = t + 1,
         InStream(w, m, t)
  PROVE  /\ InStream(w2, m, t2)
         /\ \A b \in Seq(Unit) : \A l \in Nat : Later(w, m, b, l) /\ Rising(b, l, t) => Later(w2, m, b, l)
<1>1. /\ \A i \in DOMAIN w[m] : i \in Nat /\ i \in DOMAIN w2[m] /\ w2[m][i] = w[m][i]
      /\ \A i \in DOMAIN w2[m] : \/ i \in DOMAIN w[m]
                                 \/ /\ i = Len(w[m]) + 1
                                    /\ w2[m][i].kind = "arp" \/ (m = to /\ w2[m][i] = q)
  BY GrownAt
<1>2. \A i \in DOMAIN w2[m] : HasData(w2[m][i]) =>
        \/ i \in DOMAIN w[m] /\ w2[m][i] = w[m][i] /\ i <= Len(w[m])
        \/ i = Len(w[m]) + 1 /\ w2[m][i] = q /\ q.data.k = t + 1 /\ t2 = t + 1
  <2>1. \A i \in DOMAIN w[m] : i <= Len(w[m])
    BY DEF WireOK
  <2> QED BY <1>1, <2>1 DEF HasData
<1>3. \A i \in DOMAIN w[m] : HasData(w[m][i]) => w[m][i].data.k \in Nat /\ i \in Nat /\ Len(w[m]) \in Nat
  <2>1. \A i \in DOMAIN w[m] : w[m][i] \in Packet /\ Len(w[m]) \in Nat
    BY DEF WireOK
  <2>2. \A x \in Packet : HasData(x) => x.data.k \in Nat
    BY TcpipAssumption DEF Packet, ArpPacket, TcpPacket, HasData, Unit
  <2> QED BY <1>1, <2>1, <2>2
<1>4. InStream(w2, m, t2)
  <2>1. ASSUME NEW i \in DOMAIN w2[m], HasData(w2[m][i])
        PROVE  w2[m][i].data.k <= t2
    BY <1>2, <1>3, <2>1 DEF InStream
  <2>2. ASSUME NEW i \in DOMAIN w2[m], NEW j \in DOMAIN w2[m], HasData(w2[m][i]), i < j, HasData(w2[m][j])
        PROVE  w2[m][i].data.k < w2[m][j].data.k
    <3>1. CASE j \in DOMAIN w[m] /\ w2[m][j] = w[m][j] /\ j <= Len(w[m])
      <4>1. i \in DOMAIN w[m] /\ w2[m][i] = w[m][i]
        BY <1>2, <1>3, <2>2, <3>1
      <4> QED BY <2>2, <3>1, <4>1 DEF InStream
    <3>2. CASE j = Len(w[m]) + 1 /\ w2[m][j] = q /\ q.data.k = t + 1
      <4>1. i \in DOMAIN w[m] /\ w2[m][i] = w[m][i]
        BY <1>2, <2>2, <3>2
      <4>2. w[m][i].data.k <= t /\ w[m][i].data.k \in Nat
        BY <1>3, <2>2, <4>1 DEF InStream
      <4> QED BY <3>2, <4>1, <4>2
    <3> QED BY <1>2, <2>2, <3>1, <3>2
  <2> QED BY <2>1, <2>2 DEF InStream
<1>5. ASSUME NEW b \in Seq(Unit), NEW l \in Nat, Later(w, m, b, l), Rising(b, l, t)
      PROVE  Later(w2, m, b, l)
  <2> SUFFICES ASSUME NEW i \in DOMAIN w2[m], HasData(w2[m][i])
               PROVE  l < w2[m][i].data.k /\ \A j \in DOMAIN b : b[j].k < w2[m][i].data.k
    BY DEF Later
  <2>1. CASE i \in DOMAIN w[m] /\ w2[m][i] = w[m][i]
    BY <1>5, <2>1 DEF Later
  <2>2. CASE w2[m][i] = q /\ q.data.k = t + 1
    <3>1. l <= t /\ \A j \in DOMAIN b : b[j].k <= t /\ b[j].k > l
      BY <1>5 DEF Rising
    <3>2. \A j \in DOMAIN b : b[j].k \in Nat
      <4>1. \A j \in DOMAIN b : b[j] \in Unit
        OBVIOUS
      <4> QED BY <4>1, TcpipAssumption DEF Unit
    <3> QED BY <2>2, <3>1, <3>2
  <2> QED BY <1>2, <2>1, <2>2
<1> QED BY <1>4, <1>5

\* One buffer changes and a unit may be sent.
LEMMA OrderStep ==
  ASSUME TcpTypeInv, TcpTypeInv', OrderInv, NEW w1, NEW to, NEW q, Passes(wire, w1, wire', to, q),
         sent <= sent', HasData(q) => q.data.k = sent + 1 /\ sent' = sent + 1,
         NEW n \in Nodes, NEW fd \in Fds,
         \A m \in Nodes : \A g \in Fds : (m = n /\ g = fd)
            \/ (sockets'[m][g].rx_buffer = sockets[m][g].rx_buffer /\ last'[m][g] = last[m][g]),
         Later(w1, n, sockets'[n][fd].rx_buffer, last'[n][fd]),
         Rising(sockets'[n][fd].rx_buffer, last'[n][fd], sent)
  PROVE  OrderInv'
<1> DEFINE t == sent
           t2 == sent'
           w2 == wire'
<1>1. t \in Nat /\ t2 \in Nat /\ t <= t2 /\ (HasData(q) => q.data.k = t + 1 /\ t2 = t + 1)
  BY TcpipAssumption DEF TcpTypeInv
<1>2. WireOK(wire) /\ WireOK(w1) /\ Thinner(wire, w1) /\ q.kind = "tcp" /\ Grown(w1, w2, to, q)
  BY DEF Passes
<1> SUFFICES ASSUME NEW m \in Nodes
             PROVE  /\ InStream(w2, m, t2)
                    /\ \A g \in Fds : /\ Later(w2, m, sockets'[m][g].rx_buffer, last'[m][g])
                                      /\ Rising(sockets'[m][g].rx_buffer, last'[m][g], t2)
  BY DEF OrderInv
<1>3. InStream(wire, m, t) /\ \A g \in Fds : /\ Later(wire, m, sockets[m][g].rx_buffer, last[m][g])
                                             /\ Rising(sockets[m][g].rx_buffer, last[m][g], t)
  BY DEF OrderInv
<1>4. \A g \in Fds : last'[m][g] \in Nat /\ sockets'[m][g].rx_buffer \in Seq(Unit)
  BY TcpipAssumption DEF TcpTypeInv, SocketsOK, Socket
<1>9. Rising(sockets'[n][fd].rx_buffer, last'[n][fd], t)
  OBVIOUS
<1> HIDE DEF t, t2, w2
<1>5. InStream(w1, m, t) /\ \A b, l : Later(wire, m, b, l) => Later(w1, m, b, l)
  BY <1>2, <1>3, StreamThin
<1>6. InStream(w2, m, t2) /\ \A b \in Seq(Unit) : \A l \in Nat : Later(w1, m, b, l) /\ Rising(b, l, t) => Later(w2, m, b, l)
  BY <1>1, <1>2, <1>5, StreamGrow
<1>7. ASSUME NEW g \in Fds
      PROVE  Later(w2, m, sockets'[m][g].rx_buffer, last'[m][g]) /\ Rising(sockets'[m][g].rx_buffer, last'[m][g], t2)
  <2> DEFINE b == sockets'[m][g].rx_buffer
             l == last'[m][g]
  <2>1. Later(w1, m, b, l) /\ Rising(b, l, t) /\ l \in Nat /\ b \in Seq(Unit)
    <3>1. CASE m = n /\ g = fd
      BY <1>4, <1>9, <3>1
    <3>2. CASE b = sockets[m][g].rx_buffer /\ l = last[m][g]
      BY <1>3, <1>4, <1>5, <3>2
    <3> QED BY <3>1, <3>2
  <2> HIDE DEF b, l
  <2>2. Later(w2, m, b, l)
    BY <1>6, <2>1
  <2>3. Rising(b, l, t2)
    <3>1. \A i \in DOMAIN b : b[i].k \in Nat
      <4>1. \A i \in DOMAIN b : b[i] \in Unit
        BY <2>1
      <4> QED BY <4>1, TcpipAssumption DEF Unit
    <3> QED BY <1>1, <2>1, <3>1 DEF Rising
  <2> QED BY <2>2, <2>3 DEF b, l
<1> QED BY <1>6, <1>7

\* The buffer and the last unit of one socket stay, or start empty.
LEMMA OrderKept ==
  ASSUME TcpTypeInv, TcpTypeInv', OrderInv, NEW w1, NEW to, NEW q, Passes(wire, w1, wire', to, q),
         ~HasData(q), sent' = sent, NEW n \in Nodes, NEW fd \in Fds,
         \A m \in Nodes : \A g \in Fds : (m = n /\ g = fd)
            \/ (sockets'[m][g].rx_buffer = sockets[m][g].rx_buffer /\ last'[m][g] = last[m][g]),
         \/ /\ sockets'[n][fd].rx_buffer = sockets[n][fd].rx_buffer \/ sockets'[n][fd].rx_buffer = <<>>
            /\ last'[n][fd] = last[n][fd]
         \/ sockets'[n][fd].rx_buffer = <<>> /\ last'[n][fd] = 0
  PROVE  OrderInv'
<1> DEFINE b2 == sockets'[n][fd].rx_buffer
           l2 == last'[n][fd]
           b == sockets[n][fd].rx_buffer
           l == last[n][fd]
<1>1. /\ WireOK(w1) /\ Thinner(wire, w1) /\ sent \in Nat
  BY TcpipAssumption DEF Passes, TcpTypeInv
<1>2. Later(wire, n, b, l) /\ Rising(b, l, sent)
  BY DEF OrderInv
<1>3. \/ b2 = b /\ l2 = l
      \/ b2 = <<>> /\ l2 \in {0, l}
  OBVIOUS
<1>10. ASSUME Later(w1, n, b2, l2), Rising(b2, l2, sent)
       PROVE  OrderInv'
  <2>1. sent <= sent'
    BY <1>1
  <2> QED BY <1>10, <2>1, OrderStep
<1> HIDE DEF b, b2, l, l2
<1>4. Later(w1, n, b, l)
  BY <1>1, <1>2, StreamThin
<1>5. Later(w1, n, <<>>, 0) /\ Rising(<<>>, 0, sent)
  <2>1. \A x \in Packet : HasData(x) => 0 < x.data.k
    BY TcpipAssumption DEF Packet, ArpPacket, TcpPacket, HasData, Unit
  <2>2. \A i \in DOMAIN w1[n] : w1[n][i] \in Packet
    BY <1>1 DEF WireOK
  <2> QED BY <1>1, <2>1, <2>2 DEF Later, Rising
<1>6. Later(w1, n, <<>>, l) /\ Rising(<<>>, l, sent)
  BY <1>2, <1>4 DEF Later, Rising
<1>7. Later(w1, n, b2, l2) /\ Rising(b2, l2, sent)
  BY <1>2, <1>3, <1>4, <1>5, <1>6
<1> QED BY <1>7, <1>10

\* Steps that have nothing to do with data.
LEMMA OrderSame ==
  ASSUME TcpTypeInv, TcpTypeInv', OrderInv, NEW w1, NEW to, NEW q, Passes(wire, w1, wire', to, q),
         ~HasData(q), UNCHANGED <<sent, last, sockets>>, NEW n \in Nodes
  PROVE  OrderInv'
<1>1. 0 \in Fds
  BY Bounds DEF Fds
<1> QED BY <1>1, OrderKept

\* One socket is stored, with its buffer as it was or empty.
LEMMA OrderStore ==
  ASSUME TcpTypeInv, TcpTypeInv', OrderInv, NEW w1, NEW to, NEW q, Passes(wire, w1, wire', to, q),
         ~HasData(q), UNCHANGED <<sent, last>>, NEW n \in Nodes, NEW fd \in Fds, NEW s2, Store(n, fd, s2),
         s2.rx_buffer \in {<<>>, sockets[n][fd].rx_buffer}
  PROVE  OrderInv'
<1>1. \A m \in Nodes, g \in Fds : sockets'[m][g] = IF m = n /\ g = fd THEN s2 ELSE sockets[m][g]
  BY StoreChanges DEF Changes
<1>2. \A m \in Nodes : \A g \in Fds : (m = n /\ g = fd)
            \/ (sockets'[m][g].rx_buffer = sockets[m][g].rx_buffer /\ last'[m][g] = last[m][g])
  BY <1>1
<1>3. /\ sockets'[n][fd].rx_buffer = sockets[n][fd].rx_buffer \/ sockets'[n][fd].rx_buffer = <<>>
      /\ last'[n][fd] = last[n][fd]
  BY <1>1
<1> QED BY <1>2, <1>3, OrderKept

\* Segments without data.
LEMMA NoPacketData == ~HasData(NoPacket) /\ \A n, s, f : ~HasData(Segment(n, s, f, NoUnit))
<1>1. ~HasData(NoPacket)
  BY DEF HasData, NoPacket
<1> QED BY <1>1 DEF HasData, Segment

\* What is read goes from the buffer to the last unit.
LEMMA OrderRead ==
  ASSUME NEW b \in Seq(Unit), NEW len \in 1..Len(b), NEW l \in Nat, NEW t \in Nat, Rising(b, l, t)
  PROVE  /\ Rising(Rest(b, len), b[len].k, t)
         /\ \A w, m : Later(w, m, b, l) => Later(w, m, Rest(b, len), b[len].k)
<1> DEFINE b2 == Rest(b, len)
<1>1. Len(b) \in Nat /\ len \in DOMAIN b /\ DOMAIN b = 1..Len(b)
  OBVIOUS
<1>2. \A i \in DOMAIN b2 : i \in Nat /\ len + i \in DOMAIN b /\ b2[i] = b[len + i]
  <2>1. b2 = SubSeq(b, len + 1, Len(b))
    BY DEF Rest
  <2>2. DOMAIN b2 = 1..(Len(b) - len) /\ \A i \in 1..(Len(b) - len) : b2[i] = b[len + i]
    BY <1>1, <2>1
  <2> QED BY <1>1, <2>2
<1> HIDE DEF b2
<1>3. Rising(b2, b[len].k, t)
  <2>1. b[len].k <= t
    BY <1>1 DEF Rising
  <2>2. ASSUME NEW i \in DOMAIN b2
        PROVE  b2[i].k <= t /\ b2[i].k > b[len].k /\ \A j \in DOMAIN b2 : j < i => b2[j].k < b2[i].k
    <3>1. i \in Nat /\ len + i \in DOMAIN b /\ b2[i] = b[len + i] /\ i > 0
      <4>1. i # 0
        BY <1>1, <1>2 DEF b2, Rest
      <4> QED BY <1>2, <4>1
    <3>2. b[len + i].k <= t /\ \A j \in DOMAIN b : j < len + i => b[j].k < b[len + i].k
      BY <3>1 DEF Rising
    <3>3. b[len].k < b[len + i].k /\ b[len].k \in Nat /\ b[len + i].k \in Nat
      <4>1. b[len] \in Unit /\ b[len + i] \in Unit
        BY <1>1, <3>1
      <4>2. b[len].k \in Nat /\ b[len + i].k \in Nat
        <5>1. \A x \in Unit : x.k \in Nat
          BY TcpipAssumption DEF Unit
        <5> QED BY <4>1, <5>1
      <4>3. len < len + i
        BY <1>1, <3>1
      <4> QED BY <1>1, <3>2, <4>2, <4>3
    <3>4. ASSUME NEW j \in DOMAIN b2, j < i
          PROVE  b2[j].k < b2[i].k
      <4>1. len + j \in DOMAIN b /\ b2[j] = b[len + j] /\ len + j < len + i
        BY <1>1, <1>2, <3>1, <3>4
      <4> QED BY <3>1, <3>2, <4>1
    <3> QED BY <3>1, <3>2, <3>3, <3>4
  <2> QED BY <2>1, <2>2 DEF Rising
<1>4. ASSUME NEW w, NEW m, Later(w, m, b, l)
      PROVE  Later(w, m, b2, b[len].k)
  BY <1>1, <1>2, <1>4 DEF Later
<1> QED BY <1>3, <1>4 DEF b2

\* A unit goes from the head of the wire to the end of the buffer.
LEMMA OrderAppend ==
  ASSUME TcpTypeInv, NEW n \in Nodes, wire[n] # <<>>, HasData(Head(wire[n])), NEW b \in Seq(Unit),
         NEW l \in Nat, InStream(wire, n, sent), Later(wire, n, b, l), Rising(b, l, sent)
  PROVE  /\ Later(Taken(n), n, Append(b, Head(wire[n]).data), l)
         /\ Rising(Append(b, Head(wire[n]).data), l, sent)
<1> DEFINE x  == Head(wire[n]).data
           b2 == Append(b, x)
           w1 == Taken(n)
<1>1. wire[n] \in Seq(Packet) /\ 1 \in DOMAIN wire[n] /\ Head(wire[n]) = wire[n][1] /\ sent \in Nat
  <2>1. wire[n] \in Seq(Packet)
    BY DEF TcpTypeInv, WireOK
  <2>2. sent \in Nat
    BY TcpipAssumption DEF TcpTypeInv
  <2> QED BY <2>1, <2>2
<1>2. \A i \in DOMAIN w1[n] : i \in Nat /\ 1 < i + 1 /\ i + 1 \in DOMAIN wire[n] /\ w1[n][i] = wire[n][i + 1]
  <2>1. w1[n] = Tail(wire[n])
    BY DEF Taken, TcpTypeInv, WireOK
  <2> QED BY <1>1, <2>1
<1>3. /\ x.k <= sent /\ l < x.k /\ \A j \in DOMAIN b : b[j].k < x.k
      /\ \A i \in DOMAIN wire[n] : 1 < i /\ HasData(wire[n][i]) => x.k < wire[n][i].data.k
  <2>1. HasData(wire[n][1]) /\ x = wire[n][1].data
    BY <1>1
  <2>2. x.k <= sent /\ \A i \in DOMAIN wire[n] : 1 < i /\ HasData(wire[n][i]) => x.k < wire[n][i].data.k
    BY <1>1, <2>1 DEF InStream
  <2>3. l < x.k /\ \A j \in DOMAIN b : b[j].k < x.k
    BY <1>1, <2>1 DEF Later
  <2> QED BY <2>2, <2>3
<1>4. /\ \A j \in DOMAIN b2 : j \in Nat /\ ((j \in DOMAIN b /\ b2[j] = b[j]) \/ (j = Len(b) + 1 /\ b2[j] = x))
      /\ \A j \in DOMAIN b : j <= Len(b) /\ j \in Nat
      /\ Len(b) \in Nat
  <2>1. DOMAIN b2 = 1..(Len(b) + 1) /\ (\A j \in 1..Len(b) : b2[j] = b[j]) /\ b2[Len(b) + 1] = x /\ Len(b) \in Nat
        /\ DOMAIN b = 1..Len(b)
    OBVIOUS
  <2> HIDE DEF b2
  <2> QED BY <2>1
<1> HIDE DEF w1, b2, x
<1>5. Later(w1, n, b2, l)
  <2> SUFFICES ASSUME NEW i \in DOMAIN w1[n], HasData(w1[n][i])
               PROVE  l < w1[n][i].data.k /\ \A j \in DOMAIN b2 : b2[j].k < w1[n][i].data.k
    BY DEF Later
  <2>1. i + 1 \in DOMAIN wire[n] /\ w1[n][i] = wire[n][i + 1] /\ HasData(wire[n][i + 1]) /\ 1 < i + 1
    BY <1>2
  <2>2. l < wire[n][i + 1].data.k /\ \A j \in DOMAIN b : b[j].k < wire[n][i + 1].data.k
    BY <2>1 DEF Later
  <2>3. x.k < wire[n][i + 1].data.k
    BY <1>3, <2>1
  <2> QED BY <1>4, <2>1, <2>2, <2>3
<1>6. Rising(b2, l, sent)
  <2> SUFFICES ASSUME NEW i \in DOMAIN b2
               PROVE  b2[i].k <= sent /\ b2[i].k > l /\ \A j \in DOMAIN b2 : j < i => b2[j].k < b2[i].k
    BY DEF Rising
  <2>1. CASE i \in DOMAIN b /\ b2[i] = b[i]
    <3>1. b[i].k <= sent /\ b[i].k > l /\ \A j \in DOMAIN b : j < i => b[j].k < b[i].k
      BY <2>1 DEF Rising
    <3>2. \A j \in DOMAIN b2 : j < i => j \in DOMAIN b /\ b2[j] = b[j]
      BY <1>4, <2>1
    <3> QED BY <2>1, <3>1, <3>2
  <2>2. CASE i = Len(b) + 1 /\ b2[i] = x
    <3>1. \A j \in DOMAIN b2 : j < i => j \in DOMAIN b /\ b2[j] = b[j]
      BY <1>4, <2>2
    <3>2. x.k > l
      <4>1. x.k \in Nat
        <5>1. wire[n][1] \in Packet /\ x = wire[n][1].data /\ HasData(wire[n][1])
          BY <1>1 DEF x
        <5>2. \A y \in Packet : HasData(y) => y.data.k \in Nat
          BY TcpipAssumption DEF Packet, ArpPacket, TcpPacket, HasData, Unit
        <5> QED BY <5>1, <5>2
      <4> QED BY <1>3, <4>1
    <3> QED BY <1>3, <2>2, <3>1, <3>2
  <2> QED BY <1>4, <2>1, <2>2
<1> QED BY <1>5, <1>6 DEF w1, b2, x

\* A segment adds its unit to the buffer, or nothing.
LEMMA HandledBuffer ==
  ASSUME NEW s \in Socket, NEW r
  PROVE  \/ Handled(s, r).rx_buffer = s.rx_buffer
         \/ Handled(s, r).rx_buffer = Append(s.rx_buffer, r.data) /\ r.data # NoUnit /\ Answer(s, r) = {}
<1>1. \A st : [s EXCEPT !.state = st].rx_buffer = s.rx_buffer
  BY DEF Socket
<1>2. /\ Called(s, r).rx_buffer = s.rx_buffer
      /\ [s EXCEPT !.state = "LISTEN", !.remote_ip = None, !.remote_port = 0].rx_buffer = s.rx_buffer
      /\ [s EXCEPT !.rx_buffer = Append(s.rx_buffer, r.data)].rx_buffer = Append(s.rx_buffer, r.data)
      /\ [s EXCEPT !.timeout = TRUE].rx_buffer = s.rx_buffer
  BY DEF Socket, Called
<1>3. s.state = "ESTABLISHED" /\ "FIN" \notin r.flags => Answer(s, r) = {}
  BY DEF Answer, AcksFin
<1> QED BY <1>1, <1>2, <1>3 DEF Handled, Called

\* handle_tcp appends the unit behind what is unread.
LEMMA OrderHandle ==
  ASSUME TcpTypeInv, TcpTypeInv', OrderInv, NEW n \in Nodes, handle_tcp(n)
  PROVE  OrderInv'
<1> DEFINE r  == Head(wire[n])
           w1 == Taken(n)
<1>1. /\ wire[n] # <<>> /\ r.kind = "tcp" /\ Deliver(n, r, w1) /\ UNCHANGED <<sent, last>>
      /\ sent \in Nat
  BY TcpipAssumption DEF handle_tcp, Arrives, TcpTypeInv
<1>2. Passes(wire, w1, w1, None, NoPacket)
  BY <1>1, PassTaken
<1>3. ASSUME Quiet(w1), UNCHANGED sockets
      PROVE  OrderInv'
  <2>1. Passes(wire, w1, wire', None, NoPacket)
    BY <1>2, <1>3 DEF Quiet
  <2> QED BY <1>1, <1>3, <2>1, NoPacketData, OrderSame
<1>4. CASE Receiver(n, r.dport) = {}
  BY <1>1, <1>3, <1>4 DEF Deliver
<1>5. ASSUME NEW fd \in Receiver(n, r.dport),
             LET s == sockets[n][fd] IN
               IF Ends(s, r)
               THEN Free(n, fd) /\ Quiet(w1)
               ELSE /\ Store(n, fd, Handled(s, r))
                    /\ IF Answer(s, r) = {} THEN Quiet(w1)
                       ELSE tcp_send_packet(w1, n, Handled(s, r), Answer(s, r), NoUnit)
      PROVE  OrderInv'
  <2> DEFINE s == sockets[n][fd]
             b == s.rx_buffer
             s2 == Handled(s, r)
  <2>1. fd \in Fds /\ s \in Socket /\ b \in Seq(Unit)
    BY <1>5, SocketFields DEF Receiver, TcpTypeInv
  <2>2. ASSUME NEW t2, Store(n, fd, t2), t2.rx_buffer \in {<<>>, b},
               NEW to, NEW q, Passes(wire, w1, wire', to, q), ~HasData(q)
        PROVE  OrderInv'
    BY <1>1, <2>1, <2>2, OrderStore
  <2>3. CASE Ends(s, r)
    <3>1. Store(n, fd, Zeroed) /\ Zeroed.rx_buffer \in {<<>>, b} /\ Passes(wire, w1, wire', None, NoPacket)
      BY <1>2, <1>5, <2>3 DEF Free, Quiet, Zeroed
    <3> QED BY <2>2, <3>1, NoPacketData
  <2>4. CASE ~Ends(s, r)
    <3>1. Store(n, fd, s2) /\ IF Answer(s, r) = {} THEN Quiet(w1) ELSE tcp_send_packet(w1, n, s2, Answer(s, r), NoUnit)
      BY <1>5, <2>4
    <3>2. \/ s2.rx_buffer = b
          \/ s2.rx_buffer = Append(b, r.data) /\ r.data # NoUnit /\ Answer(s, r) = {}
      BY <2>1, HandledBuffer
    <3> HIDE DEF s2
    <3>3. CASE s2.rx_buffer = b
      <4>1. \E to, q : Passes(wire, w1, wire', to, q) /\ ~HasData(q)
        <5>1. CASE Quiet(w1)
          BY <1>2, <5>1, NoPacketData DEF Quiet
        <5>2. CASE tcp_send_packet(w1, n, s2, Answer(s, r), NoUnit)
          <6>1. WireOK(wire) /\ WireOK(w1) /\ Thinner(wire, w1)
            BY <1>2 DEF Passes
          <6> QED BY <5>2, <6>1, SendPasses, NoPacketData
        <5> QED BY <3>1, <5>1, <5>2
      <4> QED BY <2>2, <3>1, <3>3, <4>1
    <3>4. CASE s2.rx_buffer = Append(b, r.data) /\ r.data # NoUnit /\ Answer(s, r) = {}
      <4>1. HasData(r) /\ Passes(wire, w1, wire', None, NoPacket)
        BY <1>1, <1>2, <3>1, <3>4 DEF HasData, Quiet
      <4>2. /\ InStream(wire, n, sent) /\ Later(wire, n, b, last[n][fd]) /\ Rising(b, last[n][fd], sent)
            /\ last[n][fd] \in Nat
        BY <2>1, TcpipAssumption DEF OrderInv, TcpTypeInv
      <4>3. Later(w1, n, Append(b, r.data), last[n][fd]) /\ Rising(Append(b, r.data), last[n][fd], sent)
        BY <1>1, <2>1, <4>1, <4>2, OrderAppend
      <4>4. \A m \in Nodes, g \in Fds : sockets'[m][g] = IF m = n /\ g = fd THEN s2 ELSE sockets[m][g]
        BY <2>1, <3>1, StoreChanges DEF Changes
      <4>5. \A m \in Nodes : \A g \in Fds : (m = n /\ g = fd)
              \/ (sockets'[m][g].rx_buffer = sockets[m][g].rx_buffer /\ last'[m][g] = last[m][g])
        BY <1>1, <4>4
      <4>6. Later(w1, n, sockets'[n][fd].rx_buffer, last'[n][fd]) /\ Rising(sockets'[n][fd].rx_buffer, last'[n][fd], sent)
        BY <1>1, <2>1, <3>4, <4>3, <4>4
      <4>7. sent <= sent' /\ ~HasData(NoPacket)
        BY <1>1, NoPacketData
      <4> QED BY <2>1, <4>1, <4>5, <4>6, <4>7, OrderStep
    <3> QED BY <3>2, <3>3, <3>4
  <2> QED BY <2>3, <2>4
<1> QED BY <1>1, <1>4, <1>5 DEF Deliver

\* socket_create starts with an empty buffer.
LEMMA OrderCreate ==
  ASSUME TcpTypeInv, TcpTypeInv', OrderInv, NEW n \in Nodes, socket_create(n)
  PROVE  OrderInv'
<1> DEFINE s2 == [Zeroed EXCEPT !.active = TRUE]
<1>1. PICK fd \in Fds : Store(n, fd, s2) /\ last' = [last EXCEPT ![n][fd] = 0]
  BY DEF socket_create
<1>2. sent' = sent /\ Passes(wire, wire, wire', None, NoPacket)
  BY PassNone DEF socket_create, TcpTypeInv
<1>3. s2.rx_buffer = <<>>
  BY DEF Zeroed
<1> HIDE DEF s2
<1>4. \A m \in Nodes, g \in Fds : sockets'[m][g] = IF m = n /\ g = fd THEN s2 ELSE sockets[m][g]
  BY <1>1, StoreChanges DEF Changes
<1>5. \A m \in Nodes, g \in Fds : last'[m][g] = IF m = n /\ g = fd THEN 0 ELSE last[m][g]
  BY <1>1 DEF TcpTypeInv
<1>6. \A m \in Nodes : \A g \in Fds : (m = n /\ g = fd)
        \/ (sockets'[m][g].rx_buffer = sockets[m][g].rx_buffer /\ last'[m][g] = last[m][g])
  BY <1>4, <1>5
<1>7. sockets'[n][fd].rx_buffer = <<>> /\ last'[n][fd] = 0
  BY <1>3, <1>4, <1>5
<1> QED BY <1>2, <1>6, <1>7, NoPacketData, OrderKept

\* socket_send numbers the units.
LEMMA OrderSend ==
  ASSUME TcpTypeInv, TcpTypeInv', OrderInv, NEW n \in Nodes, NEW fd \in Fds, socket_send(n, fd)
  PROVE  OrderInv'
<1> DEFINE s == sockets[n][fd]
           u == [from |-> n, port |-> s.local_port, k |-> sent + 1]
           q == Segment(n, s, {"PSH", "ACK"}, u)
<1>1. /\ wire' = Sent(wire, n, s.remote_ip, q) /\ UNCHANGED <<sockets, last>>
      /\ sent' = IF arp_lookup(n, s.remote_ip) THEN sent + 1 ELSE sent
  BY DEF socket_send, tcp_send_packet
<1>2. sent \in Nat /\ WireOK(wire)
  BY TcpipAssumption DEF TcpTypeInv
<1>3. q.kind = "tcp" /\ q.data.k = sent + 1
  BY DEF Segment
<1> HIDE DEF q
<1>4. CASE arp_lookup(n, s.remote_ip)
  <2>1. Passes(wire, wire, wire', s.remote_ip, q) /\ sent' = sent + 1
    BY <1>1, <1>2, <1>3, <1>4, SentGrown, SameThinner DEF Passes
  <2>2. Later(wire, n, sockets'[n][fd].rx_buffer, last'[n][fd]) /\ Rising(sockets'[n][fd].rx_buffer, last'[n][fd], sent)
    BY <1>1 DEF OrderInv
  <2>3. \A m \in Nodes : \A g \in Fds : (m = n /\ g = fd)
          \/ (sockets'[m][g].rx_buffer = sockets[m][g].rx_buffer /\ last'[m][g] = last[m][g])
    BY <1>1
  <2>4. sent <= sent' /\ (HasData(q) => q.data.k = sent + 1 /\ sent' = sent + 1)
    BY <1>2, <1>3, <2>1
  <2> QED BY <2>1, <2>2, <2>3, <2>4, OrderStep
<1>5. CASE ~arp_lookup(n, s.remote_ip)
  <2>1. wire' = arp_request(wire, n, s.remote_ip) /\ sent' = sent
    BY <1>1, <1>5 DEF Sent
  <2>2. NoPacket.kind = "tcp"
    BY DEF NoPacket
  <2>3. Passes(wire, wire, wire', None, NoPacket)
    BY <1>2, <2>1, <2>2, SentGrown, SameThinner DEF Passes
  <2> QED BY <1>1, <2>1, <2>3, NoPacketData, OrderSame
<1> QED BY <1>4, <1>5

\* socket_recv reads any part of the buffer.
LEMMA OrderRecv ==
  ASSUME TcpTypeInv, TcpTypeInv', OrderInv, NEW n \in Nodes, NEW fd \in Fds, socket_recv(n, fd)
  PROVE  OrderInv'
<1> DEFINE s == sockets[n][fd]
           b == s.rx_buffer
           l == last[n][fd]
<1>1. PICK len \in 1..Len(b) : /\ Store(n, fd, [s EXCEPT !.rx_buffer = Rest(b, len)])
                               /\ last' = [last EXCEPT ![n][fd] = b[len].k]
  BY DEF socket_recv
<1> DEFINE b2 == Rest(b, len)
           s2 == [s EXCEPT !.rx_buffer = b2]
<1>2. /\ s \in Socket /\ b \in Seq(Unit) /\ l \in Nat /\ sent \in Nat /\ sent' = sent
      /\ Passes(wire, wire, wire', None, NoPacket)
  <2>1. s \in Socket /\ b \in Seq(Unit)
    BY SocketFields DEF TcpTypeInv
  <2>2. l \in Nat /\ sent \in Nat
    BY TcpipAssumption DEF TcpTypeInv
  <2> QED BY <2>1, <2>2, PassNone DEF socket_recv, TcpTypeInv
<1>3. Store(n, fd, s2) /\ s2.rx_buffer = b2
  BY <1>1, <1>2 DEF Socket
<1>4. Later(wire, n, b, l) /\ Rising(b, l, sent)
  BY DEF OrderInv
<1> HIDE DEF s2, b2, l
<1>5. \A m \in Nodes, g \in Fds : sockets'[m][g] = IF m = n /\ g = fd THEN s2 ELSE sockets[m][g]
  BY <1>3, StoreChanges DEF Changes
<1>6. \A m \in Nodes, g \in Fds : last'[m][g] = IF m = n /\ g = fd THEN b[len].k ELSE last[m][g]
  BY <1>1 DEF TcpTypeInv
<1>7. Rising(b2, b[len].k, sent) /\ Later(wire, n, b2, b[len].k)
  BY <1>1, <1>2, <1>4, OrderRead DEF b2
<1>8. /\ Later(wire, n, sockets'[n][fd].rx_buffer, last'[n][fd])
      /\ Rising(sockets'[n][fd].rx_buffer, last'[n][fd], sent)
  BY <1>3, <1>5, <1>6, <1>7
<1>9. \A m \in Nodes : \A g \in Fds : (m = n /\ g = fd)
        \/ (sockets'[m][g].rx_buffer = sockets[m][g].rx_buffer /\ last'[m][g] = last[m][g])
  BY <1>5, <1>6
<1>10. sent <= sent' /\ ~HasData(NoPacket)
  BY <1>2, NoPacketData
<1> QED BY <1>2, <1>8, <1>9, <1>10, OrderStep

\* Binding, accepting, connecting, closing, timeouts.
LEMMA OrderStored ==
  ASSUME TcpTypeInv, TcpTypeInv', OrderInv, NEW n \in Nodes, NEW fd \in Fds,
         \/ BindListen(n, fd) \/ socket_accept(n, fd) \/ socket_close(n, fd)
         \/ \E to \in Servers : socket_connect(n, fd, to)
         \/ Free(n, fd) /\ UNCHANGED <<wire, sent, last>>
  PROVE  OrderInv'
<1> DEFINE s == sockets[n][fd]
<1>1. s \in Socket /\ WireOK(wire)
  BY SocketFields DEF TcpTypeInv
<1>2. Thinner(wire, wire) /\ Passes(wire, wire, wire, None, NoPacket)
  BY <1>1, SameThinner, PassNone
<1>3. \E s2 : Store(n, fd, s2) /\ s2.rx_buffer \in {<<>>, s.rx_buffer}
  <2>1. /\ [s EXCEPT !.local_port = SERVER_PORT, !.state = "LISTEN"].rx_buffer = s.rx_buffer
        /\ \A st : [s EXCEPT !.state = st].rx_buffer = s.rx_buffer
        /\ Zeroed.rx_buffer = <<>>
    BY <1>1 DEF Socket, Zeroed
  <2>2. CASE BindListen(n, fd)
    BY <2>1, <2>2 DEF BindListen
  <2>3. CASE socket_accept(n, fd)
    BY <2>1, <2>3 DEF socket_accept
  <2>4. CASE socket_close(n, fd)
    BY <2>1, <2>4 DEF socket_close, Free
  <2>5. CASE \E to \in Servers : socket_connect(n, fd, to)
    <3>1. PICK to \in Servers : socket_connect(n, fd, to)
      BY <2>5
    <3> DEFINE s2 == [[s EXCEPT !.local_port = next_ephemeral_port[n], !.remote_ip = to,
                                !.remote_port = SERVER_PORT] EXCEPT !.state = "SYN_SENT"]
    <3>2. Store(n, fd, s2)
      BY <3>1 DEF socket_connect
    <3>3. s2.rx_buffer = s.rx_buffer
      BY <1>1 DEF Socket
    <3> HIDE DEF s2
    <3> QED BY <3>2, <3>3
  <2>6. CASE Free(n, fd)
    BY <2>1, <2>6 DEF Free
  <2> QED BY <2>2, <2>3, <2>4, <2>5, <2>6
<1>4. UNCHANGED <<sent, last>>
  BY DEF BindListen, socket_accept, socket_close, socket_connect
<1>5. \/ wire' = wire
      \/ \E s2, f : tcp_send_packet(wire, n, s2, f, NoUnit)
  BY DEF BindListen, socket_accept, socket_close, socket_connect, Quiet
<1>6. \E to, q : Passes(wire, wire, wire', to, q) /\ ~HasData(q)
  <2>1. CASE wire' = wire
    BY <1>2, <2>1, NoPacketData
  <2>2. CASE \E s2, f : tcp_send_packet(wire, n, s2, f, NoUnit)
    BY <1>1, <1>2, <2>2, SendPasses, NoPacketData
  <2> QED BY <1>5, <2>1, <2>2
<1> QED BY <1>3, <1>4, <1>6, OrderStore

\* Every step keeps the order of data.
LEMMA OrderMove ==
  ASSUME TcpTypeInv, TcpTypeInv', OrderInv, Next
  PROVE  OrderInv'
<1>1. PICK n \in Nodes : Program(n) \/ tcpip_poll(n) \/ tcpip_check_timeouts(n) \/ Network(n)
  BY DEF Next
<1>2. CASE ArpSteps(n)
  BY <1>2, ArpPasses, NoPacketData, OrderSame
<1>3. CASE socket_create(n)
  BY <1>3, OrderCreate
<1>4. ASSUME NEW fd \in Fds, \/ BindListen(n, fd) \/ socket_accept(n, fd) \/ socket_close(n, fd)
                             \/ \E to \in Servers : socket_connect(n, fd, to)
      PROVE  OrderInv'
  BY <1>4, OrderStored
<1>5. ASSUME NEW fd \in Fds, socket_send(n, fd) \/ socket_recv(n, fd)
      PROVE  OrderInv'
  BY <1>5, OrderSend, OrderRecv
<1>6. CASE handle_tcp(n)
  BY <1>6, OrderHandle
<1>7. CASE tcpip_check_timeouts(n)
  <2>1. PICK fd \in Fds : Free(n, fd) /\ UNCHANGED <<wire, sent, last>>
    BY <1>7 DEF tcpip_check_timeouts
  <2> QED BY <2>1, OrderStored
<1>8. ASSUME NEW fd \in Fds, OtherReset(n, fd)
      PROVE  OrderInv'
  <2> DEFINE q == [kind |-> "tcp", from |-> sockets[n][fd].remote_ip, sport |-> sockets[n][fd].remote_port,
                   dport |-> sockets[n][fd].local_port, flags |-> {"RST"}, data |-> NoUnit]
  <2>1. wire' = Put(wire, n, q) /\ UNCHANGED <<sockets, sent, last>> /\ WireOK(wire)
    BY <1>8 DEF OtherReset, TcpTypeInv
  <2>2. q.kind = "tcp" /\ ~HasData(q)
    BY DEF HasData
  <2> HIDE DEF q
  <2>3. Passes(wire, wire, wire', n, q)
    BY <2>1, <2>2, SentGrown, SameThinner DEF Passes
  <2> QED BY <2>1, <2>2, <2>3, OrderSame
<1>9. CASE Program(n)
  BY <1>2, <1>3, <1>4, <1>5, <1>9 DEF Program, ArpSteps
<1>10. CASE tcpip_poll(n)
  BY <1>2, <1>6, <1>10 DEF tcpip_poll, ArpSteps
<1>11. CASE Network(n)
  BY <1>2, <1>8, <1>11 DEF Network, ArpSteps
<1> QED BY <1>1, <1>7, <1>9, <1>10, <1>11

-----------------------------------------------------------------------------
(* What an end in LAST_ACK waits for.                                        *)

\* No segment leaves the wire.
Stays(w, w2) == \A m \in Nodes : \A i \in DOMAIN w[m] : w[m][i].kind = "tcp" =>
  \E j \in DOMAIN w2[m] : w2[m][j] = w[m][i]

\* What is on the wire stays there.
LEMMA StaysHas ==
  ASSUME NEW w, NEW w2, Stays(w, w2), NEW m \in Nodes
  PROVE  /\ \A n, p, F : HasUp(w, m, n, p, F) => HasUp(w2, m, n, p, F)
         /\ \A p, F : HasDown(w, m, p, F) => HasDown(w2, m, p, F)
<1>1. ASSUME NEW n, NEW p, NEW F, HasUp(w, m, n, p, F)
      PROVE  HasUp(w2, m, n, p, F)
  <2>1. PICK i \in DOMAIN w[m] : Up(w[m][i], n, p) /\ w[m][i].flags \in F
    BY <1>1 DEF HasUp
  <2>2. w[m][i].kind = "tcp"
    BY <2>1 DEF Up
  <2>3. PICK j \in DOMAIN w2[m] : w2[m][j] = w[m][i]
    BY <2>2 DEF Stays
  <2>4. Up(w2[m][j], n, p) /\ w2[m][j].flags \in F
    BY <2>1, <2>3
  <2> QED BY <2>4 DEF HasUp
<1>2. ASSUME NEW p, NEW F, HasDown(w, m, p, F)
      PROVE  HasDown(w2, m, p, F)
  <2>1. PICK i \in DOMAIN w[m] : Down(w[m][i], p) /\ w[m][i].flags \in F
    BY <1>2 DEF HasDown
  <2>2. w[m][i].kind = "tcp"
    BY <2>1 DEF Down
  <2>3. PICK j \in DOMAIN w2[m] : w2[m][j] = w[m][i]
    BY <2>2 DEF Stays
  <2>4. Down(w2[m][j], p) /\ w2[m][j].flags \in F
    BY <2>1, <2>3
  <2> QED BY <2>4 DEF HasDown
<1> QED BY <1>1, <1>2

\* Sending takes nothing from the wire.
LEMMA GrownStays ==
  ASSUME NEW w, WireOK(w), NEW w2, NEW to, NEW q, q.kind = "tcp", Grown(w, w2, to, q)
  PROVE  Stays(w, w2)
<1>1. \A m \in Nodes : \A i \in DOMAIN w[m] : i \in DOMAIN w2[m] /\ w2[m][i] = w[m][i]
  BY GrownAt
<1> QED BY <1>1 DEF Stays

\* What stays when the head of a wire is taken.
LEMMA TakenStays ==
  ASSUME TcpTypeInv, NEW n \in Nodes, wire[n] # <<>>
  PROVE  \A m \in Nodes : \A i \in DOMAIN wire[m] :
           \/ m = n /\ wire[m][i] = Head(wire[n])
           \/ \E j \in DOMAIN Taken(n)[m] : Taken(n)[m][j] = wire[m][i]
<1>1. \A m \in Nodes : wire[m] \in Seq(Packet)
  BY DEF TcpTypeInv, WireOK
<1>2. \A m \in Nodes : Taken(n)[m] = IF m = n THEN Tail(wire[m]) ELSE wire[m]
  BY DEF Taken, TcpTypeInv, WireOK
<1>3. ASSUME NEW i \in DOMAIN wire[n]
      PROVE  wire[n][i] = Head(wire[n]) \/ \E j \in DOMAIN Taken(n)[n] : Taken(n)[n][j] = wire[n][i]
  <2>1. CASE i = 1
    BY <1>1, <2>1
  <2>2. CASE i # 1
    <3>1. i - 1 \in DOMAIN Tail(wire[n]) /\ Tail(wire[n])[i - 1] = wire[n][i]
      BY <1>1, <2>2
    <3> QED BY <1>2, <3>1
  <2> QED BY <2>1, <2>2
<1> QED BY <1>2, <1>3

\* Two such changes.
LEMMA StaysTwice ==
  ASSUME NEW w, NEW w1, NEW w2, Stays(w, w1), Stays(w1, w2)
  PROVE  Stays(w, w2)
<1> SUFFICES ASSUME NEW m \in Nodes, NEW i \in DOMAIN w[m], w[m][i].kind = "tcp"
             PROVE  \E j \in DOMAIN w2[m] : w2[m][j] = w[m][i]
  BY DEF Stays
<1>1. PICK j \in DOMAIN w1[m] : w1[m][j] = w[m][i]
  BY DEF Stays
<1>2. PICK g \in DOMAIN w2[m] : w2[m][g] = w1[m][j]
  BY <1>1 DEF Stays
<1> QED BY <1>1, <1>2

\* Without faults ARP and pings take no segment from the wire.
LEMMA ArpStays ==
  ASSUME TcpTypeInv, NEW n \in Nodes, ArpSteps(n), ~fault'
  PROVE  Stays(wire, wire')
<1>0. WireOK(wire) /\ NoPacket.kind = "tcp"
  BY DEF TcpTypeInv, NoPacket
<1>1. CASE \E to \in Servers : tcpip_ping(n, to)
  <2>1. PICK to : wire' = arp_request(wire, n, to)
    BY <1>1 DEF tcpip_ping, Quiet
  <2>2. Grown(wire, wire', None, NoPacket)
    BY <1>0, <2>1, SentGrown
  <2> QED BY <1>0, <2>2, GrownStays
<1>2. CASE handle_arp(n)
  <2>1. wire[n] # <<>> /\ Head(wire[n]).kind = "arp"
    BY <1>2 DEF handle_arp, Arrives
  <2>2. wire' = Taken(n) \/ \E x : wire' = Put(Taken(n), x, Arp("reply", n, x))
    BY <1>2 DEF handle_arp
  <2>3. Stays(wire, Taken(n))
    <3>1. ASSUME NEW m \in Nodes, NEW i \in DOMAIN wire[m], wire[m][i].kind = "tcp"
          PROVE  \E j \in DOMAIN Taken(n)[m] : Taken(n)[m][j] = wire[m][i]
      BY <2>1, <3>1, TakenStays
    <3> QED BY <3>1 DEF Stays
  <2>4. WireOK(Taken(n))
    BY <2>1, TakenOK
  <2>5. Stays(Taken(n), wire')
    <3>1. Grown(Taken(n), wire', None, NoPacket)
      BY <2>2, <2>4, ReplyGrown, SameThinner
    <3> QED BY <1>0, <2>4, <3>1, GrownStays
  <2> QED BY <2>3, <2>5, StaysTwice
<1>3. CASE Lose(n)
  BY <1>3 DEF Lose
<1>4. CASE \E x \in Others : OtherArp(n, x)
  BY <1>4 DEF OtherArp, Stays
<1> QED BY <1>1, <1>2, <1>3, <1>4 DEF ArpSteps

\* A socket that is not in LAST_ACK does not get there, nor out of Closers.
Keeps(s, s2) ==
  /\ s2.state = "LAST_ACK" => s.state = "LAST_ACK" /\ SameEnds(s, s2)
  /\ s.state \in Closers => s2.state \in Closers /\ SameEnds(s, s2)

\* So the ends that matter here stay.
LEMMA EndsKept ==
  ASSUME NEW S, NEW k \in Nodes, NEW fd \in Fds, NEW s2, NEW S2, Changes(S, S2, k, fd, s2),
         Keeps(S[k][fd], s2), NEW n \in Nodes, NEW m \in Nodes, NEW p
  PROVE  /\ In(Caller(S2, n, p), {"LAST_ACK"}) => In(Caller(S, n, p), {"LAST_ACK"})
         /\ In(Callee(S2, m, n, p), {"LAST_ACK"}) => In(Callee(S, m, n, p), {"LAST_ACK"})
         /\ In(Caller(S, n, p), Closers) => In(Caller(S2, n, p), Closers)
<1>1. \A x \in Nodes, g \in Fds : S2[x][g] = IF x = k /\ g = fd THEN s2 ELSE S[x][g]
  BY DEF Changes
<1>2. ASSUME NEW g \in Fds, S2[n][g].local_port = p, S2[n][g].state = "LAST_ACK"
      PROVE  S[n][g].local_port = p /\ S[n][g].state = "LAST_ACK"
  BY <1>1, <1>2 DEF Keeps, SameEnds
<1>3. ASSUME NEW g \in Fds, At(S2[m][g], n, p), S2[m][g].state = "LAST_ACK"
      PROVE  At(S[m][g], n, p) /\ S[m][g].state = "LAST_ACK"
  BY <1>1, <1>3 DEF Keeps, SameEnds, At
<1>4. ASSUME NEW g \in Fds, S[n][g].local_port = p, S[n][g].state \in Closers
      PROVE  S2[n][g].local_port = p /\ S2[n][g].state \in Closers
  BY <1>1, <1>4 DEF Keeps, SameEnds
<1>5. In(Caller(S2, n, p), {"LAST_ACK"}) => In(Caller(S, n, p), {"LAST_ACK"})
  BY <1>2 DEF In, Caller
<1>6. In(Callee(S2, m, n, p), {"LAST_ACK"}) => In(Callee(S, m, n, p), {"LAST_ACK"})
  BY <1>3 DEF In, Callee, At
<1>7. In(Caller(S, n, p), Closers) => In(Caller(S2, n, p), Closers)
  BY <1>4 DEF In, Caller
<1> QED BY <1>5, <1>6, <1>7

\* A change of a socket that does not concern closing.
LEMMA DuesKept ==
  ASSUME NEW h, HomeOK(h), NEW S, NEW w, DuesInv(h, S, w), NEW k \in Nodes, NEW fd \in Fds, NEW s2, NEW S2,
         Changes(S, S2, k, fd, s2), Keeps(S[k][fd], s2), NEW w2, Stays(w, w2)
  PROVE  DuesInv(h, S2, w2)
<1> SUFFICES ASSUME NEW n \in Nodes, NEW p \in Ephemeral, h[n][p] # None
             PROVE  DueInv(Caller(S2, n, p), Callee(S2, h[n][p], n, p), w2, n, p, h[n][p])
  BY DEF DuesInv
<1> DEFINE m == h[n][p]
           c == Caller(S, n, p)
           e == Callee(S, m, n, p)
           c2 == Caller(S2, n, p)
           e2 == Callee(S2, m, n, p)
<1>1. m \in Nodes /\ DueInv(c, e, w, n, p, m)
  BY DEF HomeOK, DuesInv
<1>2. /\ In(c2, {"LAST_ACK"}) => In(c, {"LAST_ACK"})
      /\ In(e2, {"LAST_ACK"}) => In(e, {"LAST_ACK"})
      /\ In(c, Closers) => In(c2, Closers)
  BY <1>1, EndsKept
<1> HIDE DEF m, c, e, c2, e2
<1>3. \A x \in Nodes : /\ \A y, z, F : HasUp(w, x, y, z, F) => HasUp(w2, x, y, z, F)
                       /\ \A z, F : HasDown(w, x, z, F) => HasDown(w2, x, z, F)
  BY StaysHas
<1>4. DueInv(c2, e2, w2, n, p, m)
  BY <1>1, <1>2, <1>3 DEF DueInv
<1> QED BY <1>4 DEF m, c2, e2

\* No socket changes and no segment leaves.
LEMMA DuesStay ==
  ASSUME NEW h, HomeOK(h), NEW S, NEW w, DuesInv(h, S, w), NEW w2, Stays(w, w2)
  PROVE  DuesInv(h, S, w2)
<1> SUFFICES ASSUME NEW n \in Nodes, NEW p \in Ephemeral, h[n][p] # None
             PROVE  DueInv(Caller(S, n, p), Callee(S, h[n][p], n, p), w2, n, p, h[n][p])
  BY DEF DuesInv
<1> DEFINE m == h[n][p]
           c == Caller(S, n, p)
           e == Callee(S, m, n, p)
<1>1. m \in Nodes /\ DueInv(c, e, w, n, p, m)
  BY DEF HomeOK, DuesInv
<1> HIDE DEF m, c, e
<1>2. \A x \in Nodes : /\ \A y, z, F : HasUp(w, x, y, z, F) => HasUp(w2, x, y, z, F)
                       /\ \A z, F : HasDown(w, x, z, F) => HasDown(w2, x, z, F)
  BY StaysHas
<1>3. DueInv(c, e, w2, n, p, m)
  BY <1>1, <1>2 DEF DueInv
<1> QED BY <1>3 DEF m, c, e

\* A segment that is not dropped is on the wire.
LEMMA SendReaches ==
  ASSUME NEW w, WireOK(w), NEW n \in Nodes, NEW s, NEW f, NEW u, tcp_send_packet(w, n, s, f, u),
         ~fault', s.remote_ip \in Nodes
  PROVE  /\ Stays(w, wire')
         /\ f # {"SYN"} => \E i \in DOMAIN wire'[s.remote_ip] : wire'[s.remote_ip][i] = Segment(n, s, f, u)
<1> DEFINE q == Segment(n, s, f, u)
           to == s.remote_ip
<1>1. wire' = Sent(w, n, to, q) /\ q.kind = "tcp"
  BY DEF tcp_send_packet, Segment
<1>2. f # {"SYN"} => arp_lookup(n, to) /\ ~(Len(w[to]) >= MAX_WIRE)
  BY DEF tcp_send_packet, Dropped
<1> HIDE DEF q
<1>3. Stays(w, wire')
  BY <1>1, SentGrown, GrownStays
<1>4. ASSUME f # {"SYN"}
      PROVE  \E i \in DOMAIN wire'[to] : wire'[to][i] = q
  <2>1. Len(w[to]) \in Nat /\ w[to] \in Seq(Packet) /\ MAX_WIRE \in Nat
    BY Bounds DEF WireOK
  <2>2. wire' = [w EXCEPT ![to] = Append(w[to], q)]
    BY <1>1, <1>2, <1>4, <2>1 DEF Sent, Put
  <2>3. wire'[to] = Append(w[to], q)
    BY <2>2 DEF WireOK
  <2>4. Len(w[to]) + 1 \in DOMAIN wire'[to] /\ wire'[to][Len(w[to]) + 1] = q
    BY <2>1, <2>3
  <2> QED BY <2>4
<1> QED BY <1>3, <1>4 DEF q

\* The steps that change nothing about LAST_ACK.
LEMMA DuesOther ==
  ASSUME TcpTypeInv, NEW h, HomeOK(h), Conns(h), DuesInv(h, sockets, wire), NEW n \in Nodes, ~fault', ~abandoned',
         \/ ArpSteps(n) \/ socket_create(n) \/ tcpip_check_timeouts(n)
         \/ \E fd \in Fds : \/ BindListen(n, fd) \/ socket_accept(n, fd) \/ socket_send(n, fd)
                            \/ socket_recv(n, fd) \/ OtherReset(n, fd)
                            \/ socket_close(n, fd) /\ sockets[n][fd].state # "CLOSE_WAIT"
  PROVE  DuesInv(h, sockets', wire')
<1>1. WireOK(wire) /\ Stays(wire, wire) /\ \A fd \in Fds : sockets[n][fd] \in Socket
  BY SocketFields DEF TcpTypeInv, Stays
<1>2. ASSUME NEW fd \in Fds, NEW s2, Store(n, fd, s2), Keeps(sockets[n][fd], s2), Stays(wire, wire')
      PROVE  DuesInv(h, sockets', wire')
  <2>1. Changes(sockets, sockets', n, fd, s2)
    BY <1>2, StoreChanges
  <2> QED BY <1>2, <2>1, DuesKept
<1>3. \A fd \in Fds : \A st \in {"LISTEN", "CLOSED", "ESTABLISHED", "FIN_WAIT_1"} : \A s2 :
        sockets[n][fd].state \notin Closers /\ s2.state = st => Keeps(sockets[n][fd], s2)
  BY DEF Keeps
<1>4. CASE ArpSteps(n)
  <2>1. sockets' = sockets /\ Stays(wire, wire')
    BY <1>4, ArpPasses, ArpStays
  <2> QED BY <2>1, DuesStay
<1>5. CASE socket_create(n)
  <2>1. PICK fd \in Fds : ~sockets[n][fd].active /\ Store(n, fd, [Zeroed EXCEPT !.active = TRUE])
    BY <1>5 DEF socket_create
  <2>2. wire' = wire /\ sockets[n][fd].state = "CLOSED" /\ [Zeroed EXCEPT !.active = TRUE].state = "CLOSED"
    BY <1>5, <2>1, SocketKinds DEF socket_create, Conns, Idle, Zeroed
  <2> QED BY <1>1, <1>2, <1>3, <2>1, <2>2 DEF Closers
<1>6. CASE tcpip_check_timeouts(n)
  <2>1. PICK fd \in Fds : sockets[n][fd].timeout /\ Store(n, fd, Zeroed)
    BY <1>6 DEF tcpip_check_timeouts, Free
  <2>2. wire' = wire /\ sockets[n][fd].state = "TIME_WAIT" /\ Zeroed.state = "CLOSED"
    BY <1>6, <2>1, SocketKinds DEF tcpip_check_timeouts, Conns, SocketInv, Zeroed
  <2> QED BY <1>1, <1>2, <1>3, <2>1, <2>2 DEF Closers
<1>7. ASSUME NEW fd \in Fds, BindListen(n, fd)
      PROVE  DuesInv(h, sockets', wire')
  <2> DEFINE s2 == [sockets[n][fd] EXCEPT !.local_port = SERVER_PORT, !.state = "LISTEN"]
  <2>1. sockets[n][fd].state = "CLOSED" /\ wire' = wire /\ Store(n, fd, s2) /\ s2.state = "LISTEN"
    BY <1>1, <1>7 DEF BindListen, Socket
  <2> HIDE DEF s2
  <2> QED BY <1>1, <1>2, <1>3, <2>1 DEF Closers
<1>8. ASSUME NEW fd \in Fds, socket_accept(n, fd)
      PROVE  DuesInv(h, sockets', wire')
  <2> DEFINE s2 == [sockets[n][fd] EXCEPT !.state = "ESTABLISHED"]
  <2>1. sockets[n][fd].state = "SYN_RECEIVED" /\ wire' = wire /\ Store(n, fd, s2) /\ s2.state = "ESTABLISHED"
    BY <1>1, <1>8 DEF socket_accept, Socket
  <2> HIDE DEF s2
  <2> QED BY <1>1, <1>2, <1>3, <2>1 DEF Closers
<1>9. ASSUME NEW fd \in Fds, socket_send(n, fd)
      PROVE  DuesInv(h, sockets', wire')
  <2> DEFINE s == sockets[n][fd]
             u == [from |-> n, port |-> s.local_port, k |-> sent + 1]
  <2>1. s.state = "ESTABLISHED" /\ sockets' = sockets /\ tcp_send_packet(wire, n, s, {"PSH", "ACK"}, u)
    BY <1>9 DEF socket_send
  <2>2. s.remote_ip \in Nodes
    BY <2>1, SocketKinds DEF Conns, Joined, Serves, Connects
  <2> HIDE DEF u
  <2> QED BY <1>1, <2>1, <2>2, SendReaches, DuesStay
<1>10. ASSUME NEW fd \in Fds, socket_recv(n, fd)
       PROVE  DuesInv(h, sockets', wire')
  <2>1. PICK b : Store(n, fd, [sockets[n][fd] EXCEPT !.rx_buffer = b]) /\ wire' = wire
    BY <1>10 DEF socket_recv
  <2> DEFINE s2 == [sockets[n][fd] EXCEPT !.rx_buffer = b]
  <2>2. s2.state = sockets[n][fd].state /\ SameEnds(sockets[n][fd], s2) /\ Store(n, fd, s2)
    BY <1>1, <2>1 DEF Socket, SameEnds
  <2> HIDE DEF s2
  <2> QED BY <1>1, <1>2, <2>1, <2>2 DEF Keeps
<1>11. ASSUME NEW fd \in Fds, socket_close(n, fd), sockets[n][fd].state # "CLOSE_WAIT"
       PROVE  DuesInv(h, sockets', wire')
  <2> DEFINE s == sockets[n][fd]
             s2 == [s EXCEPT !.state = IF s.state = "ESTABLISHED" THEN "FIN_WAIT_1" ELSE "LAST_ACK"]
  <2>1. s.state \notin Closers
    BY <1>11 DEF socket_close, Conns, OpenInv, Closers
  <2>2. CASE s.state \in ClosesByFin
    <3>1. s.state = "ESTABLISHED"
      BY <1>11, <2>2 DEF ClosesByFin
    <3>2. Store(n, fd, s2) /\ tcp_send_packet(wire, n, s, {"FIN", "ACK"}, NoUnit)
      BY <1>11, <2>2 DEF socket_close
    <3>3. s2.state = "FIN_WAIT_1"
      BY <1>1, <3>1 DEF Socket
    <3>4. s.remote_ip \in Nodes
      BY <3>1, SocketKinds DEF Conns, Joined, Serves, Connects
    <3> HIDE DEF s2
    <3>5. Stays(wire, wire')
      BY <1>1, <3>2, <3>4, SendReaches
    <3> QED BY <1>2, <1>3, <2>1, <3>2, <3>3, <3>5
  <2>3. CASE s.state \notin ClosesByFin
    <3>1. Store(n, fd, Zeroed) /\ wire' = wire /\ Zeroed.state = "CLOSED"
      BY <1>11, <2>3 DEF socket_close, Free, Quiet, Zeroed
    <3> QED BY <1>1, <1>2, <1>3, <2>1, <3>1
  <2> QED BY <2>2, <2>3
<1>12. ASSUME NEW fd \in Fds, OtherReset(n, fd)
       PROVE  DuesInv(h, sockets', wire')
  BY <1>12 DEF OtherReset
<1> QED BY <1>4, <1>5, <1>6, <1>7, <1>8, <1>9, <1>10, <1>11, <1>12

\* A connect makes a connection without ends in LAST_ACK.
LEMMA DuesConnect ==
  ASSUME TcpTypeInv, NEW h, HomeOK(h), Conns(h), DuesInv(h, sockets, wire), NEW n \in Nodes, NEW fd \in Fds,
         NEW to \in Servers, socket_connect(n, fd, to), ~fault',
         NEW p \in Ephemeral, h[n][p] = None, NEW h2, Leads(h, n, p, to, h2)
  PROVE  DuesInv(h2, sockets', wire')
<1> DEFINE s0 == sockets[n][fd]
           s  == [s0 EXCEPT !.local_port = next_ephemeral_port[n], !.remote_ip = to, !.remote_port = SERVER_PORT]
           s2 == [s EXCEPT !.state = "SYN_SENT"]
<1>1. /\ s.state = "CLOSED" /\ to \in Nodes /\ WireOK(wire) /\ s0 \in Socket
      /\ Store(n, fd, s2) /\ tcp_send_packet(wire, n, s, {"SYN"}, NoUnit)
  BY TcpipAssumption, SocketFields DEF socket_connect, TcpTypeInv
<1>2. s.remote_ip \in Nodes /\ s0.state = "CLOSED" /\ s2.state = "SYN_SENT"
  BY <1>1 DEF Socket
<1>3. Changes(sockets, sockets', n, fd, s2)
  BY <1>1, StoreChanges
<1> HIDE DEF s, s2
<1>4. Keeps(s0, s2) /\ Stays(wire, wire')
  BY <1>1, <1>2, SendReaches DEF Keeps, Closers
<1>5. /\ HomeOK(h2) /\ Caller(sockets, n, p) = {} /\ Callee(sockets, to, n, p) = {} /\ h2[n][p] = to
  BY <1>1, NewHome
<1>6. \A x \in Nodes : \A y \in Ephemeral : h2[x][y] = IF x = n /\ y = p THEN to ELSE h[x][y]
  BY DEF HomeOK, Leads
<1>7. DuesInv(h2, sockets, wire)
  <2> SUFFICES ASSUME NEW x \in Nodes, NEW y \in Ephemeral, h2[x][y] # None
               PROVE  DueInv(Caller(sockets, x, y), Callee(sockets, h2[x][y], x, y), wire, x, y, h2[x][y])
    BY DEF DuesInv
  <2>1. CASE x = n /\ y = p
    BY <1>5, <2>1 DEF DueInv, In
  <2>2. CASE ~(x = n /\ y = p)
    BY <1>6, <2>2 DEF DuesInv
  <2> QED BY <2>1, <2>2
<1> QED BY <1>3, <1>4, <1>5, <1>7, DuesKept

\* A passive close sends a FIN, and the other end waits for it.
LEMMA DuesClose ==
  ASSUME TcpTypeInv, NEW h, HomeOK(h), Conns(h), DuesInv(h, sockets, wire), NEW k \in Nodes, NEW fd \in Fds,
         ~fault', ~abandoned', socket_close(k, fd), sockets[k][fd].state = "CLOSE_WAIT"
  PROVE  DuesInv(h, sockets', wire')
<1> DEFINE s  == sockets[k][fd]
           s2 == [s EXCEPT !.state = "LAST_ACK"]
           q  == Segment(k, s, {"FIN", "ACK"}, NoUnit)
           w2 == wire'
           S2 == sockets'
<1>1. Store(k, fd, s2) /\ tcp_send_packet(wire, k, s, {"FIN", "ACK"}, NoUnit) /\ ~abandoned
  BY DEF socket_close, ClosesByFin
<1>2. s \in Socket /\ (Serves(h, k, s) \/ Connects(h, k, s)) /\ WireOK(wire)
  BY SocketKinds DEF Conns, Joined, TcpTypeInv
<1>3. s.remote_ip \in Nodes
  BY <1>2 DEF Serves, Connects
<1>4. Stays(wire, w2) /\ \E i \in DOMAIN w2[s.remote_ip] : w2[s.remote_ip][i] = q
  BY <1>1, <1>2, <1>3, SendReaches
<1>5. q.kind = "tcp" /\ q.from = k /\ q.sport = s.local_port /\ q.dport = s.remote_port /\ q.flags \in Fin
  BY DEF Segment, Fin
<1>6. \A x \in Nodes, g \in Fds : S2[x][g] = IF x = k /\ g = fd THEN s2 ELSE sockets[x][g]
  BY <1>1, StoreChanges DEF Changes
<1>7. SameEnds(s, s2)
  BY <1>2 DEF Socket, SameEnds
<1> HIDE DEF q, s2, w2, S2
<1>8. \A x \in Nodes : /\ \A y, z, F : HasUp(wire, x, y, z, F) => HasUp(w2, x, y, z, F)
                       /\ \A z, F : HasDown(wire, x, z, F) => HasDown(w2, x, z, F)
  BY <1>4, StaysHas
<1> SUFFICES ASSUME NEW n \in Nodes, NEW p \in Ephemeral, h[n][p] # None
             PROVE  DueInv(Caller(S2, n, p), Callee(S2, h[n][p], n, p), w2, n, p, h[n][p])
  BY DEF DuesInv, S2, w2
<1> DEFINE m == h[n][p]
           c == Caller(sockets, n, p)
           e == Callee(sockets, m, n, p)
           c2 == Caller(S2, n, p)
           e2 == Callee(S2, m, n, p)
<1>9. m \in Nodes /\ DueInv(c, e, wire, n, p, m) /\ ConnInv(c, e, wire, abandoned, n, p, m)
  BY DEF HomeOK, DuesInv, Conns, ConnsInv
<1>10. In(c, Closers) => In(c2, Closers)
  <2> SUFFICES ASSUME NEW g \in Fds, sockets[n][g].local_port = p, sockets[n][g].state \in Closers
               PROVE  S2[n][g].local_port = p /\ S2[n][g].state \in Closers
    BY DEF In, Caller
  <2>1. ~(n = k /\ g = fd)
    BY DEF Closers
  <2> QED BY <1>6, <2>1
<1>11. ASSUME In(c2, {"LAST_ACK"})
       PROVE  HasDown(w2, n, p, Acks) \/ HasUp(w2, m, n, p, Fin)
  <2>1. PICK g \in Fds : S2[n][g].local_port = p /\ S2[n][g].state = "LAST_ACK"
    BY <1>11 DEF In, Caller
  <2>2. CASE n = k /\ g = fd
    <3>1. s.local_port = p
      BY <1>6, <1>7, <2>1, <2>2 DEF SameEnds
    <3>2. Connects(h, k, s)
      BY <1>2, <3>1, PortFacts DEF Serves
    <3>3. s.remote_ip = m /\ s.remote_port = SERVER_PORT
      BY <2>2, <3>1, <3>2 DEF Connects
    <3>4. Up(q, n, p)
      BY <1>5, <2>2, <3>1, <3>3 DEF Up
    <3> QED BY <1>4, <1>5, <3>3, <3>4 DEF HasUp
  <2>3. CASE ~(n = k /\ g = fd)
    <3>1. In(c, {"LAST_ACK"})
      BY <1>6, <2>1, <2>3 DEF In, Caller
    <3> HIDE DEF c, e, m
    <3> QED BY <1>8, <1>9, <3>1 DEF DueInv
  <2> QED BY <2>2, <2>3
<1>12. ASSUME In(e2, {"LAST_ACK"})
       PROVE  HasDown(w2, m, SERVER_PORT, Acks) \/ (In(c2, Closers) /\ HasDown(w2, n, p, Fin))
  <2>1. PICK g \in Fds : At(S2[m][g], n, p) /\ S2[m][g].state = "LAST_ACK"
    BY <1>12 DEF In, Callee, At
  <2>2. CASE m = k /\ g = fd
    <3>1. At(s, n, p)
      BY <1>6, <1>7, <2>1, <2>2 DEF SameEnds, At
    <3>2. In(e, {"CLOSE_WAIT"}) /\ In(e, Open)
      BY <2>2, <3>1 DEF In, Callee, At, Open
    <3> HIDE DEF c, e, m
    <3>3. In(c, Closers)
      BY <1>1, <1>9, <3>2 DEF ConnInv, FinFrom
    <3>4. Down(q, p) /\ s.remote_ip = n
      BY <1>5, <3>1 DEF Down, At
    <3> QED BY <1>4, <1>5, <1>10, <3>3, <3>4 DEF HasDown
  <2>3. CASE ~(m = k /\ g = fd)
    <3>1. In(e, {"LAST_ACK"})
      <4>1. S2[m][g] = sockets[m][g]
        BY <1>6, <1>9, <2>3
      <4>2. At(sockets[m][g], n, p) /\ sockets[m][g].state = "LAST_ACK"
        BY <2>1, <4>1
      <4> QED BY <4>2 DEF In, Callee, At
    <3> HIDE DEF c, e, m
    <3> QED BY <1>8, <1>9, <1>10, <3>1 DEF DueInv
  <2> QED BY <2>2, <2>3
<1> QED BY <1>11, <1>12 DEF DueInv

\* What segment r, taken by node k, means for ends that are closing.
Acked(S, S2, k, r, w2) == \A x \in Nodes : \A g \in Fds :
  LET s == S[x][g]
      s2 == S2[x][g]
      hit == x = k /\ s.local_port = r.dport
  IN /\ s2.state = "LAST_ACK" =>
          s.state = "LAST_ACK" /\ SameEnds(s, s2) /\ ~(hit /\ "ACK" \in r.flags)
     /\ s.state \in Closers =>
          IF hit /\ r.flags \in Fin
          THEN \E i \in DOMAIN w2[s.remote_ip] :
                 Down(w2[s.remote_ip][i], s.remote_port) /\ w2[s.remote_ip][i].flags = {"ACK"}
          ELSE s2.state \in Closers /\ SameEnds(s, s2)

\* Wire w2 has what w has but for segment r, taken by node k.
Spends(w, w2, k, r) == \A m \in Nodes : \A i \in DOMAIN w[m] : w[m][i].kind = "tcp" =>
  (m = k /\ w[m][i] = r) \/ \E j \in DOMAIN w2[m] : w2[m][j] = w[m][i]

\* A segment is taken that means to the closing ends what it should.
LEMMA DuesTaken ==
  ASSUME NEW h, HomeOK(h), NEW S, SocketsInv(h, S), NEW w, ConnsInv(h, S, w, FALSE), DuesInv(h, S, w),
         NEW k \in Nodes, NEW r, NEW S2, NEW w2, Acked(S, S2, k, r, w2), Spends(w, w2, k, r)
  PROVE  DuesInv(h, S2, w2)
<1> SUFFICES ASSUME NEW n \in Nodes, NEW p \in Ephemeral, h[n][p] # None
             PROVE  DueInv(Caller(S2, n, p), Callee(S2, h[n][p], n, p), w2, n, p, h[n][p])
  BY DEF DuesInv
<1> DEFINE m == h[n][p]
           c == Caller(S, n, p)
           e == Callee(S, m, n, p)
           c2 == Caller(S2, n, p)
           e2 == Callee(S2, m, n, p)
<1>1. m \in Nodes /\ DueInv(c, e, w, n, p, m) /\ ConnInv(c, e, w, FALSE, n, p, m)
  <2>1. m \in Nodes
    BY DEF HomeOK
  <2>2. DueInv(c, e, w, n, p, m)
    BY DEF DuesInv
  <2>3. ConnInv(c, e, w, FALSE, n, p, m)
    BY DEF ConnsInv
  <2> QED BY <2>1, <2>2, <2>3
<1>2. \A F : \A q : HasDown(w, n, q, F) => HasDown(w2, n, q, F) \/ (n = k /\ Down(r, q) /\ r.flags \in F)
  <2> SUFFICES ASSUME NEW F, NEW q, NEW i \in DOMAIN w[n], Down(w[n][i], q), w[n][i].flags \in F
               PROVE  HasDown(w2, n, q, F) \/ (n = k /\ Down(r, q) /\ r.flags \in F)
    BY DEF HasDown
  <2> QED BY DEF HasDown, Down, Spends
<1>3. \A F : \A q : HasDown(w, m, q, F) => HasDown(w2, m, q, F) \/ (m = k /\ Down(r, q) /\ r.flags \in F)
  <2> SUFFICES ASSUME NEW F, NEW q, NEW i \in DOMAIN w[m], Down(w[m][i], q), w[m][i].flags \in F
               PROVE  HasDown(w2, m, q, F) \/ (m = k /\ Down(r, q) /\ r.flags \in F)
    BY DEF HasDown
  <2> QED BY <1>1 DEF HasDown, Down, Spends
<1>4. \A F : HasUp(w, m, n, p, F) => HasUp(w2, m, n, p, F) \/ (m = k /\ Up(r, n, p) /\ r.flags \in F)
  <2> SUFFICES ASSUME NEW F, NEW i \in DOMAIN w[m], Up(w[m][i], n, p), w[m][i].flags \in F
               PROVE  HasUp(w2, m, n, p, F) \/ (m = k /\ Up(r, n, p) /\ r.flags \in F)
    BY DEF HasUp
  <2> QED BY <1>1 DEF HasUp, Up, Spends
<1>5. {"ACK"} \in Acks /\ Fin \subseteq Says /\ \A f \in Acks : "ACK" \in f
  BY DEF Acks, Fin, Says
<1>6. ASSUME In(c2, {"LAST_ACK"})
      PROVE  HasDown(w2, n, p, Acks) \/ HasUp(w2, m, n, p, Fin)
  <2>1. PICK g \in Fds : S2[n][g].local_port = p /\ S2[n][g].state = "LAST_ACK"
    BY <1>6 DEF In, Caller
  <2>2. S[n][g].state = "LAST_ACK" /\ S[n][g].local_port = p /\ ~(n = k /\ p = r.dport /\ "ACK" \in r.flags)
    BY <2>1 DEF Acked, SameEnds
  <2>3. In(c, {"LAST_ACK"})
    BY <2>2 DEF In, Caller
  <2>4. CASE HasDown(w, n, p, Acks)
    BY <1>2, <1>5, <2>2, <2>4 DEF Down
  <2>5. CASE HasUp(w, m, n, p, Fin)
    <3>1. CASE HasUp(w2, m, n, p, Fin)
      BY <3>1
    <3>2. CASE m = k /\ Up(r, n, p) /\ r.flags \in Fin
      <4>1. HasUp(w, m, n, p, Says)
        BY <1>5, <2>5 DEF HasUp
      <4>2. In(e, Listening) /\ ~In(e, Open)
        <5>1. In(c, {"CLOSE_WAIT", "LAST_ACK", "TIME_WAIT"})
          BY <2>3 DEF In
        <5> HIDE DEF c, e, m
        <5> QED BY <1>1, <4>1, <5>1 DEF ConnInv, Answered, Live, FinHeard
      <4>3. PICK g2 \in Fds : At(S[m][g2], n, p) /\ S[m][g2].state \in Closers
        <5>1. \A x : x \in Listening /\ x \notin Open => x \in Closers
          BY DEF Listening, Open, Closers
        <5>2. PICK x \in e : x \in Listening /\ x \notin Open
          BY <4>2 DEF In
        <5> QED BY <5>1, <5>2 DEF Callee, At
      <4>4. S[m][g2].remote_ip = n /\ S[m][g2].remote_port = p /\ S[m][g2].local_port = r.dport
        BY <3>2, <4>3 DEF At, Up
      <4>5. \E i \in DOMAIN w2[n] : Down(w2[n][i], p) /\ w2[n][i].flags = {"ACK"}
        <5>1. LET t == S[m][g2] IN
              \E i \in DOMAIN w2[t.remote_ip] : Down(w2[t.remote_ip][i], t.remote_port) /\ w2[t.remote_ip][i].flags = {"ACK"}
          BY <1>1, <3>2, <4>3, <4>4 DEF Acked
        <5> QED BY <4>4, <5>1
      <4> QED BY <1>5, <4>5 DEF HasDown
    <3> QED BY <1>4, <2>5, <3>1, <3>2
  <2> QED BY <1>1, <2>3, <2>4, <2>5 DEF DueInv
<1>7. ASSUME In(e2, {"LAST_ACK"})
      PROVE  HasDown(w2, m, SERVER_PORT, Acks) \/ (In(c2, Closers) /\ HasDown(w2, n, p, Fin))
  <2>1. PICK g \in Fds : At(S2[m][g], n, p) /\ S2[m][g].state = "LAST_ACK"
    BY <1>7 DEF In, Callee, At
  <2>2. /\ S[m][g].state = "LAST_ACK" /\ At(S[m][g], n, p)
        /\ ~(m = k /\ SERVER_PORT = r.dport /\ "ACK" \in r.flags)
    BY <1>1, <2>1 DEF Acked, SameEnds, At
  <2>3. In(e, {"LAST_ACK"})
    BY <2>2 DEF In, Callee, At
  <2>4. CASE HasDown(w, m, SERVER_PORT, Acks)
    BY <1>3, <1>5, <2>2, <2>4 DEF Down
  <2>5. CASE In(c, Closers) /\ HasDown(w, n, p, Fin)
    <3>1. PICK g2 \in Fds : S[n][g2].local_port = p /\ S[n][g2].state \in Closers
      BY <2>5 DEF In, Caller
    <3>2. CASE n = k /\ p = r.dport /\ r.flags \in Fin
      <4>1. S[n][g2].remote_ip = m /\ S[n][g2].remote_port = SERVER_PORT
        <5>1. SocketInv(h, n, S[n][g2])
          BY DEF SocketsInv
        <5>2. Connects(h, n, S[n][g2])
          BY <3>1, <5>1, PortFacts DEF SocketInv, Idle, Listens, Serves
        <5> QED BY <3>1, <5>2 DEF Connects
      <4>2. \E i \in DOMAIN w2[m] : Down(w2[m][i], SERVER_PORT) /\ w2[m][i].flags = {"ACK"}
        <5>1. LET t == S[n][g2] IN
              \E i \in DOMAIN w2[t.remote_ip] : Down(w2[t.remote_ip][i], t.remote_port) /\ w2[t.remote_ip][i].flags = {"ACK"}
          BY <3>1, <3>2 DEF Acked
        <5> QED BY <4>1, <5>1
      <4> QED BY <1>5, <4>2 DEF HasDown
    <3>3. CASE ~(n = k /\ p = r.dport /\ r.flags \in Fin)
      <4>1. S2[n][g2].state \in Closers /\ S2[n][g2].local_port = p
        BY <3>1, <3>3 DEF Acked, SameEnds
      <4>2. In(c2, Closers)
        BY <4>1 DEF In, Caller
      <4>3. HasDown(w2, n, p, Fin)
        BY <1>2, <2>5, <3>3 DEF Down
      <4> QED BY <4>2, <4>3
    <3> QED BY <3>2, <3>3
  <2> QED BY <1>1, <2>3, <2>4, <2>5 DEF DueInv
<1> QED BY <1>6, <1>7 DEF DueInv

\* A segment that finds no socket is for a port nobody holds.
LEMMA Nobody ==
  ASSUME NEW k \in Nodes, NEW port, Receiver(k, port) = {}
  PROVE  \A g \in Fds : sockets[k][g].active => sockets[k][g].local_port # port
<1> DEFINE match == {fd \in Fds : sockets[k][fd].active /\ sockets[k][fd].local_port = port}
<1>1. match \in SUBSET Nat
  BY Bounds DEF Fds
<1>2. match # {} => \E i \in match : \A j \in match : i <= j
  BY <1>1, MinOfNaturals
<1>3. Receiver(k, port) = {fd \in match : \A g \in match : fd <= g}
  BY DEF Receiver
<1> HIDE DEF match
<1>4. match = {}
  BY <1>2, <1>3
<1> QED BY <1>4 DEF match

\* A segment acknowledges a FIN or is answered, unless it is for nobody.
LEMMA DuesHandle ==
  ASSUME TcpTypeInv, NEW h, HomeOK(h), Conns(h), DuesInv(h, sockets, wire), NEW k \in Nodes,
         ~fault', ~abandoned', handle_tcp(k)
  PROVE  DuesInv(h, sockets', wire')
<1> DEFINE r  == Head(wire[k])
           w1 == Taken(k)
           w2 == wire'
           S  == sockets
           S2 == sockets'
<1>1. Arrives(k, "tcp") /\ Deliver(k, r, w1) /\ wire[k] # <<>> /\ abandoned = FALSE
  BY DEF handle_tcp, Arrives, TcpTypeInv
<1>2. PacketInv(h, FALSE, k, r) /\ r.kind = "tcp" /\ r.flags \in Flags
  BY <1>1, HeadInv
<1>3. /\ r.flags # {"RST"} /\ "RST" \notin r.flags /\ r.dport # 0
      /\ (r.flags \in Fin => "ACK" \in r.flags)
  BY <1>2, FlagFacts, PortFacts DEF PacketInv, Fin
<1>4. \A m \in Nodes : \A i \in DOMAIN wire[m] :
        (m = k /\ wire[m][i] = r) \/ \E j \in DOMAIN w1[m] : w1[m][j] = wire[m][i]
  BY <1>1, TakenStays
<1>5. WireOK(w1) /\ Stays(w1, w1)
  BY <1>1, TakenOK DEF Stays
<1>6. SocketsInv(h, S) /\ ConnsInv(h, S, wire, FALSE)
  BY <1>1 DEF Conns, Locals
<1>7. \A x \in Nodes : \A g \in Fds : /\ S[x][g].state \in Closers \cup {"LAST_ACK"} => S[x][g].active
                                      /\ S[x][g] \in Socket
  BY SocketKinds DEF Conns, Joined, Closers
<1>8. ASSUME Acked(S, S2, k, r, w2), Stays(w1, w2)
      PROVE  DuesInv(h, S2, w2)
  <2>1. Spends(wire, w2, k, r)
    BY <1>4, <1>8 DEF Stays, Spends
  <2> HIDE DEF r, w2, S2
  <2> QED BY <1>6, <1>8, <2>1, DuesTaken
<1>9. CASE Receiver(k, r.dport) = {}
  <2>1. S2 = S /\ w2 = w1
    BY <1>1, <1>9 DEF Deliver, Quiet
  <2>2. \A g \in Fds : S[k][g].active => S[k][g].local_port # r.dport
    BY <1>9, Nobody
  <2>3. Acked(S, S2, k, r, w2)
    BY <1>7, <2>1, <2>2 DEF Acked, SameEnds
  <2> QED BY <1>5, <1>8, <2>1, <2>3
<1>10. ASSUME NEW fd \in Receiver(k, r.dport),
              LET s == sockets[k][fd] IN
                IF Ends(s, r)
                THEN Free(k, fd) /\ Quiet(w1)
                ELSE /\ Store(k, fd, Handled(s, r))
                     /\ IF Answer(s, r) = {} THEN Quiet(w1)
                        ELSE tcp_send_packet(w1, k, Handled(s, r), Answer(s, r), NoUnit)
       PROVE  DuesInv(h, S2, w2)
  <2> DEFINE s == sockets[k][fd]
  <2>1. fd \in Fds /\ s.active /\ s.local_port = r.dport /\ s \in Socket
    BY <1>7, <1>10 DEF Receiver
  <2>2. \A g \in Fds : S[k][g].local_port = r.dport => g = fd
    BY <1>3, <1>6, <2>1 DEF SocketsInv, PortsApart
  <2>3. ASSUME NEW s2, Store(k, fd, s2), Stays(w1, w2),
               s2.state = "LAST_ACK" => s.state = "LAST_ACK" /\ SameEnds(s, s2) /\ "ACK" \notin r.flags,
               s.state \in Closers =>
                 IF r.flags \in Fin
                 THEN \E i \in DOMAIN w2[s.remote_ip] :
                        Down(w2[s.remote_ip][i], s.remote_port) /\ w2[s.remote_ip][i].flags = {"ACK"}
                 ELSE s2.state \in Closers /\ SameEnds(s, s2)
        PROVE  DuesInv(h, S2, w2)
    <3>1. \A x \in Nodes, g \in Fds : S2[x][g] = IF x = k /\ g = fd THEN s2 ELSE S[x][g]
      BY <2>1, <2>3, StoreChanges DEF Changes
    <3> HIDE DEF S2, w2, r
    <3>2. Acked(S, S2, k, r, w2)
      <4> SUFFICES ASSUME NEW x \in Nodes, NEW g \in Fds
                   PROVE  LET t == S[x][g]
                              t2 == S2[x][g]
                              hit == x = k /\ t.local_port = r.dport
                          IN /\ t2.state = "LAST_ACK" =>
                                  t.state = "LAST_ACK" /\ SameEnds(t, t2) /\ ~(hit /\ "ACK" \in r.flags)
                             /\ t.state \in Closers =>
                                  IF hit /\ r.flags \in Fin
                                  THEN \E i \in DOMAIN w2[t.remote_ip] :
                                         Down(w2[t.remote_ip][i], t.remote_port) /\ w2[t.remote_ip][i].flags = {"ACK"}
                                  ELSE t2.state \in Closers /\ SameEnds(t, t2)
        BY DEF Acked
      <4>1. CASE x = k /\ g = fd
        BY <2>1, <2>3, <3>1, <4>1
      <4>2. CASE ~(x = k /\ g = fd)
        <5>1. S2[x][g] = S[x][g] /\ ~(x = k /\ S[x][g].local_port = r.dport)
          BY <2>2, <3>1, <4>2
        <5> QED BY <5>1 DEF SameEnds
      <4> QED BY <4>1, <4>2
    <3> QED BY <1>8, <2>3, <3>2
  <2>4. CASE Ends(s, r)
    <3>1. Store(k, fd, Zeroed) /\ w2 = w1
      BY <1>10, <2>4 DEF Free, Quiet
    <3>2. s.state = "LAST_ACK" /\ Zeroed.state = "CLOSED"
      BY <1>3, <2>4 DEF Ends, Zeroed
    <3> QED BY <1>5, <2>3, <3>1, <3>2 DEF Closers
  <2>5. CASE ~Ends(s, r)
    <3> DEFINE s2 == Handled(s, r)
    <3>1. Store(k, fd, s2) /\ IF Answer(s, r) = {} THEN Quiet(w1) ELSE tcp_send_packet(w1, k, s2, Answer(s, r), NoUnit)
      BY <1>10, <2>5
    <3>2. Listens(s) \/ Serves(h, k, s) \/ Connects(h, k, s)
      <4>1. SocketInv(h, k, s)
        BY <1>6, <2>1 DEF SocketsInv
      <4> QED BY <1>3, <2>1, <4>1 DEF SocketInv, Idle
    <3>3. CASE Serves(h, k, s) \/ Connects(h, k, s)
      <4>1. s.state \in Joined \cup {"SYN_RECEIVED", "SYN_SENT"} /\ s.remote_ip \in Nodes
        BY <3>3 DEF Serves, Connects
      <4>2. SameEnds(s, s2) /\ Turn(s.state, r.flags, s2.state, Answer(s, r))
        BY <1>2, <1>3, <2>1, <2>5, <4>1, Turns
      <4> HIDE DEF s2, r
      <4>3. s2.state = "LAST_ACK" => s.state = "LAST_ACK"
        BY <4>2 DEF Turn, Closers
      <4>4. s.state = "LAST_ACK" => "ACK" \notin r.flags
        BY <2>5 DEF Ends
      <4>5. s2.remote_ip = s.remote_ip /\ s2.remote_port = s.remote_port
        BY <4>2 DEF SameEnds
      <4>6. /\ Stays(w1, w2)
            /\ Answer(s, r) = {"ACK"} =>
                 \E i \in DOMAIN w2[s.remote_ip] :
                   Down(w2[s.remote_ip][i], s.remote_port) /\ w2[s.remote_ip][i].flags = {"ACK"}
        <5>1. CASE Answer(s, r) = {}
          BY <1>5, <3>1, <5>1 DEF Quiet
        <5>2. CASE Answer(s, r) # {}
          <6>1. tcp_send_packet(w1, k, s2, Answer(s, r), NoUnit)
            BY <3>1, <5>2
          <6>2. /\ Stays(w1, w2)
                /\ Answer(s, r) # {"SYN"} =>
                     \E i \in DOMAIN w2[s2.remote_ip] : w2[s2.remote_ip][i] = Segment(k, s2, Answer(s, r), NoUnit)
            BY <1>5, <4>1, <4>5, <6>1, SendReaches
          <6>3. /\ Segment(k, s2, {"ACK"}, NoUnit).kind = "tcp" /\ Segment(k, s2, {"ACK"}, NoUnit).flags = {"ACK"}
                /\ Segment(k, s2, {"ACK"}, NoUnit).dport = s.remote_port
            BY <4>5 DEF Segment
          <6>4. {"ACK"} # {"SYN"}
            OBVIOUS
          <6> HIDE DEF w2
          <6> QED BY <4>5, <6>2, <6>3, <6>4 DEF Down
        <5> QED BY <5>1, <5>2
      <4>7. s.state \in Closers =>
              IF r.flags \in Fin
              THEN Answer(s, r) = {"ACK"}
              ELSE s2.state \in Closers
        <5>1. s.state \in Closers /\ r.flags \in Fin => Answer(s, r) = {"ACK"}
          BY DEF Closers, Fin, Answer, AcksFin
        <5>2. s.state \in Closers /\ r.flags \notin Fin => s2.state \in Closers
          BY <4>2 DEF Turn, Closers
        <5> QED BY <5>1, <5>2
      <4> QED BY <2>3, <3>1, <4>2, <4>3, <4>4, <4>6, <4>7
    <3>4. CASE Listens(s)
      <4>1. s.state = "LISTEN"
        BY <3>4 DEF Listens
      <4>2. s2.state \in {"LISTEN", "SYN_RECEIVED"} /\ s.state \notin Closers
        BY <2>1, <4>1 DEF Handled, Teardown, Closers, Socket
      <4>3. Stays(w1, w2)
        <5>1. CASE Quiet(w1)
          BY <1>5, <5>1 DEF Quiet
        <5>2. CASE tcp_send_packet(w1, k, s2, Answer(s, r), NoUnit)
          <6> DEFINE q == Segment(k, s2, Answer(s, r), NoUnit)
          <6>1. wire' = Sent(w1, k, s2.remote_ip, q) /\ q.kind = "tcp"
            BY <5>2 DEF tcp_send_packet, Segment
          <6> HIDE DEF q, s2
          <6> QED BY <1>5, <6>1, SentGrown, GrownStays
        <5> QED BY <3>1, <5>1, <5>2
      <4> HIDE DEF s2
      <4> QED BY <2>3, <3>1, <4>2, <4>3
    <3> QED BY <3>2, <3>3, <3>4
  <2> QED BY <2>4, <2>5
<1> QED BY <1>1, <1>9, <1>10 DEF Deliver

-----------------------------------------------------------------------------
(* The theorems about connections.                                           *)

\* What an end in LAST_ACK waits for is on the way, until a fault.
Dues(h) == ~fault /\ ~abandoned => DuesInv(h, sockets, wire)

\* A fault is not forgotten, nor a connection that was given up.
LEMMA FaultsStay == ASSUME Next PROVE (~fault' => ~fault) /\ (~abandoned' => ~abandoned)
<1>1. PICK n \in Nodes : Program(n) \/ tcpip_poll(n) \/ tcpip_check_timeouts(n) \/ Network(n)
  BY DEF Next
<1>2. \A w, x, s, f, u : tcp_send_packet(w, x, s, f, u) => (fault => fault')
  BY Zenon DEF tcp_send_packet
<1>3. \A w : Quiet(w) => (fault => fault')
  BY Zenon DEF Quiet
<1>4. ASSUME NEW fd \in Fds, socket_close(n, fd)
      PROVE  (fault => fault') /\ (abandoned => abandoned')
  <2>1. abandoned => abandoned'
    BY <1>4, Zenon DEF socket_close
  <2>2. fault => fault'
    BY <1>2, <1>3, <1>4 DEF socket_close
  <2> QED BY <2>1, <2>2
<1>5. CASE Program(n)
  <2>1. CASE socket_create(n) \/ \E to \in Servers : tcpip_ping(n, to)
    BY <1>3, <2>1 DEF socket_create, tcpip_ping
  <2>2. CASE \E fd \in Fds : BindListen(n, fd) \/ socket_accept(n, fd) \/ socket_recv(n, fd)
    BY <2>2 DEF BindListen, socket_accept, socket_recv
  <2>3. ASSUME NEW fd \in Fds, socket_send(n, fd) \/ \E to \in Servers : socket_connect(n, fd, to)
        PROVE  (fault => fault') /\ UNCHANGED abandoned
    <3>1. \E s, f, u : tcp_send_packet(wire, n, s, f, u)
      BY <2>3 DEF socket_send, socket_connect
    <3>2. UNCHANGED abandoned
      BY <2>3 DEF socket_send, socket_connect
    <3> QED BY <1>2, <3>1, <3>2
  <2> QED BY <1>4, <1>5, <2>1, <2>2, <2>3 DEF Program
<1>6. CASE handle_tcp(n)
  <2>1. UNCHANGED abandoned /\ Deliver(n, Head(wire[n]), Taken(n))
    BY <1>6 DEF handle_tcp
  <2>2. \/ \E w : Quiet(w)
        \/ \E w, x, s, f, u : tcp_send_packet(w, x, s, f, u)
    BY <2>1, Zenon DEF Deliver, Free
  <2>3. fault => fault'
    BY <1>2, <1>3, <2>2
  <2> QED BY <2>1, <2>3
<1>7. CASE handle_arp(n) \/ tcpip_check_timeouts(n)
  BY <1>7 DEF handle_arp, tcpip_check_timeouts
<1>8. CASE Network(n)
  <2>1. Lose(n) => ~fault /\ UNCHANGED abandoned
    BY DEF Lose
  <2>2. \A x : OtherArp(n, x) => UNCHANGED <<fault, abandoned>>
    BY DEF OtherArp
  <2>3. \A fd : OtherReset(n, fd) => abandoned' = TRUE /\ fault' = TRUE
    BY DEF OtherReset
  <2> QED BY <1>8, <2>1, <2>2, <2>3 DEF Network
<1> QED BY <1>1, <1>5, <1>6, <1>7, <1>8 DEF tcpip_poll

\* Every step but that of a connect.
LEMMA OtherDues ==
  ASSUME TcpTypeInv, NEW h, HomeOK(h), Conns(h), DuesInv(h, sockets, wire), ~fault', ~abandoned',
         NEW n \in Nodes, \/ Program(n) \/ tcpip_poll(n) \/ tcpip_check_timeouts(n) \/ Network(n),
         ~\E fd \in Fds : \E to \in Servers : socket_connect(n, fd, to)
  PROVE  DuesInv(h, sockets', wire')
<1>1. CASE ArpSteps(n) \/ socket_create(n) \/ tcpip_check_timeouts(n)
  BY <1>1, DuesOther
<1>2. ASSUME NEW fd \in Fds, \/ BindListen(n, fd) \/ socket_accept(n, fd) \/ socket_send(n, fd)
                             \/ socket_recv(n, fd) \/ OtherReset(n, fd)
      PROVE  DuesInv(h, sockets', wire')
  BY <1>2, DuesOther
<1>3. ASSUME NEW fd \in Fds, socket_close(n, fd)
      PROVE  DuesInv(h, sockets', wire')
  BY <1>3, DuesOther, DuesClose
<1>4. CASE handle_tcp(n)
  BY <1>4, DuesHandle
<1>5. CASE Program(n)
  BY <1>1, <1>2, <1>3, <1>5 DEF Program, ArpSteps
<1>6. CASE tcpip_poll(n)
  BY <1>1, <1>4, <1>6 DEF tcpip_poll, ArpSteps
<1>7. CASE Network(n)
  BY <1>1, <1>2, <1>7 DEF Network, ArpSteps
<1> QED BY <1>1, <1>5, <1>6, <1>7

\* What is true of the connections in every state, h and u given.
NetInv(h, u) == TcpInv /\ Conns(h) /\ PortsInv(h, u) /\ OrderInv /\ Dues(h)

\* The invariant holds before any connection.
LEMMA NetInit == Init => \E h, u : NetInv(h, u)
<1> SUFFICES ASSUME Init PROVE \E h, u : NetInv(h, u)
  OBVIOUS
<1> DEFINE h == [n \in Nodes |-> [p \in Ephemeral |-> None]]
           u == [n \in Nodes |-> 0]
<1>1. TcpInv /\ TcpTypeInv
  BY TcpInitInv DEF TcpInv
<1>2. HomeOK(h) /\ u \in [Nodes -> Nat] /\ \A n \in Nodes : u[n] = 0 /\ \A p \in Ephemeral : h[n][p] = None
  BY DEF HomeOK
<1> HIDE DEF h, u
<1>3. \A n \in Nodes : /\ \A fd \in Fds : sockets[n][fd] = Zeroed /\ last[n][fd] = 0
                       /\ wire[n] = <<>> /\ open[n] = {} /\ created[n] = 0
                       /\ next_ephemeral_port[n] = EPHEMERAL
  BY DEF Init
<1>4. /\ Idle(Zeroed) /\ OfPeer(Zeroed) /\ Zeroed.local_port = 0 /\ ~Zeroed.active
      /\ Zeroed.rx_buffer = <<>> /\ \A n : SocketInv(h, n, Zeroed)
  BY ZeroedIdle, IdleInv DEF Zeroed
<1>5. Locals(h)
  <2>1. WireInv(h, abandoned, wire)
    BY <1>3 DEF WireInv
  <2>2. SocketsInv(h, sockets)
    BY <1>3, <1>4 DEF SocketsInv, PortsApart
  <2>3. PeerData
    BY <1>3, <1>4 DEF PeerData
  <2> QED BY <2>1, <2>2, <2>3 DEF Locals
<1>6. ConnsInv(h, sockets, wire, abandoned)
  BY <1>2 DEF ConnsInv
<1>7. OpenInv
  BY <1>3 DEF OpenInv
<1>8. PortsInv(h, u)
  <2>1. \A n \in Nodes : Fresh(sockets, n) = {}
    BY <1>3, <1>4 DEF Fresh
  <2>2. \A n \in Nodes : Cardinality(Fresh(sockets, n)) = 0
    BY <2>1, FS_EmptySet
  <2>3. EPHEMERAL \in Nat
    BY Bounds DEF Ports
  <2> QED BY <1>2, <1>3, <2>2, <2>3 DEF PortsInv
<1>9. OrderInv
  <2>1. sent = 0
    BY DEF Init
  <2> QED BY <1>3, <1>4, <2>1 DEF OrderInv, InStream, Later, Rising
<1>10. Dues(h)
  BY <1>2 DEF Dues, DuesInv
<1> QED BY <1>1, <1>5, <1>6, <1>7, <1>8, <1>9, <1>10 DEF NetInv, Conns

\* Every step but that of a connect, which uses a port.
LEMMA OtherConns ==
  ASSUME TcpTypeInv, NEW h, HomeOK(h), Conns(h), NEW n \in Nodes,
         \/ Program(n) \/ tcpip_poll(n) \/ tcpip_check_timeouts(n) \/ Network(n),
         ~\E fd \in Fds : \E to \in Servers : socket_connect(n, fd, to)
  PROVE  Conns(h)'
<1>1. CASE ArpSteps(n)
  BY <1>1, ArpConns
<1>2. CASE socket_create(n)
  BY <1>2, CreateConns
<1>3. ASSUME NEW fd \in Fds, \/ BindListen(n, fd) \/ socket_accept(n, fd) \/ socket_close(n, fd)
                             \/ socket_send(n, fd) \/ socket_recv(n, fd)
      PROVE  Conns(h)'
  BY <1>3, BindConns, AcceptConns, CloseConns, SendConns, RecvConns
<1>4. CASE handle_tcp(n)
  BY <1>4, HandleConns
<1>5. CASE tcpip_check_timeouts(n)
  BY <1>5, TimeoutConns
<1>6. ASSUME NEW fd \in Fds, OtherReset(n, fd)
      PROVE  Conns(h)'
  BY <1>6, OtherResetConns
<1>7. CASE Program(n)
  BY <1>1, <1>2, <1>3, <1>7 DEF Program, ArpSteps
<1>8. CASE tcpip_poll(n)
  BY <1>1, <1>4, <1>8 DEF tcpip_poll, ArpSteps
<1>9. CASE Network(n)
  BY <1>1, <1>6, <1>9 DEF Network, ArpSteps
<1> QED BY <1>5, <1>7, <1>8, <1>9

\* Every step keeps the invariant.
LEMMA NetStep ==
  ASSUME MAX_CREATED <= PORT_MOD - EPHEMERAL, NEW h, NEW u, NetInv(h, u), [Next]_vars
  PROVE  \E h2, u2 : NetInv(h2, u2)'
<1>1. TcpInv' /\ TcpTypeInv /\ TcpTypeInv' /\ HomeOK(h) /\ Conns(h) /\ PortsInv(h, u) /\ OrderInv
      /\ Dues(h)
  BY TcpStep DEF NetInv, TcpInv, PortsInv
<1>2. CASE UNCHANGED vars
  <2>1. Conns(h)'
    BY <1>1, <1>2 DEF vars, Conns, Locals, WireInv, PeerData, Exclusive, OpenInv
  <2>2. PortsInv(h, u)' /\ OrderInv'
    BY <1>1, <1>2 DEF vars, PortsInv, Fresh, OrderInv
  <2>3. Dues(h)'
    BY <1>1, <1>2 DEF vars, Dues
  <2> QED BY <1>1, <2>1, <2>2, <2>3 DEF NetInv
<1>3. CASE Next
  <2>1. OrderInv'
    BY <1>1, <1>3, OrderMove
  <2>2. PICK n \in Nodes : Program(n) \/ tcpip_poll(n) \/ tcpip_check_timeouts(n) \/ Network(n)
    BY <1>3 DEF Next
  <2>3. CASE \E fd \in Fds : \E to \in Servers : socket_connect(n, fd, to)
    <3>1. PICK fd \in Fds, to \in Servers : socket_connect(n, fd, to)
      BY <2>3
    <3>2. PICK p : p = next_ephemeral_port[n]
      OBVIOUS
    <3>3. PICK h2 : h2 = [h EXCEPT ![n][p] = to]
      OBVIOUS
    <3>4. PICK u2 : u2 = [u EXCEPT ![n] = u[n] + 1]
      OBVIOUS
    <3>5. p \in Ephemeral /\ h[n][p] = None /\ PortsInv(h2, u2)'
      BY <1>1, <3>1, <3>2, <3>3, <3>4, ConnectPorts, ZenonT(60)
    <3>6. Calls(n, p) /\ Leads(h, n, p, to, h2)
      BY <3>2, <3>3 DEF Calls, Leads
    <3>7. Conns(h2)'
      BY <1>1, <3>1, <3>5, <3>6, ConnectConns
    <3>8. Dues(h2)'
      <4> SUFFICES ASSUME ~fault', ~abandoned'
                   PROVE  DuesInv(h2, sockets', wire')
        BY DEF Dues
      <4>1. DuesInv(h, sockets, wire)
        BY <1>1, <1>3, FaultsStay DEF Dues
      <4>2. Leads(h, n, p, to, h2)
        BY <3>6
      <4> QED BY <1>1, <3>1, <3>5, <4>1, <4>2, DuesConnect
    <3> QED BY <1>1, <2>1, <3>5, <3>7, <3>8 DEF NetInv
  <2>4. CASE ~\E fd \in Fds : \E to \in Servers : socket_connect(n, fd, to)
    <3>1. Conns(h)'
      BY <1>1, <2>2, <2>4, OtherConns
    <3>2. PortsInv(h, u)'
      <4>1. CASE socket_create(n)
        BY <1>1, <4>1, CreatePorts
      <4>2. CASE ~socket_create(n)
        BY <1>1, <2>2, <2>4, <4>2, OtherPorts DEF Program
      <4> QED BY <4>1, <4>2
    <3>3. Dues(h)'
      <4> SUFFICES ASSUME ~fault', ~abandoned'
                   PROVE  DuesInv(h, sockets', wire')
        BY DEF Dues
      <4>1. DuesInv(h, sockets, wire)
        BY <1>1, <1>3, FaultsStay DEF Dues
      <4> QED BY <1>1, <2>2, <2>4, <4>1, OtherDues
    <3> QED BY <1>1, <2>1, <3>1, <3>2, <3>3 DEF NetInv
  <2> QED BY <2>3, <2>4
<1> QED BY <1>2, <1>3

\* The invariant implies the order of data.
LEMMA DataOrdered == ASSUME NEW h, NEW u, NetInv(h, u) PROVE DataInOrder
<1>1. ASSUME NEW n \in Nodes, NEW fd \in Fds
      PROVE  InOrder(n, fd)
  <2>1. Rising(sockets[n][fd].rx_buffer, last[n][fd], sent) /\ sockets[n][fd].rx_buffer \in Seq(Unit)
    BY SocketFields DEF NetInv, TcpInv, TcpTypeInv, OrderInv
  <2> QED BY <2>1 DEF Rising, InOrder
<1>2. PeerData
  BY DEF NetInv, Conns, Locals
<1> QED BY <1>1, <1>2 DEF DataInOrder, PeerData

\* The invariant implies that TIME_WAIT is of connections both ends closed.
LEMMA BothClosed == ASSUME NEW h, NEW u, NetInv(h, u) PROVE TimeWaitBothClosed
<1>1. TcpTypeInv /\ Locals(h) /\ HomeOK(h) /\ SocketsInv(h, sockets) /\ ConnsInv(h, sockets, wire, abandoned)
  BY DEF NetInv, TcpInv, Conns, Locals, PortsInv
<1> SUFFICES ASSUME NEW n \in Nodes, NEW m \in Nodes, NEW fd \in Fds, NEW g \in Fds,
                    sockets[n][fd].state = "TIME_WAIT", Exclusive(sockets[n][fd]), Peers(n, fd, m, g)
             PROVE  sockets[m][g].state \notin Open
  BY DEF TimeWaitBothClosed, Open
<1> DEFINE s == sockets[n][fd]
           t == sockets[m][g]
<1>2. Serves(h, n, s) \/ Connects(h, n, s)
  BY <1>1, SocketKinds DEF Joined
<1>3. SocketInv(h, m, t)
  BY <1>1 DEF SocketsInv
<1>4. CASE Connects(h, n, s)
  <2> DEFINE p == s.local_port
             e == Callee(sockets, m, n, p)
  <2>1. ConnInv({s.state}, e, wire, abandoned, n, p, m)
    <3>1. ConnInv({s.state}, Callee(sockets, s.remote_ip, n, p), wire, abandoned, n, p, s.remote_ip)
      BY <1>1, <1>4, ClientConn
    <3> QED BY <3>1 DEF Peers
  <2>2. t.state \in e
    BY <1>4 DEF Callee, Peers, Connects
  <2> HIDE DEF e
  <2>3. In({s.state}, {"CLOSE_WAIT", "LAST_ACK", "TIME_WAIT"})
    BY InOne
  <2>4. ~In(e, Open)
    BY <2>1, <2>3 DEF ConnInv, FinHeard
  <2> QED BY <2>2, <2>4 DEF In
<1>5. CASE Serves(h, n, s)
  <2> DEFINE p == s.remote_port
             c == Caller(sockets, m, p)
  <2>1. ConnInv(c, {s.state}, wire, abandoned, m, p, n) /\ p \in Ephemeral
    <3>1. /\ ConnInv(Caller(sockets, s.remote_ip, p), {s.state}, wire, abandoned, s.remote_ip, p, n)
          /\ p \in Ephemeral
      BY <1>1, <1>5, ServerConn
    <3> QED BY <3>1 DEF Peers
  <2>2. t.state \in c /\ t.local_port = p
    BY DEF Caller, Peers
  <2>3. ~abandoned
    BY <1>5 DEF Serves, Exclusive
  <2> HIDE DEF c
  <2>4. ~In({s.state}, Listening)
    BY InOne DEF Listening
  <2>5. ~In(c, {"ESTABLISHED", "CLOSE_WAIT"})
    BY <2>1, <2>3, <2>4 DEF ConnInv, Answered, Live
  <2>6. t.state # "SYN_RECEIVED"
    BY <1>3, <2>1, <2>2, PortFacts DEF SocketInv, Idle, Listens, Serves, Connects, Joined
  <2> QED BY <2>2, <2>5, <2>6 DEF In, Open
<1> QED BY <1>2, <1>4, <1>5

\* What a program reads of a socket is in the order it was sent, each unit once,
\* whatever any number of clients do, packets are lost and resets come; and it
\* is the peer's: always at the active end, and at a server as long as no
\* connection was given up behind its client's back (socket_recv, handle_tcp,
\* which looks at the destination port only).  It needs that no node uses a
\* port twice: next_ephemeral_port wraps without looking whether one is in use.
THEOREM DataInOrderAlways ==
  ASSUME MAX_CREATED <= PORT_MOD - EPHEMERAL
  PROVE  Spec => []DataInOrder
<1> DEFINE IInv == \E h, u : NetInv(h, u)
<1>1. Init => IInv
  BY NetInit
<1>2. IInv /\ [Next]_vars => IInv'
  <2> SUFFICES ASSUME NEW h, NEW u, NetInv(h, u), [Next]_vars
               PROVE  \E h2, u2 : NetInv(h2, u2)'
    OBVIOUS
  <2> QED BY NetStep
<1>3. IInv => DataInOrder
  BY DataOrdered
<1> HIDE DEF IInv
<1> QED BY <1>1, <1>2, <1>3, PTL DEF Spec

\* The invariant implies that LAST_ACK is answered.
LEMMA AckPending == ASSUME NEW h, NEW u, NetInv(h, u) PROVE LastAckPending
<1>1. TcpTypeInv /\ Locals(h) /\ HomeOK(h) /\ SocketsInv(h, sockets) /\ WireInv(h, abandoned, wire) /\ Dues(h)
  BY DEF NetInv, TcpInv, Conns, Locals, PortsInv
<1> SUFFICES ASSUME NEW n \in Nodes, NEW fd \in Fds, sockets[n][fd].state = "LAST_ACK", ~fault, ~abandoned
             PROVE  LET s == sockets[n][fd] IN
                    \/ \E i \in DOMAIN wire[n] : LET p == wire[n][i] IN
                         p.kind = "tcp" /\ p.dport = s.local_port /\ "ACK" \in p.flags
                    \/ \E i \in DOMAIN wire[s.remote_ip] : LET p == wire[s.remote_ip][i] IN
                         p.kind = "tcp" /\ p.sport = s.local_port /\ "FIN" \in p.flags
  BY DEF LastAckPending
<1> DEFINE s == sockets[n][fd]
<1>2. Serves(h, n, s) \/ Connects(h, n, s)
  BY <1>1, SocketKinds DEF Joined
<1>3. \A f \in Acks : "ACK" \in f
  BY DEF Acks
<1>4. \A f \in Fin : "FIN" \in f
  BY DEF Fin
<1>5. CASE Connects(h, n, s)
  <2> DEFINE p == s.local_port
             m == s.remote_ip
  <2>1. p \in Ephemeral /\ h[n][p] = m /\ m \in Nodes /\ m # None
    BY <1>5, PortFacts DEF Connects
  <2>2. DueInv(Caller(sockets, n, p), Callee(sockets, m, n, p), wire, n, p, m)
    BY <1>1, <2>1 DEF Dues, DuesInv
  <2>3. In(Caller(sockets, n, p), {"LAST_ACK"})
    BY DEF In, Caller
  <2>4. HasDown(wire, n, p, Acks) \/ HasUp(wire, m, n, p, Fin)
    BY <2>2, <2>3 DEF DueInv
  <2> QED BY <1>3, <1>4, <2>4 DEF HasDown, HasUp, Down, Up
<1>6. CASE Serves(h, n, s)
  <2> DEFINE p == s.remote_port
             m == s.remote_ip
  <2>1. p \in Ephemeral /\ h[m][p] = n /\ m \in Nodes /\ n # None /\ s.local_port = SERVER_PORT
    BY <1>6, PortFacts DEF Serves
  <2>2. DueInv(Caller(sockets, m, p), Callee(sockets, n, m, p), wire, m, p, n)
    BY <1>1, <2>1 DEF Dues, DuesInv
  <2>3. In(Callee(sockets, n, m, p), {"LAST_ACK"})
    BY <2>1 DEF In, Callee
  <2>4. HasDown(wire, n, SERVER_PORT, Acks) \/ HasDown(wire, m, p, Fin)
    BY <2>2, <2>3 DEF DueInv
  <2>5. CASE HasDown(wire, n, SERVER_PORT, Acks)
    BY <1>3, <2>1, <2>5 DEF HasDown, Down
  <2>6. CASE HasDown(wire, m, p, Fin)
    <3>1. PICK i \in DOMAIN wire[m] : Down(wire[m][i], p) /\ wire[m][i].flags \in Fin
      BY <2>6 DEF HasDown
    <3>2. PacketInv(h, abandoned, m, wire[m][i])
      BY <1>1, <2>1, <3>1 DEF WireInv
    <3>3. wire[m][i].kind = "tcp" /\ wire[m][i].sport = SERVER_PORT
      BY <2>1, <3>1, <3>2, PortFacts DEF PacketInv, Down
    <3> QED BY <1>4, <2>1, <3>1, <3>3
  <2> QED BY <2>4, <2>5, <2>6
<1> QED BY <1>2, <1>5, <1>6

\* With any number of clients, a socket waits out TIME_WAIT only when its peer
\* has closed too, and a socket in LAST_ACK has its FIN or the answer to it on
\* the wire unless something was lost or somebody reset (handle_tcp's
\* FIN_WAIT_1, FIN_WAIT_2 and LAST_ACK, which take any acknowledgement for that
\* of the FIN).
THEOREM ClosingSoundAlways ==
  ASSUME MAX_CREATED <= PORT_MOD - EPHEMERAL
  PROVE  Spec => []ClosingSound
<1> DEFINE IInv == \E h, u : NetInv(h, u)
<1>1. Init => IInv
  BY NetInit
<1>2. IInv /\ [Next]_vars => IInv'
  <2> SUFFICES ASSUME NEW h, NEW u, NetInv(h, u), [Next]_vars
               PROVE  \E h2, u2 : NetInv(h2, u2)'
    OBVIOUS
  <2> QED BY NetStep
<1>3. IInv => ClosingSound
  BY BothClosed, AckPending DEF ClosingSound
<1> HIDE DEF IInv
<1> QED BY <1>1, <1>2, <1>3, PTL DEF Spec
=============================================================================
