------------------------------- MODULE Tcpip -------------------------------
(***************************************************************************)
(* The TCP/IP stack (kernel/net/tcpip.c) of several nodes on one network:  *)
(* sockets, the ARP cache, the TCP states.                                 *)
(*                                                                         *)
(* No check of the stack reads a sequence or acknowledgement number, so a  *)
(* segment carries only its ports, flags and data.  Data are units of one  *)
(* segment, numbered in the order they are sent; buffers count units.  The  *)
(* network keeps the order of packets and may lose them; other hosts are   *)
(* external and send ARP packets and resets.                               *)
(***************************************************************************)
EXTENDS Integers, Sequences, FiniteSets

CONSTANTS Nodes,            \* hosts that run this stack
          Others,           \* further hosts of the network
          Servers, Clients, \* nodes whose programs listen, and connect
          MAX_SOCKETS, SOCKET_BUFFER_SIZE, ARP_CACHE_SIZE,
          SERVER_PORT,
          EPHEMERAL,        \* the first port of the ephemeral range (49152)
          PORT_MOD,         \* ports wrap here (2^16)
          MAX_WIRE,         \* packets a node's receive ring holds
          MAX_CREATED,      \* bound: TCP sockets a node ever creates
          MAX_DATA,         \* bound: segments with data ever sent
          FAULTS            \* the network may lose a packet, or another host
                            \* may send a reset (bound: one of these)

ASSUME TcpipAssumption ==
  /\ Servers \subseteq Nodes /\ Clients \subseteq Nodes /\ Nodes \cap Others = {}
  /\ "none" \notin Nodes \cup Others   \* the address 0 is nobody's
  /\ {MAX_SOCKETS, SOCKET_BUFFER_SIZE, ARP_CACHE_SIZE, MAX_WIRE} \subseteq Nat \ {0}
  /\ {MAX_CREATED, MAX_DATA} \subseteq Nat
  /\ PORT_MOD \in Nat /\ SERVER_PORT \in 1..(EPHEMERAL - 1) /\ EPHEMERAL \in 1..(PORT_MOD - 1)
  /\ FAULTS \in BOOLEAN

Fds   == 0..(MAX_SOCKETS - 1)
Slots == 0..(ARP_CACHE_SIZE - 1)
Hosts == Nodes \cup Others
None  == "none"

VARIABLES sockets, next_ephemeral_port,
          arp_cache,        \* the address of each slot, None if not valid
          created, closed,  \* tcp_sockets_created, tcp_sockets_closed
          wire,             \* packets on their way to a node
          open,             \* handles whose program has not called close
          sent,             \* how many units have been sent
          last,             \* the last unit the program of a handle has read
          fault,            \* a segment other than a SYN was dropped, or a
                            \* reset was sent
          abandoned         \* a connection was given up behind the other end's
                            \* back: reset, or closed before it was accepted

vars == <<sockets, next_ephemeral_port, arp_cache, created, closed, wire, open,
          sent, last, fault, abandoned>>

TcpStates == {"CLOSED", "LISTEN", "SYN_SENT", "SYN_RECEIVED", "ESTABLISHED",
              "FIN_WAIT_1", "FIN_WAIT_2", "CLOSE_WAIT", "LAST_ACK", "TIME_WAIT"}
Unit   == [from : Nodes, port : 0..(PORT_MOD - 1), k : 1..MAX_DATA]
Socket == [active : BOOLEAN, state : TcpStates,
           local_port : 0..(PORT_MOD - 1),
           remote_ip : Hosts \cup {None}, remote_port : 0..(PORT_MOD - 1),
           timeout : BOOLEAN,              \* timeout_ms is set
           rx_buffer : Seq(Unit)]

\* No data.
NoUnit == [from |-> None, port |-> 0, k |-> 0]

\* A socket structure after memset.
Zeroed == [active |-> FALSE, state |-> "CLOSED", local_port |-> 0,
           remote_ip |-> None, remote_port |-> 0, timeout |-> FALSE,
           rx_buffer |-> <<>>]

TypeOK ==
  /\ \A n \in Nodes, fd \in Fds :
       /\ sockets[n][fd] \in Socket
       /\ Len(sockets[n][fd].rx_buffer) <= SOCKET_BUFFER_SIZE
       /\ last[n][fd] \in 0..MAX_DATA
  /\ next_ephemeral_port \in [Nodes -> EPHEMERAL..(PORT_MOD - 1)]
  /\ arp_cache \in [Nodes -> [Slots -> Hosts \cup {None}]]
  /\ created \in [Nodes -> 0..MAX_CREATED] /\ closed \in [Nodes -> 0..MAX_CREATED]
  /\ \A n \in Nodes : Len(wire[n]) <= MAX_WIRE
  /\ open \in [Nodes -> SUBSET Fds]
  /\ sent \in 0..MAX_DATA
  /\ fault \in BOOLEAN /\ abandoned \in BOOLEAN

Init ==
  /\ sockets = [n \in Nodes |-> [fd \in Fds |-> Zeroed]]
  /\ next_ephemeral_port = [n \in Nodes |-> EPHEMERAL]
  /\ arp_cache = [n \in Nodes |-> [i \in Slots |-> None]]
  /\ created = [n \in Nodes |-> 0] /\ closed = [n \in Nodes |-> 0]
  /\ wire = [n \in Nodes |-> <<>>]
  /\ open = [n \in Nodes |-> {}]
  /\ sent = 0
  /\ last = [n \in Nodes |-> [fd \in Fds |-> 0]]
  /\ fault = FALSE /\ abandoned = FALSE

-----------------------------------------------------------------------------
(* Sending.                                                                *)

arp_lookup(n, ip) == \E i \in Slots : arp_cache[n][i] = ip

\* Mutant: the address is not looked for in the slots that are valid.
AddFree(n, ip) ==
  LET usable == {i \in Slots : arp_cache[n][i] = None}
      idx == IF usable = {} THEN 0 ELSE CHOOSE i \in usable : \A j \in usable : i <= j
  IN [arp_cache EXCEPT ![n][idx] = ip]

\* The first slot that is free or holds the address, else slot 0.
arp_add(n, ip) ==
  LET usable == {i \in Slots : arp_cache[n][i] \in {None, ip}}
      idx == IF usable = {} THEN 0 ELSE CHOOSE i \in usable : \A j \in usable : i <= j
  IN [arp_cache EXCEPT ![n][idx] = ip]

\* Puts packet p on the wire to a node; a full receive ring drops it.
Put(w, to, p) ==
  IF to \in Nodes /\ Len(w[to]) < MAX_WIRE THEN [w EXCEPT ![to] = Append(@, p)] ELSE w

Arp(op, n, ip) == [kind |-> "arp", op |-> op, from |-> n, target |-> ip]

\* A broadcast; only the node asked for matters, the others just learn.
arp_request(w, n, ip) ==
  [m \in Nodes |-> IF m # n /\ Len(w[m]) < MAX_WIRE
                   THEN Append(w[m], Arp("request", n, ip)) ELSE w[m]]

\* tcp_send_packet and tcpip_send_udp: with no entry for the address an ARP
\* request goes out in the place of the packet, which is dropped.
Sent(w, n, to, p) ==
  IF arp_lookup(n, to) THEN Put(w, to, p) ELSE arp_request(w, n, to)

Dropped(w, n, to) == ~arp_lookup(n, to) \/ (to \in Nodes /\ Len(w[to]) >= MAX_WIRE)

Segment(n, s, flags, unit) ==
  [kind |-> "tcp", from |-> n, sport |-> s.local_port, dport |-> s.remote_port,
   flags |-> flags, data |-> unit]

\* Socket s of node n sends a segment; w is the wire before.
tcp_send_packet(w, n, s, flags, unit) ==
  /\ wire' = Sent(w, n, s.remote_ip, Segment(n, s, flags, unit))
  /\ fault' = (fault \/ (flags # {"SYN"} /\ Dropped(w, n, s.remote_ip)))

Quiet(w) == wire' = w /\ UNCHANGED fault

\* A program pings a host (or sends it a datagram): all that matters here is the
\* request that goes out when the address is not known.
tcpip_ping(n, to) ==
  /\ n \in Clients /\ to # n /\ ~arp_lookup(n, to) /\ created[n] = 0
  /\ Quiet(arp_request(wire, n, to))
  /\ UNCHANGED <<sockets, next_ephemeral_port, arp_cache, created, closed, open, sent, last, abandoned>>

-----------------------------------------------------------------------------
(* The socket calls.                                                       *)

Store(n, fd, s) == sockets' = [sockets EXCEPT ![n][fd] = s]

socket_create(n) ==
  /\ created[n] < MAX_CREATED
  /\ \E fd \in Fds :
       /\ ~sockets[n][fd].active /\ \A g \in 0..(fd - 1) : sockets[n][g].active
       /\ Store(n, fd, [Zeroed EXCEPT !.active = TRUE])
       /\ open' = [open EXCEPT ![n] = @ \cup {fd}]
       /\ last' = [last EXCEPT ![n][fd] = 0]
  /\ created' = [created EXCEPT ![n] = @ + 1]
  /\ UNCHANGED <<next_ephemeral_port, arp_cache, closed, wire, sent, fault, abandoned>>

\* A program binds and listens on a fresh socket.  socket_bind does not look
\* whether the port is taken: programs use a port once at a time.
BindListen(n, fd) ==
  LET s == sockets[n][fd] IN
  /\ n \in Servers /\ fd \in open[n] /\ s.active /\ s.state = "CLOSED" /\ s.local_port = 0
  /\ \A g \in Fds : sockets[n][g].local_port # SERVER_PORT
  /\ Store(n, fd, [s EXCEPT !.local_port = SERVER_PORT, !.state = "LISTEN"])
  /\ UNCHANGED <<next_ephemeral_port, arp_cache, created, closed, wire, open, sent, last, fault, abandoned>>

\* Mutant: the range is not wrapped.
NextPortNoWrap(p) == p + 1

\* The next ephemeral port, back to the start of the range after the last.
NextPort(p) == IF (p + 1) % PORT_MOD < EPHEMERAL THEN EPHEMERAL ELSE (p + 1) % PORT_MOD

\* socket_connect to a server; that the SYN was dropped is not reported.
socket_connect(n, fd, to) ==
  LET s == [sockets[n][fd] EXCEPT !.local_port = next_ephemeral_port[n],
              !.remote_ip = to, !.remote_port = SERVER_PORT]
  IN
  /\ n \in Clients /\ to # n /\ fd \in open[n]
  /\ s.active /\ s.state = "CLOSED" /\ sockets[n][fd].local_port = 0
  /\ next_ephemeral_port' = [next_ephemeral_port EXCEPT ![n] = NextPort(@)]
  /\ Store(n, fd, [s EXCEPT !.state = "SYN_SENT"])
  /\ tcp_send_packet(wire, n, s, {"SYN"}, NoUnit)
  /\ UNCHANGED <<arp_cache, created, closed, open, sent, last, abandoned>>

socket_accept(n, fd) ==
  /\ fd \in open[n] /\ sockets[n][fd].active /\ sockets[n][fd].state = "SYN_RECEIVED"
  /\ Store(n, fd, [sockets[n][fd] EXCEPT !.state = "ESTABLISHED"])
  /\ UNCHANGED <<next_ephemeral_port, arp_cache, created, closed, wire, open, sent, last, fault, abandoned>>

\* A send that cannot resolve the address fails and does not advance the stream.
socket_send(n, fd) ==
  LET s    == sockets[n][fd]
      unit == [from |-> n, port |-> s.local_port, k |-> sent + 1]
  IN
  /\ fd \in open[n] /\ s.active /\ s.state = "ESTABLISHED" /\ sent < MAX_DATA
  /\ sent' = IF arp_lookup(n, s.remote_ip) THEN sent + 1 ELSE sent
  /\ tcp_send_packet(wire, n, s, {"PSH", "ACK"}, unit)
  /\ UNCHANGED <<sockets, next_ephemeral_port, arp_cache, created, closed, open, last, abandoned>>

\* Mutant: what was read is not shifted out of the buffer.
RestKeepsAll(buffer, len) == buffer

\* The data that remain after len units are read.
Rest(buffer, len) == SubSeq(buffer, len + 1, Len(buffer))

socket_recv(n, fd) ==
  LET s == sockets[n][fd] IN
  /\ fd \in open[n] /\ s.active /\ s.rx_buffer # <<>>
  /\ \E len \in 1..Len(s.rx_buffer) :
       /\ Store(n, fd, [s EXCEPT !.rx_buffer = Rest(@, len)])
       /\ last' = [last EXCEPT ![n][fd] = s.rx_buffer[len].k]
  /\ UNCHANGED <<next_ephemeral_port, arp_cache, created, closed, wire, open, sent, fault, abandoned>>

\* Mutant: every call counts, for a socket that is still closing and for a
\* handle of a freed slot too.
CountsAlways(n, s) == closed' = [closed EXCEPT ![n] = @ + 1]

\* tcp_sockets_closed when a socket is freed; a free slot is of no type.
CountClosed(n, s) == closed' = [closed EXCEPT ![n] = IF s.active THEN @ + 1 ELSE @]

Free(n, fd) == Store(n, fd, Zeroed) /\ CountClosed(n, sockets[n][fd])

\* Mutant: an active close frees the socket at once.
ClosesAtOnce == {"CLOSE_WAIT"}

\* The states in which a close only sends a FIN.
ClosesByFin == {"ESTABLISHED", "CLOSE_WAIT"}

\* A program closes a handle, once.  The slot may have been freed by a reset
\* meanwhile, and may even be another program's by now.
socket_close(n, fd) ==
  LET s == sockets[n][fd] IN
  /\ fd \in open[n]
  /\ open' = [open EXCEPT ![n] = @ \ {fd}]
  /\ \/ /\ s.state \in ClosesByFin
        /\ Store(n, fd, [s EXCEPT !.state = IF @ = "ESTABLISHED" THEN "FIN_WAIT_1" ELSE "LAST_ACK"])
        /\ tcp_send_packet(wire, n, s, {"FIN", "ACK"}, NoUnit)
        /\ UNCHANGED closed
     \/ /\ s.state \notin ClosesByFin
        /\ Free(n, fd) /\ Quiet(wire)
  /\ abandoned' = (abandoned \/ s.state = "SYN_RECEIVED")
  /\ UNCHANGED <<next_ephemeral_port, arp_cache, created, sent, last>>

-----------------------------------------------------------------------------
(* Receiving: one packet of tcpip_poll.                                    *)

Arrives(n, kind) == wire[n] # <<>> /\ Head(wire[n]).kind = kind
Taken(n)         == [wire EXCEPT ![n] = Tail(@)]

handle_arp(n) ==
  LET p == Head(wire[n]) IN
  /\ Arrives(n, "arp")
  /\ arp_cache' = arp_add(n, p.from)
  /\ wire' = IF p.op = "request" /\ p.target = n
             THEN Put(Taken(n), p.from, Arp("reply", n, p.from)) ELSE Taken(n)
  /\ UNCHANGED <<sockets, next_ephemeral_port, created, closed, open, sent, last, fault, abandoned>>

\* The socket a packet goes to: the first with the port.
Receiver(n, port) ==
  LET match == {fd \in Fds : sockets[n][fd].active /\ sockets[n][fd].local_port = port}
  IN {fd \in match : \A g \in match : fd <= g}

HasRoom(s) == Len(s.rx_buffer) < SOCKET_BUFFER_SIZE

\* The segment ends the socket: a reset, or the answer to the last FIN.
Ends(s, p) ==
  \/ "RST" \in p.flags /\ s.state \notin {"CLOSED", "LISTEN", "SYN_RECEIVED"}
  \/ "ACK" \in p.flags /\ s.state = "LAST_ACK"

\* Mutant: the acknowledgement of the FIN is taken for the peer's FIN.
TeardownHalf(s, p) ==
  CASE s.state = "FIN_WAIT_1" /\ "ACK" \in p.flags -> "TIME_WAIT"
    [] s.state = "FIN_WAIT_2" /\ "FIN" \in p.flags -> "TIME_WAIT"
    [] OTHER -> s.state

\* The state of a socket that has sent its FIN first, after a segment; any
\* acknowledgement counts as that of the FIN.
Teardown(s, p) ==
  CASE s.state = "FIN_WAIT_1" /\ {"FIN", "ACK"} \subseteq p.flags -> "TIME_WAIT"
    [] s.state = "FIN_WAIT_1" /\ "FIN" \notin p.flags /\ "ACK" \in p.flags -> "FIN_WAIT_2"
    [] s.state = "FIN_WAIT_2" /\ "FIN" \in p.flags -> "TIME_WAIT"
    [] OTHER -> s.state

\* The socket after a segment that does not end it.
Handled(s, p) ==
  CASE s.state = "LISTEN" /\ "SYN" \in p.flags ->
         [s EXCEPT !.state = "SYN_RECEIVED", !.remote_ip = p.from, !.remote_port = p.sport]
    [] s.state = "SYN_RECEIVED" /\ "RST" \in p.flags ->
         [s EXCEPT !.state = "LISTEN", !.remote_ip = None, !.remote_port = 0]
    [] s.state = "SYN_SENT" /\ {"SYN", "ACK"} \subseteq p.flags ->
         [s EXCEPT !.state = "ESTABLISHED"]
    [] s.state = "ESTABLISHED" /\ "FIN" \in p.flags ->
         [s EXCEPT !.state = "CLOSE_WAIT"]
    [] s.state = "ESTABLISHED" /\ "FIN" \notin p.flags /\ "ACK" \in p.flags
         /\ p.data # NoUnit /\ HasRoom(s) ->
         [s EXCEPT !.rx_buffer = Append(@, p.data)]
    [] s.state = "TIME_WAIT" -> [s EXCEPT !.timeout = TRUE]
    [] OTHER -> [s EXCEPT !.state = Teardown(s, p)]

\* Mutant: only an established socket acknowledges a FIN.
AcksFinOnce == {"ESTABLISHED"}

\* The states in which a FIN is acknowledged.
AcksFin == {"ESTABLISHED", "FIN_WAIT_2", "TIME_WAIT"}

\* The flags of the answer to a segment, {} for none.
Answer(s, p) ==
  CASE s.state = "LISTEN" /\ "SYN" \in p.flags -> {"SYN", "ACK"}
    [] s.state = "SYN_SENT" /\ {"SYN", "ACK"} \subseteq p.flags -> {"ACK"}
    [] s.state \in AcksFin /\ "FIN" \in p.flags -> {"ACK"}
    [] s.state = "FIN_WAIT_1" /\ {"FIN", "ACK"} \subseteq p.flags -> {"ACK"}
    [] OTHER -> {}

\* handle_tcp with segment p; w is the wire without it.
Deliver(n, p, w) ==
  IF Receiver(n, p.dport) = {}
  THEN Quiet(w) /\ UNCHANGED <<sockets, closed>>
  ELSE \E fd \in Receiver(n, p.dport) :
         LET s == sockets[n][fd] IN
         IF Ends(s, p)
         THEN Free(n, fd) /\ Quiet(w)
         ELSE /\ Store(n, fd, Handled(s, p)) /\ UNCHANGED closed
              /\ IF Answer(s, p) = {} THEN Quiet(w)
                 ELSE tcp_send_packet(w, n, Handled(s, p), Answer(s, p), NoUnit)

handle_tcp(n) ==
  /\ Arrives(n, "tcp")
  /\ Deliver(n, Head(wire[n]), Taken(n))
  /\ UNCHANGED <<next_ephemeral_port, arp_cache, created, open, sent, last, abandoned>>

\* tcpip_check_timeouts, once the time of a socket is up.
tcpip_check_timeouts(n) ==
  /\ \E fd \in Fds : /\ sockets[n][fd].active /\ sockets[n][fd].timeout
                     /\ Free(n, fd)
  /\ UNCHANGED <<next_ephemeral_port, arp_cache, created, wire, open, sent, last, fault, abandoned>>

-----------------------------------------------------------------------------
(* The network and its other hosts.                                        *)

Lose(n) ==
  /\ FAULTS /\ ~fault /\ wire[n] # <<>>
  /\ wire' = Taken(n) /\ fault' = TRUE
  /\ UNCHANGED <<sockets, next_ephemeral_port, arp_cache, created, closed, open, sent, last, abandoned>>

\* Another host looks for a client (bound: not for a server).
OtherArp(n, h) ==
  /\ n \in Clients
  /\ arp_cache' = arp_add(n, h)
  /\ UNCHANGED <<sockets, next_ephemeral_port, created, closed, wire, open, sent, last, fault, abandoned>>

\* A reset for a socket, from a host between or a peer that restarted.
OtherReset(n, fd) ==
  LET s == sockets[n][fd] IN
  /\ FAULTS /\ ~fault /\ s.remote_ip # None
  /\ wire' = Put(wire, n, [kind |-> "tcp", from |-> s.remote_ip, sport |-> s.remote_port,
                          dport |-> s.local_port, flags |-> {"RST"}, data |-> NoUnit])
  /\ fault' = TRUE /\ abandoned' = TRUE
  /\ UNCHANGED <<sockets, next_ephemeral_port, arp_cache, created, closed, open, sent, last>>

-----------------------------------------------------------------------------
Program(n) ==
  \/ socket_create(n)
  \/ \E to \in Servers : tcpip_ping(n, to)
  \/ \E fd \in Fds :
       \/ BindListen(n, fd) \/ socket_accept(n, fd) \/ socket_close(n, fd)
       \/ socket_send(n, fd) \/ socket_recv(n, fd)
       \/ \E to \in Servers : socket_connect(n, fd, to)

tcpip_poll(n) == handle_arp(n) \/ handle_tcp(n)

Network(n) ==
  \/ Lose(n)
  \/ \E h \in Others : OtherArp(n, h)
  \/ \E fd \in Fds : OtherReset(n, fd)

Next == \E n \in Nodes : Program(n) \/ tcpip_poll(n) \/ tcpip_check_timeouts(n) \/ Network(n)

Spec == Init /\ [][Next]_vars

\* Every node keeps polling, and time passes.
FairSpec ==
  /\ Spec
  /\ \A n \in Nodes : WF_vars(tcpip_poll(n))
  /\ \A n \in Nodes : WF_vars(tcpip_check_timeouts(n))

-----------------------------------------------------------------------------
(* Properties.                                                             *)

\* The leak counter, created minus closed, is the number of TCP sockets in
\* use, whatever mixture of closes, resets, timeouts and stale handles there was.
SocketsAccounted ==
  \A n \in Nodes :
    created[n] - closed[n] = Cardinality({fd \in Fds : sockets[n][fd].active})

\* An address is in the ARP cache once, though arp_add may take a free slot
\* before it has looked at all the others.
ArpUnique ==
  \A n \in Nodes, i, j \in Slots :
    arp_cache[n][i] = arp_cache[n][j] /\ arp_cache[n][i] # None => i = j

\* What a program reads of a socket is in the order it was sent, each unit once,
\* over any partial reads and data appended behind what is unread.
InOrder(n, fd) ==
  LET buffer == sockets[n][fd].rx_buffer IN
  \A i \in DOMAIN buffer :
    buffer[i].k > last[n][fd] /\ \A j \in 1..(i - 1) : buffer[j].k < buffer[i].k

\* The data are the peer's.
OfPeer(s) ==
  \A i \in DOMAIN s.rx_buffer :
    s.rx_buffer[i].from = s.remote_ip /\ s.rx_buffer[i].port = s.remote_port

\* Nobody else gets at what the socket at a port receives: the socket of a
\* connection's active end for its port is its own, the one at the server's port
\* as long as no connection was given up behind a client's back.
Exclusive(s) == s.local_port # SERVER_PORT \/ ~abandoned

\* Data arrive in order and, with any number of clients, from the peer only,
\* though nothing checks sequence numbers and handle_tcp looks at nothing but
\* the destination port.  This rests on the order of the network, on ports that
\* are used once, and on a port that only a SYN leads to after an orderly close.
DataInOrder ==
  \A n \in Nodes, fd \in Fds :
    InOrder(n, fd) /\ (Exclusive(sockets[n][fd]) => OfPeer(sockets[n][fd]))

\* A socket waits out TIME_WAIT only when both ends have closed: no socket
\* that is its peer can still send.
Peers(n, fd, m, g) ==
  /\ sockets[m][g].remote_ip = n /\ sockets[m][g].remote_port = sockets[n][fd].local_port
  /\ sockets[n][fd].remote_ip = m /\ sockets[n][fd].remote_port = sockets[m][g].local_port
TimeWaitBothClosed ==
  \A n, m \in Nodes : \A fd, g \in Fds :
    sockets[n][fd].state = "TIME_WAIT" /\ Exclusive(sockets[n][fd]) /\ Peers(n, fd, m, g)
      => sockets[m][g].state \notin {"SYN_RECEIVED", "ESTABLISHED", "CLOSE_WAIT"}

\* A passive close cannot be stuck: while a socket is in LAST_ACK, its FIN or
\* the answer to it is on the wire, unless a segment was dropped or somebody
\* was reset.  (Nothing is sent twice, so this is all that frees the socket.)
LastAckPending ==
  \A n \in Nodes, fd \in Fds :
    LET s == sockets[n][fd] IN
    s.state = "LAST_ACK" /\ ~fault /\ ~abandoned =>
      \/ \E i \in DOMAIN wire[n] : LET p == wire[n][i] IN
           p.kind = "tcp" /\ p.dport = s.local_port /\ "ACK" \in p.flags
      \/ \E i \in DOMAIN wire[s.remote_ip] : LET p == wire[s.remote_ip][i] IN
           p.kind = "tcp" /\ p.sport = s.local_port /\ "FIN" \in p.flags

\* Closing is sound from both ends: neither TIME_WAIT nor LAST_ACK is entered
\* on a misread acknowledgement.
ClosingSound == TimeWaitBothClosed /\ LastAckPending

\* test_tcp_hardening.c:409: a socket in TIME_WAIT has its timeout set and is
\* cleaned up when it expires.
TimeWaitEnds ==
  \A n \in Nodes, fd \in Fds :
    (sockets[n][fd].state = "TIME_WAIT") ~> (sockets[n][fd].state # "TIME_WAIT")
=============================================================================
