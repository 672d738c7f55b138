--------------------------- MODULE NetworkProofs ---------------------------
(***************************************************************************)
(* Proofs about Tcpip, for any hosts, table sizes and faults, and about    *)
(* Ethercat, for any configurations and process data.                      *)
(***************************************************************************)
EXTENDS MCNetwork, QueueTheorems, FiniteSetTheorems

-----------------------------------------------------------------------------
(* Tcpip: the types of packets and tables.                                 *)

Ports    == 0..(PORT_MOD - 1)
AllFlags == {"SYN", "ACK", "FIN", "RST", "PSH"}
ArpPacket == [kind : {"arp"}, op : {"request", "reply"}, from : Nodes, target : Hosts \cup {None}]
TcpPacket == [kind : {"tcp"}, from : Hosts, sport : Ports, dport : Ports,
              flags : SUBSET AllFlags, data : Unit \cup {NoUnit}]
Packet    == ArpPacket \cup TcpPacket

SocketOK(s) == s \in Socket /\ Len(s.rx_buffer) <= SOCKET_BUFFER_SIZE
SocketsOK   == /\ sockets \in [Nodes -> [Fds -> Socket]]
               /\ \A n \in Nodes, fd \in Fds : SocketOK(sockets[n][fd])
WireOK(w)   == w \in [Nodes -> Seq(Packet)] /\ \A n \in Nodes : Len(w[n]) <= MAX_WIRE

TcpTypeInv ==
  /\ SocketsOK /\ WireOK(wire)
  /\ last \in [Nodes -> [Fds -> 0..MAX_DATA]] /\ sent \in 0..MAX_DATA
  /\ next_ephemeral_port \in [Nodes -> EPHEMERAL..(PORT_MOD - 1)]
  /\ arp_cache \in [Nodes -> [Slots -> Hosts \cup {None}]]
  /\ created \in [Nodes -> 0..MAX_CREATED] /\ closed \in [Nodes -> Nat]
  /\ open \in [Nodes -> SUBSET Fds]
  /\ fault \in BOOLEAN /\ abandoned \in BOOLEAN

-----------------------------------------------------------------------------
LEMMA Bounds ==
  /\ MAX_SOCKETS \in Nat \ {0} /\ SOCKET_BUFFER_SIZE \in Nat \ {0}
  /\ ARP_CACHE_SIZE \in Nat \ {0} /\ MAX_WIRE \in Nat \ {0}
  /\ MAX_CREATED \in Nat /\ MAX_DATA \in Nat
  /\ PORT_MOD \in Nat \ {0} /\ EPHEMERAL \in Ports /\ SERVER_PORT \in Ports /\ 0 \in Ports
<1>1. {MAX_SOCKETS, SOCKET_BUFFER_SIZE, ARP_CACHE_SIZE, MAX_WIRE} \subseteq Nat \ {0}
  BY TcpipAssumption
<1>2. {MAX_CREATED, MAX_DATA} \subseteq Nat
  BY TcpipAssumption
<1>3. /\ PORT_MOD \in Nat \ {0} /\ EPHEMERAL \in Ports /\ SERVER_PORT \in Ports /\ 0 \in Ports
  BY TcpipAssumption DEF Ports
<1> QED BY <1>1, <1>2, <1>3

LEMMA NoneIsNew == NoUnit \notin Unit
BY TcpipAssumption DEF NoUnit, Unit

LEMMA ZeroedOK == SocketOK(Zeroed) /\ SocketOK([Zeroed EXCEPT !.active = TRUE])
<1>1. <<>> \in Seq(Unit) /\ Len(<<>>) = 0 /\ 0 \in 0..MAX_DATA /\ 0 <= SOCKET_BUFFER_SIZE
  BY Bounds
<1>2. Zeroed \in Socket /\ Zeroed.rx_buffer = <<>>
  BY <1>1, Bounds DEF Zeroed, Socket, TcpStates, Ports
<1>3. [Zeroed EXCEPT !.active = TRUE] \in Socket /\ [Zeroed EXCEPT !.active = TRUE].rx_buffer = <<>>
  BY <1>1, Bounds DEF Zeroed, Socket, TcpStates, Ports
<1> QED BY <1>1, <1>2, <1>3 DEF SocketOK

\* Changes of a socket that keep it one, in use as before.
LEMMA StateOK ==
  ASSUME NEW s, SocketOK(s), NEW st \in TcpStates
  PROVE  SocketOK([s EXCEPT !.state = st]) /\ [s EXCEPT !.state = st].active = s.active
BY DEF SocketOK, Socket

LEMMA ListenOK ==
  ASSUME NEW s, SocketOK(s), NEW port \in Ports
  PROVE  SocketOK([s EXCEPT !.local_port = port, !.state = "LISTEN"])
BY DEF SocketOK, Socket, Ports, TcpStates

LEMMA ConnectOK ==
  ASSUME NEW t, SocketOK(t), NEW port \in Ports, NEW ip \in Hosts, NEW peer \in Ports
  PROVE  LET s == [t EXCEPT !.local_port = port, !.remote_ip = ip, !.remote_port = peer]
         IN SocketOK(s) /\ SocketOK([s EXCEPT !.state = "SYN_SENT"])
BY DEF SocketOK, Socket, Ports, TcpStates

\* What is left of a buffer is a buffer, and no longer.
LEMMA RestOK ==
  ASSUME NEW S, NEW b \in Seq(S), NEW len \in 1..Len(b)
  PROVE  Rest(b, len) \in Seq(S) /\ Len(Rest(b, len)) \in Nat /\ Len(Rest(b, len)) <= Len(b)
<1>1. Len(b) \in Nat /\ len \in 1..Len(b) /\ \A i \in 1..Len(b) : b[i] \in S
  OBVIOUS
<1>2. \A i \in (len + 1)..Len(b) : b[i] \in S
  BY <1>1
<1>3. Len(Rest(b, len)) = IF len + 1 <= Len(b) THEN Len(b) - (len + 1) + 1 ELSE 0
  BY <1>1, SMTT(30) DEF Rest
<1>4. Rest(b, len) \in Seq(S)
  BY <1>1, <1>2, SMTT(30) DEF Rest
<1> QED BY <1>1, <1>3, <1>4

LEMMA BufferOK ==
  ASSUME NEW s, SocketOK(s), NEW buffer \in Seq(Unit), Len(buffer) <= SOCKET_BUFFER_SIZE
  PROVE  LET r == [s EXCEPT !.rx_buffer = buffer]
         IN SocketOK(r) /\ r.active = s.active
BY DEF SocketOK, Socket

LEMMA SocketFields ==
  ASSUME SocketsOK, NEW n \in Nodes, NEW fd \in Fds
  PROVE  LET s == sockets[n][fd] IN
         /\ SocketOK(s) /\ s \in Socket /\ s.state \in TcpStates /\ s.active \in BOOLEAN
         /\ s.local_port \in Ports /\ s.remote_ip \in Hosts \cup {None} /\ s.remote_port \in Ports
         /\ s.rx_buffer \in Seq(Unit) /\ Len(s.rx_buffer) \in 0..SOCKET_BUFFER_SIZE
BY Bounds DEF SocketsOK, SocketOK, Socket, Ports

LEMMA StoreOK ==
  ASSUME SocketsOK, NEW n \in Nodes, NEW fd \in Fds, NEW s, SocketOK(s), Store(n, fd, s)
  PROVE  SocketsOK'
<1>1. /\ s \in Socket
      /\ sockets' = [sockets EXCEPT ![n][fd] = s]
  BY DEF SocketOK, Store
<1>2. sockets' \in [Nodes -> [Fds -> Socket]]
  BY <1>1 DEF SocketsOK
<1>3. \A m \in Nodes, g \in Fds : sockets'[m][g] = IF m = n /\ g = fd THEN s ELSE sockets[m][g]
  BY <1>1 DEF SocketsOK
<1> QED BY <1>2, <1>3 DEF SocketsOK

LEMMA PutOK ==
  ASSUME NEW w, WireOK(w), NEW to, NEW p \in Packet
  PROVE  WireOK(Put(w, to, p))
<1>1. CASE to \in Nodes /\ Len(w[to]) < MAX_WIRE
  <2>1. Put(w, to, p) = [w EXCEPT ![to] = Append(w[to], p)]
    BY <1>1 DEF Put
  <2>2. w[to] \in Seq(Packet) /\ Append(w[to], p) \in Seq(Packet)
        /\ Len(Append(w[to], p)) = Len(w[to]) + 1 /\ Len(w[to]) \in Nat
    BY <1>1 DEF WireOK
  <2> QED BY <1>1, <2>1, <2>2, TcpipAssumption DEF WireOK
<1>2. CASE ~(to \in Nodes /\ Len(w[to]) < MAX_WIRE)
  BY <1>2 DEF Put
<1> QED BY <1>1, <1>2

LEMMA RequestOK ==
  ASSUME NEW w, WireOK(w), NEW n \in Nodes, NEW ip \in Hosts \cup {None}
  PROVE  WireOK(arp_request(w, n, ip))
<1> DEFINE p == Arp("request", n, ip)
<1>1. p \in Packet
  BY DEF Arp, Packet, ArpPacket
<1> HIDE DEF p
<1>2. \A m \in Nodes : /\ w[m] \in Seq(Packet) /\ Append(w[m], p) \in Seq(Packet)
                       /\ Len(Append(w[m], p)) = Len(w[m]) + 1 /\ Len(w[m]) \in Nat
  BY <1>1 DEF WireOK
<1>3. arp_request(w, n, ip) = [m \in Nodes |-> IF m # n /\ Len(w[m]) < MAX_WIRE
                                              THEN Append(w[m], p) ELSE w[m]]
  BY DEF arp_request, p
<1> QED BY <1>2, <1>3, TcpipAssumption DEF WireOK

LEMMA SendOK ==
  ASSUME NEW w, WireOK(w), NEW n \in Nodes, NEW s, SocketOK(s),
         NEW flags \in SUBSET AllFlags, NEW unit \in Unit \cup {NoUnit},
         fault \in BOOLEAN, tcp_send_packet(w, n, s, flags, unit)
  PROVE  WireOK(wire') /\ fault' \in BOOLEAN
<1>1. Segment(n, s, flags, unit) \in Packet /\ s.remote_ip \in Hosts \cup {None}
  BY DEF SocketOK, Socket, Segment, Packet, TcpPacket, Hosts, Ports
<1>2. WireOK(wire')
  BY <1>1, PutOK, RequestOK DEF tcp_send_packet, Sent
<1> QED BY <1>2 DEF tcp_send_packet

LEMMA TakenOK ==
  ASSUME TcpTypeInv, NEW n \in Nodes, wire[n] # <<>>
  PROVE  WireOK(Taken(n)) /\ Head(wire[n]) \in Packet
<1>1. wire[n] \in Seq(Packet) /\ Len(wire[n]) <= MAX_WIRE
  BY DEF TcpTypeInv, WireOK
<1>2. /\ Tail(wire[n]) \in Seq(Packet) /\ Len(Tail(wire[n])) = Len(wire[n]) - 1
      /\ Head(wire[n]) \in Packet
  BY <1>1
<1>3. Len(Tail(wire[n])) <= MAX_WIRE
  BY <1>1, <1>2, TcpipAssumption
<1> QED BY <1>1, <1>2, <1>3 DEF TcpTypeInv, WireOK, Taken

LEMMA ArrivesTcp ==
  ASSUME TcpTypeInv, NEW n \in Nodes, Arrives(n, "tcp")
  PROVE  WireOK(Taken(n)) /\ Head(wire[n]) \in TcpPacket
BY TakenOK DEF Arrives, Packet, ArpPacket

LEMMA ArrivesArp ==
  ASSUME TcpTypeInv, NEW n \in Nodes, Arrives(n, "arp")
  PROVE  WireOK(Taken(n)) /\ Head(wire[n]) \in ArpPacket
BY TakenOK DEF Arrives, Packet, TcpPacket

LEMMA ReceiverFound ==
  ASSUME NEW n \in Nodes, NEW port
  PROVE  \A fd \in Receiver(n, port) : fd \in Fds /\ sockets[n][fd].active
BY DEF Receiver

\* What a segment makes of a socket is a socket, in use as before.
LEMMA HandledOK ==
  ASSUME NEW s, SocketOK(s), NEW p \in TcpPacket
  PROVE  SocketOK(Handled(s, p)) /\ Handled(s, p).active = s.active
<1>1. /\ s \in Socket /\ s.rx_buffer \in Seq(Unit) /\ s.state \in TcpStates /\ Len(s.rx_buffer) \in Nat
      /\ Len(s.rx_buffer) <= SOCKET_BUFFER_SIZE
      /\ p.from \in Hosts \cup {None} /\ p.sport \in Ports /\ p.data \in Unit \cup {NoUnit}
  BY DEF SocketOK, Socket, TcpPacket
<1>2. Teardown(s, p) \in TcpStates
  BY <1>1 DEF Teardown, TcpStates
<1>4. LET r == [s EXCEPT !.timeout = TRUE] IN SocketOK(r) /\ r.active = s.active
  BY <1>1 DEF SocketOK, Socket
<1>7. ASSUME p.data # NoUnit, HasRoom(s)
      PROVE  LET r == [s EXCEPT !.rx_buffer = Append(s.rx_buffer, p.data)]
             IN SocketOK(r) /\ r.active = s.active
  <2>1. /\ Append(s.rx_buffer, p.data) \in Seq(Unit)
        /\ Len(Append(s.rx_buffer, p.data)) = Len(s.rx_buffer) + 1
    BY <1>1, <1>7
  <2>2. Len(Append(s.rx_buffer, p.data)) <= SOCKET_BUFFER_SIZE
    BY <1>1, <1>7, <2>1, Bounds DEF HasRoom
  <2> QED BY <2>1, <2>2, BufferOK
<1>8. {"SYN_RECEIVED", "LISTEN", "ESTABLISHED", "CLOSE_WAIT"} \subseteq TcpStates
  BY DEF TcpStates
<1>3. ASSUME NEW st \in TcpStates
      PROVE  SocketOK([s EXCEPT !.state = st]) /\ [s EXCEPT !.state = st].active = s.active
  BY StateOK
<1>5. LET r == [s EXCEPT !.state = "SYN_RECEIVED", !.remote_ip = p.from, !.remote_port = p.sport]
      IN SocketOK(r) /\ r.active = s.active
  BY <1>1 DEF SocketOK, Socket, Ports, TcpStates
<1>6. LET r == [s EXCEPT !.state = "LISTEN", !.remote_ip = None, !.remote_port = 0]
      IN SocketOK(r) /\ r.active = s.active
  BY <1>1, Bounds DEF SocketOK, Socket, Ports, TcpStates
<1> QED BY <1>2, <1>3, <1>4, <1>5, <1>6, <1>7, <1>8 DEF Handled

LEMMA FirstUsable ==
  ASSUME NEW usable \in SUBSET Slots, usable # {}
  PROVE  LET idx == CHOOSE i \in usable : \A j \in usable : i <= j
         IN idx \in usable /\ \A j \in usable : idx <= j
<1>1. usable \in SUBSET Nat
  BY Bounds DEF Slots
<1>2. \E i \in usable : \A j \in usable : i <= j
  BY <1>1, MinOfNaturals
<1> QED BY <1>2

LEMMA ArpAdded ==
  ASSUME arp_cache \in [Nodes -> [Slots -> Hosts \cup {None}]], NEW n \in Nodes, NEW ip \in Hosts
  PROVE  \E idx \in Slots :
           /\ arp_add(n, ip) = [arp_cache EXCEPT ![n][idx] = ip]
           /\ \/ \A j \in Slots : arp_cache[n][j] \notin {None, ip}
              \/ /\ arp_cache[n][idx] \in {None, ip}
                 /\ \A j \in Slots : j < idx => arp_cache[n][j] \notin {None, ip}
<1> DEFINE usable == {i \in Slots : arp_cache[n][i] \in {None, ip}}
           first  == CHOOSE i \in usable : \A j \in usable : i <= j
           idx    == IF usable = {} THEN 0 ELSE first
<1>1. arp_add(n, ip) = [arp_cache EXCEPT ![n][idx] = ip]
  BY DEF arp_add
<1>2. usable # {} => first \in usable /\ \A j \in usable : first <= j
  BY FirstUsable
<1> HIDE DEF first
<1>3. 0 \in Slots
  BY Bounds DEF Slots
<1>4. idx \in Slots
  BY <1>2, <1>3
<1>5. CASE usable = {}
  BY <1>1, <1>4, <1>5
<1>6. CASE usable # {}
  <2>1. \A j \in Slots : j < idx => j \notin usable
    BY <1>2, <1>6, Bounds DEF Slots
  <2> QED BY <1>1, <1>2, <1>4, <1>6, <2>1
<1> QED BY <1>5, <1>6

-----------------------------------------------------------------------------
(* Type correctness, one lemma per group of actions.                       *)

LEMMA NextPortType ==
  ASSUME NEW p \in EPHEMERAL..(PORT_MOD - 1)
  PROVE  NextPort(p) \in EPHEMERAL..(PORT_MOD - 1)
<1>1. (p + 1) % PORT_MOD \in 0..(PORT_MOD - 1)
  BY Bounds DEF Ports
<1> QED BY <1>1, Bounds DEF NextPort, Ports

LEMMA FreeType ==
  ASSUME TcpTypeInv, NEW n \in Nodes, NEW fd \in Fds, Free(n, fd)
  PROVE  SocketsOK' /\ closed' \in [Nodes -> Nat]
BY ZeroedOK, StoreOK DEF TcpTypeInv, Free, CountClosed

LEMMA CallsType ==
  ASSUME TcpTypeInv, NEW n \in Nodes, Program(n)
  PROVE  TcpTypeInv'
<1> USE DEF TcpTypeInv
<1>1. CASE socket_create(n)
  <2>1. PICK fd \in Fds : Store(n, fd, [Zeroed EXCEPT !.active = TRUE])
                          /\ open' = [open EXCEPT ![n] = open[n] \cup {fd}]
                          /\ last' = [last EXCEPT ![n][fd] = 0]
    BY <1>1 DEF socket_create
  <2>2. SocketsOK'
    BY <2>1, ZeroedOK, StoreOK
  <2>3. created' \in [Nodes -> 0..MAX_CREATED] /\ 0 \in 0..MAX_DATA
    BY <1>1, Bounds DEF socket_create
  <2> QED BY <1>1, <2>1, <2>2, <2>3 DEF socket_create
<1>2. ASSUME NEW fd \in Fds, BindListen(n, fd)
      PROVE  TcpTypeInv'
  <2> DEFINE s == sockets[n][fd]
  <2>1. SocketOK([s EXCEPT !.local_port = SERVER_PORT, !.state = "LISTEN"])
    BY Bounds, SocketFields, ListenOK
  <2>2. SocketsOK'
    BY <1>2, <2>1, StoreOK DEF BindListen
  <2> QED BY <1>2, <2>2 DEF BindListen
<1>3. ASSUME NEW fd \in Fds, socket_accept(n, fd)
      PROVE  TcpTypeInv'
  <2>1. SocketOK([sockets[n][fd] EXCEPT !.state = "ESTABLISHED"])
    BY SocketFields, StateOK DEF TcpStates
  <2>2. SocketsOK'
    BY <1>3, <2>1, StoreOK DEF socket_accept
  <2> QED BY <1>3, <2>2 DEF socket_accept
<1>4. ASSUME NEW fd \in Fds, socket_close(n, fd)
      PROVE  TcpTypeInv'
  <2> DEFINE s == sockets[n][fd]
  <2>1. open' \in [Nodes -> SUBSET Fds] /\ abandoned' \in BOOLEAN
    BY <1>4 DEF socket_close
  <2>2. CASE s.state \in ClosesByFin
    <3> DEFINE r == [s EXCEPT !.state = IF s.state = "ESTABLISHED" THEN "FIN_WAIT_1" ELSE "LAST_ACK"]
    <3>1. SocketOK(s) /\ SocketOK(r)
      BY SocketFields, StateOK DEF TcpStates
    <3>2. Store(n, fd, r) /\ tcp_send_packet(wire, n, s, {"FIN", "ACK"}, NoUnit) /\ UNCHANGED closed
      BY <1>4, <2>2 DEF socket_close
    <3>3. SocketsOK'
      BY <3>1, <3>2, StoreOK
    <3>4. WireOK(wire') /\ fault' \in BOOLEAN
      <4>1. {"FIN", "ACK"} \in SUBSET AllFlags
        BY DEF AllFlags
      <4> QED BY <3>1, <3>2, <4>1, SendOK
    <3> QED BY <1>4, <2>1, <3>2, <3>3, <3>4 DEF socket_close
  <2>3. CASE s.state \notin ClosesByFin
    <3>1. Free(n, fd) /\ Quiet(wire)
      BY <1>4, <2>3 DEF socket_close
    <3> QED BY <1>4, <2>1, <3>1, FreeType DEF socket_close, Quiet
  <2> QED BY <2>2, <2>3
<1>5. ASSUME NEW fd \in Fds, socket_send(n, fd)
      PROVE  TcpTypeInv'
  <2> DEFINE s    == sockets[n][fd]
             unit == [from |-> n, port |-> s.local_port, k |-> sent + 1]
  <2>1. sent < MAX_DATA /\ tcp_send_packet(wire, n, s, {"PSH", "ACK"}, unit)
        /\ sent' = IF arp_lookup(n, s.remote_ip) THEN sent + 1 ELSE sent
    BY <1>5 DEF socket_send
  <2>2. SocketOK(s) /\ s.local_port \in Ports
    BY DEF SocketsOK, SocketOK, Socket, Ports
  <2>3. sent + 1 \in 1..MAX_DATA /\ sent' \in 0..MAX_DATA
    BY <2>1, Bounds
  <2>4. unit \in Unit /\ {"PSH", "ACK"} \in SUBSET AllFlags
    BY <2>2, <2>3 DEF Unit, AllFlags, Ports
  <2> HIDE DEF unit, s
  <2>6. WireOK(wire') /\ fault' \in BOOLEAN
    BY <2>1, <2>2, <2>4, SendOK
  <2> QED BY <1>5, <2>3, <2>6 DEF socket_send, SocketsOK
<1>6. ASSUME NEW fd \in Fds, socket_recv(n, fd)
      PROVE  TcpTypeInv'
  <2> DEFINE s == sockets[n][fd]
  <2>1. PICK len \in 1..Len(s.rx_buffer) :
          /\ Store(n, fd, [s EXCEPT !.rx_buffer = Rest(s.rx_buffer, len)])
          /\ last' = [last EXCEPT ![n][fd] = s.rx_buffer[len].k]
    BY <1>6 DEF socket_recv
  <2>2. SocketOK(s) /\ s \in Socket /\ s.rx_buffer \in Seq(Unit) /\ Len(s.rx_buffer) \in Nat
    BY DEF SocketsOK, SocketOK, Socket
  <2>3. s.rx_buffer[len].k \in 0..MAX_DATA
    <3>1. s.rx_buffer[len] \in Unit
      BY <2>2
    <3>2. \A u \in Unit : u.k \in 0..MAX_DATA
      BY Bounds DEF Unit
    <3> QED BY <3>1, <3>2
  <2>4. /\ Rest(s.rx_buffer, len) \in Seq(Unit)
        /\ Len(Rest(s.rx_buffer, len)) <= Len(s.rx_buffer)
    BY <2>2, RestOK
  <2>5. SocketOK([s EXCEPT !.rx_buffer = Rest(s.rx_buffer, len)])
    <3>1. Len(Rest(s.rx_buffer, len)) \in Nat /\ Len(s.rx_buffer) <= SOCKET_BUFFER_SIZE
      BY <2>2, <2>4 DEF SocketOK
    <3>2. Len(Rest(s.rx_buffer, len)) <= SOCKET_BUFFER_SIZE
      <4>1. SOCKET_BUFFER_SIZE \in Nat /\ Len(s.rx_buffer) \in Nat
        BY <2>2, Bounds
      <4> HIDE DEF s
      <4> QED BY <2>4, <3>1, <4>1
    <3> QED BY <2>2, <2>4, <3>2, BufferOK
  <2>6. SocketsOK'
    BY <2>1, <2>5, StoreOK
  <2> QED BY <1>6, <2>1, <2>3, <2>6 DEF socket_recv
<1>7. ASSUME NEW fd \in Fds, NEW to \in Servers, socket_connect(n, fd, to)
      PROVE  TcpTypeInv'
  <2> DEFINE s == [sockets[n][fd] EXCEPT !.local_port = next_ephemeral_port[n],
                     !.remote_ip = to, !.remote_port = SERVER_PORT]
             r == [s EXCEPT !.state = "SYN_SENT"]
  <2>1. /\ Store(n, fd, r) /\ tcp_send_packet(wire, n, s, {"SYN"}, NoUnit)
        /\ next_ephemeral_port' = [next_ephemeral_port EXCEPT ![n] = NextPort(next_ephemeral_port[n])]
    BY <1>7 DEF socket_connect
  <2>2. to \in Hosts /\ next_ephemeral_port[n] \in EPHEMERAL..(PORT_MOD - 1)
    BY TcpipAssumption DEF Hosts
  <2>3. next_ephemeral_port[n] \in Ports
    BY <2>2, Bounds DEF Ports
  <2>4. SocketOK(s) /\ SocketOK(r)
    BY <2>2, <2>3, Bounds, SocketFields, ConnectOK
  <2> HIDE DEF r, s
  <2>5. SocketsOK'
    BY <2>1, <2>4, StoreOK
  <2>6. WireOK(wire') /\ fault' \in BOOLEAN
    <3>1. {"SYN"} \in SUBSET AllFlags
      BY DEF AllFlags
    <3> QED BY <2>1, <2>4, <3>1, SendOK
  <2>7. next_ephemeral_port' \in [Nodes -> EPHEMERAL..(PORT_MOD - 1)]
    BY <2>1, <2>2, NextPortType
  <2> QED BY <1>7, <2>5, <2>6, <2>7 DEF socket_connect
<1>8. ASSUME NEW to \in Servers, tcpip_ping(n, to)
      PROVE  TcpTypeInv'
  <2>1. wire' = arp_request(wire, n, to) /\ to \in Hosts
    BY <1>8, TcpipAssumption DEF tcpip_ping, Quiet, Hosts
  <2>2. WireOK(wire')
    BY <2>1, RequestOK
  <2> QED BY <1>8, <2>2 DEF tcpip_ping, Quiet, SocketsOK
<1> QED BY <1>1, <1>2, <1>3, <1>4, <1>5, <1>6, <1>7, <1>8 DEF Program

LEMMA PollType ==
  ASSUME TcpTypeInv, NEW n \in Nodes, tcpip_poll(n)
  PROVE  TcpTypeInv'
<1> USE DEF TcpTypeInv
<1> DEFINE p == Head(wire[n])
           w == Taken(n)
<1>1. CASE handle_arp(n)
  <2>1. Arrives(n, "arp") /\ arp_cache' = arp_add(n, p.from)
        /\ wire' = IF p.op = "request" /\ p.target = n
                   THEN Put(w, p.from, Arp("reply", n, p.from)) ELSE w
    BY <1>1 DEF handle_arp
  <2>2. WireOK(w) /\ p \in ArpPacket
    BY <2>1, ArrivesArp
  <2>3. p.from \in Nodes /\ p.from \in Hosts /\ Arp("reply", n, p.from) \in Packet
    BY <2>2 DEF ArpPacket, Hosts, Arp, Packet
  <2> HIDE DEF p, w
  <2>4. WireOK(wire')
    BY <2>1, <2>2, <2>3, PutOK
  <2>5. arp_cache' \in [Nodes -> [Slots -> Hosts \cup {None}]]
    <3>1. PICK idx \in Slots : arp_cache' = [arp_cache EXCEPT ![n][idx] = p.from]
      BY <2>1, <2>3, ArpAdded
    <3> QED BY <2>3, <3>1
  <2> QED BY <1>1, <2>4, <2>5 DEF handle_arp, SocketsOK
<1>2. CASE handle_tcp(n)
  <2>1. WireOK(w) /\ p \in TcpPacket /\ Deliver(n, p, w)
    BY <1>2, ArrivesTcp DEF handle_tcp
  <2> HIDE DEF p, w
  <2>2. SocketsOK' /\ closed' \in [Nodes -> Nat] /\ WireOK(wire') /\ fault' \in BOOLEAN
    <3>1. CASE Receiver(n, p.dport) = {}
      BY <2>1, <3>1 DEF Deliver, Quiet, SocketsOK, WireOK
    <3>2. CASE Receiver(n, p.dport) # {}
      <4>1. PICK fd \in Receiver(n, p.dport) :
              LET s == sockets[n][fd] IN
              IF Ends(s, p)
              THEN Free(n, fd) /\ Quiet(w)
              ELSE /\ Store(n, fd, Handled(s, p)) /\ UNCHANGED closed
                   /\ IF Answer(s, p) = {} THEN Quiet(w)
                      ELSE tcp_send_packet(w, n, Handled(s, p), Answer(s, p), NoUnit)
        BY <2>1, <3>2 DEF Deliver
      <4> DEFINE s == sockets[n][fd]
      <4>2. fd \in Fds
        BY ReceiverFound
      <4>3. SocketOK(s) /\ SocketOK(Handled(s, p))
        BY <2>1, <4>2, SocketFields, HandledOK
      <4>4. Answer(s, p) \in SUBSET AllFlags
        BY DEF Answer, AllFlags
      <4>5. CASE Ends(s, p)
        BY <2>1, <4>1, <4>2, <4>5, FreeType DEF Quiet
      <4>6. CASE ~Ends(s, p)
        <5>1. SocketsOK' /\ closed' = closed
          BY <4>1, <4>2, <4>3, <4>6, StoreOK
        <5>2. CASE Answer(s, p) = {}
          BY <2>1, <4>1, <4>6, <5>1, <5>2 DEF Quiet
        <5>3. CASE Answer(s, p) # {}
          <6>1. tcp_send_packet(w, n, Handled(s, p), Answer(s, p), NoUnit)
            BY <4>1, <4>6, <5>3
          <6>2. WireOK(wire') /\ fault' \in BOOLEAN
            BY <2>1, <4>3, <4>4, <6>1, SendOK
          <6> QED BY <5>1, <6>2
        <5> QED BY <5>2, <5>3
      <4> QED BY <4>5, <4>6
    <3> QED BY <3>1, <3>2
  <2> QED BY <1>2, <2>2 DEF handle_tcp
<1> QED BY <1>1, <1>2 DEF tcpip_poll

LEMMA NetworkStepType ==
  ASSUME TcpTypeInv, NEW n \in Nodes, Network(n) \/ tcpip_check_timeouts(n)
  PROVE  TcpTypeInv'
<1> USE DEF TcpTypeInv
<1>1. CASE Lose(n)
  BY <1>1, TakenOK DEF Lose, SocketsOK
<1>2. ASSUME NEW h \in Others, OtherArp(n, h)
      PROVE  TcpTypeInv'
  <2>1. PICK idx \in Slots : arp_cache' = [arp_cache EXCEPT ![n][idx] = h]
    BY <1>2, ArpAdded DEF OtherArp, Hosts
  <2> QED BY <1>2, <2>1 DEF OtherArp, SocketsOK, WireOK, Hosts
<1>3. ASSUME NEW fd \in Fds, OtherReset(n, fd)
      PROVE  TcpTypeInv'
  <2> DEFINE s == sockets[n][fd]
             p == [kind |-> "tcp", from |-> s.remote_ip, sport |-> s.remote_port,
                   dport |-> s.local_port, flags |-> {"RST"}, data |-> NoUnit]
  <2>1. s.remote_ip # None /\ wire' = Put(wire, n, p) /\ fault'
    BY <1>3 DEF OtherReset
  <2>2. p \in Packet
    BY <2>1, SocketFields DEF Packet, TcpPacket, AllFlags
  <2> HIDE DEF p
  <2>3. WireOK(wire')
    BY <2>1, <2>2, PutOK
  <2> QED BY <1>3, <2>3 DEF OtherReset, SocketsOK
<1>4. CASE tcpip_check_timeouts(n)
  BY <1>4, FreeType DEF tcpip_check_timeouts, WireOK
<1> QED BY <1>1, <1>2, <1>3, <1>4 DEF Network

LEMMA TcpInitType == Init => TcpTypeInv
<1> SUFFICES ASSUME Init PROVE TcpTypeInv
  OBVIOUS
<1>1. SocketsOK
  BY ZeroedOK DEF Init, SocketsOK, SocketOK
<1>2. WireOK(wire)
  BY Bounds DEF Init, WireOK
<1>3. /\ EPHEMERAL \in EPHEMERAL..(PORT_MOD - 1) /\ 0 \in 0..MAX_CREATED /\ 0 \in 0..MAX_DATA
  BY Bounds DEF Ports
<1> QED BY <1>1, <1>2, <1>3 DEF Init, TcpTypeInv

LEMMA TcpTypeStep == TcpTypeInv /\ [Next]_vars => TcpTypeInv'
<1> SUFFICES ASSUME TcpTypeInv, [Next]_vars PROVE TcpTypeInv'
  OBVIOUS
<1>1. CASE UNCHANGED vars
  BY <1>1 DEF vars, TcpTypeInv, SocketsOK, WireOK
<1> QED BY <1>1, CallsType, PollType, NetworkStepType DEF Next

-----------------------------------------------------------------------------
(* The ARP cache.                                                          *)

\* Slots are filled from the front and never emptied, so a free slot comes
\* after every valid one and arp_add cannot pass over the address.
ArpInv ==
  /\ ArpUnique
  /\ \A n \in Nodes, i, j \in Slots :
       i < j /\ arp_cache[n][j] # None => arp_cache[n][i] # None

LEMMA ArpAddKeeps ==
  ASSUME TcpTypeInv, ArpInv, NEW n \in Nodes, NEW ip \in Hosts, ip # None,
         arp_cache' = arp_add(n, ip)
  PROVE  ArpInv'
<1>1. PICK idx \in Slots :
        /\ arp_cache' = [arp_cache EXCEPT ![n][idx] = ip]
        /\ \/ \A j \in Slots : arp_cache[n][j] \notin {None, ip}
           \/ /\ arp_cache[n][idx] \in {None, ip}
              /\ \A j \in Slots : j < idx => arp_cache[n][j] \notin {None, ip}
  BY ArpAdded DEF TcpTypeInv
<1>2. \A m \in Nodes, j \in Slots :
        arp_cache'[m][j] = IF m = n /\ j = idx THEN ip ELSE arp_cache[m][j]
  BY <1>1 DEF TcpTypeInv
<1>3. \A i, j \in Slots : i < j \/ i = j \/ j < i
  BY Bounds DEF Slots
<1>4. \A j \in Slots : arp_cache[n][j] = ip => arp_cache[n][idx] = ip /\ j = idx
  BY <1>1, <1>3 DEF ArpInv, ArpUnique
<1>5. ArpUnique'
  BY <1>2, <1>4 DEF ArpInv, ArpUnique
<1>6. ASSUME NEW m \in Nodes, NEW i \in Slots, NEW j \in Slots, i < j, arp_cache'[m][j] # None
      PROVE  arp_cache'[m][i] # None
  BY <1>1, <1>2, <1>3, <1>6 DEF ArpInv
<1> QED BY <1>5, <1>6 DEF ArpInv

LEMMA ArpStep == TcpTypeInv /\ ArpInv /\ [Next]_vars => ArpInv'
<1> SUFFICES ASSUME TcpTypeInv, ArpInv, [Next]_vars PROVE ArpInv'
  OBVIOUS
<1>1. ASSUME NEW n \in Nodes, handle_arp(n)
      PROVE  ArpInv'
  <2>1. Head(wire[n]).from \in Nodes
    BY <1>1, ArrivesArp DEF handle_arp, ArpPacket
  <2> QED BY <1>1, <2>1, ArpAddKeeps, TcpipAssumption DEF handle_arp, Hosts, None
<1>2. ASSUME NEW n \in Nodes, NEW h \in Others, OtherArp(n, h)
      PROVE  ArpInv'
  BY <1>2, ArpAddKeeps, TcpipAssumption DEF OtherArp, Hosts, None
<1>3. ASSUME UNCHANGED arp_cache
      PROVE  ArpInv'
  BY <1>3 DEF ArpInv, ArpUnique
<1>4. ASSUME NEW n \in Nodes, Program(n)
      PROVE  UNCHANGED arp_cache
  BY <1>4 DEF Program, socket_create, BindListen, socket_accept, socket_close, socket_send,
              socket_recv, socket_connect, tcpip_ping
<1>5. ASSUME NEW n \in Nodes, handle_tcp(n) \/ tcpip_check_timeouts(n)
      PROVE  UNCHANGED arp_cache
  BY <1>5 DEF handle_tcp, tcpip_check_timeouts
<1>6. ASSUME NEW n \in Nodes, Network(n)
      PROVE  ArpInv'
  <2>1. Lose(n) \/ (\E fd \in Fds : OtherReset(n, fd)) => UNCHANGED arp_cache
    BY DEF Lose, OtherReset
  <2> QED BY <1>2, <1>3, <1>6, <2>1 DEF Network
<1>7. UNCHANGED vars => UNCHANGED arp_cache
  BY DEF vars
<1> QED BY <1>1, <1>3, <1>4, <1>5, <1>6, <1>7 DEF Next, tcpip_poll

-----------------------------------------------------------------------------
(* The sockets in use.                                                     *)

ActiveFds(n) == {fd \in Fds : sockets[n][fd].active}

LEMMA ActiveFinite ==
  ASSUME NEW n \in Nodes
  PROVE  ActiveFds(n) \subseteq Fds /\ IsFiniteSet(ActiveFds(n)) /\ Cardinality(ActiveFds(n)) \in Nat
<1>1. IsFiniteSet(Fds)
  BY Bounds, FS_Interval DEF Fds
<1> QED BY <1>1, FS_Subset, FS_CardinalityType DEF ActiveFds

\* A step that leaves every socket in use or free, and counts nothing.
LEMMA CountUnchanged ==
  ASSUME SocketsAccounted, UNCHANGED <<created, closed>>,
         \A n \in Nodes, fd \in Fds : sockets'[n][fd].active = sockets[n][fd].active
  PROVE  SocketsAccounted'
<1>1. \A n \in Nodes : ActiveFds(n)' = ActiveFds(n)
  BY DEF ActiveFds
<1> QED BY <1>1 DEF SocketsAccounted, ActiveFds

\* A socket changes but stays in use or free.
LEMMA StoreCounts ==
  ASSUME TcpTypeInv, SocketsAccounted, UNCHANGED <<created, closed>>,
         NEW n \in Nodes, NEW fd \in Fds, NEW s, Store(n, fd, s),
         s.active = sockets[n][fd].active
  PROVE  SocketsAccounted'
<1>1. \A m \in Nodes, g \in Fds : sockets'[m][g] = IF m = n /\ g = fd THEN s ELSE sockets[m][g]
  BY DEF Store, TcpTypeInv, SocketsOK
<1> QED BY <1>1, CountUnchanged

\* Freeing counts the socket as closed exactly if it was in use.
LEMMA FreeCounts ==
  ASSUME TcpTypeInv, SocketsAccounted, UNCHANGED created,
         NEW n \in Nodes, NEW fd \in Fds, Free(n, fd)
  PROVE  SocketsAccounted'
<1>1. \A m \in Nodes, g \in Fds : sockets'[m][g] = IF m = n /\ g = fd THEN Zeroed ELSE sockets[m][g]
  BY DEF Free, Store, TcpTypeInv, SocketsOK
<1>2. Zeroed.active = FALSE
  BY DEF Zeroed
<1>3. CASE ~sockets[n][fd].active
  <2>1. closed' = closed
    BY <1>3 DEF Free, CountClosed, TcpTypeInv
  <2>2. sockets[n][fd].active = FALSE
    BY <1>3, SocketFields DEF TcpTypeInv
  <2> QED BY <1>1, <1>2, <2>1, <2>2, CountUnchanged
<1>4. CASE sockets[n][fd].active
  <2>1. \A m \in Nodes : /\ closed'[m] = (IF m = n THEN closed[m] + 1 ELSE closed[m])
                         /\ closed[m] \in Nat /\ created[m] \in Nat
    BY <1>4, Bounds DEF Free, CountClosed, TcpTypeInv
  <2>2. \A m \in Nodes : ActiveFds(m)' = IF m = n THEN ActiveFds(m) \ {fd} ELSE ActiveFds(m)
    BY <1>1, <1>2 DEF ActiveFds
  <2>3. fd \in ActiveFds(n)
    BY <1>4 DEF ActiveFds
  <2>4. Cardinality(ActiveFds(n) \ {fd}) = Cardinality(ActiveFds(n)) - 1
    BY <2>3, ActiveFinite, FS_RemoveElement
  <2>5. \A m \in Nodes : Cardinality(ActiveFds(m)) \in Nat
    BY ActiveFinite
  <2>6. \A m \in Nodes : created[m] - closed[m] = Cardinality(ActiveFds(m))
    BY DEF SocketsAccounted, ActiveFds
  <2>7. ASSUME NEW m \in Nodes
        PROVE  created'[m] - closed'[m] = Cardinality(ActiveFds(m)')
    <3>1. Cardinality(ActiveFds(m)') = IF m = n THEN Cardinality(ActiveFds(m)) - 1
                                       ELSE Cardinality(ActiveFds(m))
      BY <2>2, <2>4
    <3>2. created[m] - closed[m] = Cardinality(ActiveFds(m)) /\ created'[m] = created[m]
      BY <2>6
    <3> QED BY <2>1, <2>5, <3>1, <3>2
  <2> QED BY <2>7 DEF SocketsAccounted, ActiveFds
<1> QED BY <1>3, <1>4

LEMMA CountStep == TcpTypeInv /\ SocketsAccounted /\ [Next]_vars => SocketsAccounted'
<1> SUFFICES ASSUME TcpTypeInv, SocketsAccounted, [Next]_vars PROVE SocketsAccounted'
  OBVIOUS
<1>1. ASSUME NEW n \in Nodes, socket_create(n)
      PROVE  SocketsAccounted'
  <2>1. PICK fd \in Fds : ~sockets[n][fd].active /\ Store(n, fd, [Zeroed EXCEPT !.active = TRUE])
    BY <1>1 DEF socket_create
  <2>2. \A m \in Nodes, g \in Fds :
          sockets'[m][g] = IF m = n /\ g = fd THEN [Zeroed EXCEPT !.active = TRUE] ELSE sockets[m][g]
    BY <2>1 DEF Store, TcpTypeInv, SocketsOK
  <2>3. [Zeroed EXCEPT !.active = TRUE].active
    BY DEF Zeroed
  <2>4. \A m \in Nodes : ActiveFds(m)' = IF m = n THEN ActiveFds(m) \cup {fd} ELSE ActiveFds(m)
    BY <2>2, <2>3 DEF ActiveFds
  <2>5. Cardinality(ActiveFds(n) \cup {fd}) = Cardinality(ActiveFds(n)) + 1
    <3>1. fd \notin ActiveFds(n)
      BY <2>1 DEF ActiveFds
    <3> QED BY <3>1, ActiveFinite, FS_AddElement
  <2>6. \A m \in Nodes : /\ created'[m] = (IF m = n THEN created[m] + 1 ELSE created[m])
                         /\ closed'[m] = closed[m]
                         /\ closed[m] \in Nat /\ created[m] \in Nat
                         /\ Cardinality(ActiveFds(m)) \in Nat
    BY <1>1, ActiveFinite, Bounds DEF socket_create, TcpTypeInv
  <2>7. \A m \in Nodes : created[m] - closed[m] = Cardinality(ActiveFds(m))
    BY DEF SocketsAccounted, ActiveFds
  <2>8. ASSUME NEW m \in Nodes
        PROVE  created'[m] - closed'[m] = Cardinality(ActiveFds(m)')
    <3>1. Cardinality(ActiveFds(m)') = IF m = n THEN Cardinality(ActiveFds(m)) + 1
                                       ELSE Cardinality(ActiveFds(m))
      BY <2>4, <2>5
    <3> QED BY <2>6, <2>7, <3>1
  <2> QED BY <2>8 DEF SocketsAccounted, ActiveFds
<1>2. ASSUME NEW n \in Nodes, NEW fd \in Fds,
             BindListen(n, fd) \/ socket_accept(n, fd) \/ socket_recv(n, fd)
               \/ \E to \in Servers : socket_connect(n, fd, to)
      PROVE  SocketsAccounted'
  <2> DEFINE t == sockets[n][fd]
  <2>1. t \in Socket
    BY SocketFields DEF TcpTypeInv
  <2>2. \E s : Store(n, fd, s) /\ s.active = t.active
    <3>1. ASSUME BindListen(n, fd)
          PROVE  \E s : Store(n, fd, s) /\ s.active = t.active
      <4> DEFINE r == [t EXCEPT !.local_port = SERVER_PORT, !.state = "LISTEN"]
      <4>1. Store(n, fd, r) /\ r.active = t.active
        BY <2>1, <3>1 DEF BindListen, Socket
      <4> QED BY <4>1
    <3>2. ASSUME socket_accept(n, fd)
          PROVE  \E s : Store(n, fd, s) /\ s.active = t.active
      <4> DEFINE r == [t EXCEPT !.state = "ESTABLISHED"]
      <4>1. Store(n, fd, r) /\ r.active = t.active
        BY <2>1, <3>2 DEF socket_accept, Socket
      <4> QED BY <4>1
    <3>4. ASSUME socket_recv(n, fd)
          PROVE  \E s : Store(n, fd, s) /\ s.active = t.active
      <4>1. PICK len \in 1..Len(t.rx_buffer) :
              Store(n, fd, [t EXCEPT !.rx_buffer = Rest(t.rx_buffer, len)])
        BY <3>4 DEF socket_recv
      <4>2. [t EXCEPT !.rx_buffer = Rest(t.rx_buffer, len)].active = t.active
        BY <2>1 DEF Socket
      <4> QED BY <4>1, <4>2
    <3>5. ASSUME NEW to \in Servers, socket_connect(n, fd, to)
          PROVE  \E s : Store(n, fd, s) /\ s.active = t.active
      <4> DEFINE c == [t EXCEPT !.local_port = next_ephemeral_port[n],
                         !.remote_ip = to, !.remote_port = SERVER_PORT]
                 r == [c EXCEPT !.state = "SYN_SENT"]
      <4>1. Store(n, fd, r)
        BY <3>5 DEF socket_connect
      <4>2. r.active = t.active
        BY <2>1 DEF Socket
      <4> QED BY <4>1, <4>2
    <3> QED BY <1>2, <3>1, <3>2, <3>4, <3>5
  <2>3. UNCHANGED <<created, closed>>
    BY <1>2 DEF BindListen, socket_accept, socket_recv, socket_connect
  <2> QED BY <2>2, <2>3, StoreCounts
<1>3. ASSUME NEW n \in Nodes, NEW fd \in Fds, socket_close(n, fd)
      PROVE  SocketsAccounted'
  <2> DEFINE t == sockets[n][fd]
             r == [t EXCEPT !.state = IF t.state = "ESTABLISHED" THEN "FIN_WAIT_1" ELSE "LAST_ACK"]
  <2>1. t \in Socket /\ r.active = t.active
    BY SocketFields DEF TcpTypeInv, Socket
  <2>2. created' = created /\ (Free(n, fd) \/ (Store(n, fd, r) /\ closed' = closed))
    BY <1>3 DEF socket_close
  <2> HIDE DEF r
  <2> QED BY <2>1, <2>2, FreeCounts, StoreCounts
<1>4. ASSUME NEW n \in Nodes, handle_tcp(n)
      PROVE  SocketsAccounted'
  <2> DEFINE p == Head(wire[n])
  <2>1. p \in TcpPacket /\ Deliver(n, p, Taken(n)) /\ created' = created
    BY <1>4, ArrivesTcp DEF handle_tcp
  <2> HIDE DEF p
  <2>2. CASE Receiver(n, p.dport) = {}
    BY <2>1, <2>2, CountUnchanged DEF Deliver
  <2>3. CASE Receiver(n, p.dport) # {}
    <3>1. PICK fd \in Receiver(n, p.dport) :
            \/ Free(n, fd)
            \/ Store(n, fd, Handled(sockets[n][fd], p)) /\ UNCHANGED closed
      BY <2>1, <2>3 DEF Deliver
    <3>2. fd \in Fds
      BY ReceiverFound
    <3>3. Handled(sockets[n][fd], p).active = sockets[n][fd].active
      BY <2>1, <3>2, SocketFields, HandledOK DEF TcpTypeInv
    <3> QED BY <2>1, <3>1, <3>2, <3>3, FreeCounts, StoreCounts
  <2> QED BY <2>2, <2>3
<1>5. ASSUME NEW n \in Nodes, tcpip_check_timeouts(n)
      PROVE  SocketsAccounted'
  BY <1>5, FreeCounts DEF tcpip_check_timeouts
<1>6. ASSUME UNCHANGED <<sockets, created, closed>>
      PROVE  SocketsAccounted'
  BY <1>6, CountUnchanged
<1>7. ASSUME NEW n \in Nodes, handle_arp(n) \/ Network(n)
      PROVE  UNCHANGED <<sockets, created, closed>>
  BY <1>7 DEF handle_arp, Network, Lose, OtherArp, OtherReset
<1>8. UNCHANGED vars => UNCHANGED <<sockets, created, closed>>
  BY DEF vars
<1>9. ASSUME NEW n \in Nodes,
             (\E fd \in Fds : socket_send(n, fd)) \/ (\E to \in Servers : tcpip_ping(n, to))
      PROVE  UNCHANGED <<sockets, created, closed>>
  BY <1>9 DEF socket_send, tcpip_ping
<1> QED BY <1>1, <1>2, <1>3, <1>4, <1>5, <1>6, <1>7, <1>8, <1>9 DEF Next, Program, tcpip_poll

-----------------------------------------------------------------------------
(* The theorems about Tcpip.                                               *)

TcpInv == TcpTypeInv /\ ArpInv /\ SocketsAccounted

LEMMA TcpInitInv == Init => TcpInv
<1> SUFFICES ASSUME Init PROVE TcpInv
  OBVIOUS
<1>1. TcpTypeInv
  BY TcpInitType
<1>2. ArpInv
  BY DEF Init, ArpInv, ArpUnique
<1>3. ASSUME NEW n \in Nodes
      PROVE  created[n] - closed[n] = Cardinality(ActiveFds(n))
  <2>1. ActiveFds(n) = {}
    BY <1>3 DEF Init, ActiveFds, Zeroed
  <2> QED BY <2>1, FS_EmptySet DEF Init
<1> QED BY <1>1, <1>2, <1>3 DEF TcpInv, SocketsAccounted, ActiveFds

LEMMA TcpStep == TcpInv /\ [Next]_vars => TcpInv'
BY TcpTypeStep, ArpStep, CountStep DEF TcpInv

\* closed is bounded since as many sockets are in use as it lacks of created.
LEMMA TcpInvType == TcpInv => TypeOK
<1> SUFFICES ASSUME TcpInv PROVE TypeOK
  OBVIOUS
<1>1. TcpTypeInv
  BY DEF TcpInv
<1>2. ASSUME NEW n \in Nodes
      PROVE  closed[n] \in 0..MAX_CREATED
  <2>1. created[n] - closed[n] = Cardinality(ActiveFds(n)) /\ Cardinality(ActiveFds(n)) \in Nat
    BY ActiveFinite DEF TcpInv, SocketsAccounted, ActiveFds
  <2> QED BY <1>1, <2>1, Bounds DEF TcpTypeInv
<1>3. \A n \in Nodes, fd \in Fds : SocketOK(sockets[n][fd])
  BY <1>1 DEF TcpTypeInv, SocketsOK
<1> QED BY <1>1, <1>2, <1>3 DEF TcpTypeInv, SocketOK, WireOK, TypeOK

\* The socket table, the cache and the counters have their types through all
\* calls, segments, losses and resets (tcpip.c), for any network.
THEOREM TcpTypeCorrect == Spec => []TypeOK
<1>1. Init => TcpInv
  BY TcpInitInv
<1>2. TcpInv /\ [Next]_vars => TcpInv'
  BY TcpStep
<1>3. TcpInv => TypeOK
  BY TcpInvType
<1> QED BY <1>1, <1>2, <1>3, PTL DEF Spec

\* The sockets in use are those created and not closed, whatever mixture of
\* closes, resets, timeouts and stale handles there was (tcpip.c:977, 1167).
THEOREM SocketsAccountedAlways == Spec => []SocketsAccounted
<1>1. TcpInv => SocketsAccounted
  BY DEF TcpInv
<1> QED BY <1>1, TcpInitInv, TcpStep, PTL DEF Spec

\* No address is in the ARP cache twice (arp_add, tcpip.c:191).
THEOREM ArpUniqueAlways == Spec => []ArpUnique
<1>1. TcpInv => ArpUnique
  BY DEF TcpInv, ArpInv
<1> QED BY <1>1, TcpInitInv, TcpStep, PTL DEF Spec


-----------------------------------------------------------------------------
(* Type correctness.                                                       *)

LEMMA EcatInitType == EcatInit => EcatTypeOK
<1> SUFFICES ASSUME EcatInit PROVE EcatTypeOK
  OBVIOUS
<1>1. /\ config \in Configs /\ active \in BOOLEAN /\ output_data \in EcatData
      /\ requested_state \in Requested /\ al_status_code \in Codes
  BY EcatAssumption DEF EcatInit, Requested, States, Codes
<1>2. al_state \in AlState
  BY DEF EcatInit, AlState, States
<1>3. sm \in [Sms -> SyncManager]
  BY DEF EcatInit, SyncManager, Areas
<1>4. registers \in Registers
  BY EcatAssumption DEF EcatInit, Cleared, Codes, Registers, AlStatus, Requested, States
<1> QED BY <1>1, <1>2, <1>3, <1>4 DEF EcatTypeOK

\* Publishing a state keeps the registers' type.
LEMMA PublishedType ==
  ASSUME NEW r \in Registers,
         NEW state \in AlState, NEW code \in Codes
  PROVE  /\ Published(r, state, code) \in Registers
         /\ Published(r, state, code).al_status = state
         /\ Published(r, state, code).al_status_code = code
BY DEF Published, Registers, AlStatus, AlState, Requested

\* (Un)setting the activation of sync managers keeps their type.
LEMMA ActivateType ==
  ASSUME sm \in [Sms -> SyncManager], NEW m \in Sms, NEW b \in BOOLEAN
  PROVE  [sm[m] EXCEPT !.activate = b] \in SyncManager
BY DEF SyncManager

LEMMA PublishType ==
  ASSUME EcatTypeOK,
         (\E code \in {"invalid_setup", "invalid_sync"} : Refuse(code))
           \/ (requested_state \in States /\ Accept(requested_state))
  PROVE  /\ al_state' \in AlState /\ al_status_code' \in Codes /\ registers' \in Registers
         /\ Told' /\ (al_state'.error <=> al_status_code' # "ok")
<1> USE DEF EcatTypeOK, Told
<1>1. CASE \E code \in {"invalid_setup", "invalid_sync"} : Refuse(code)
  <2>1. PICK code \in {"invalid_setup", "invalid_sync"} : Refuse(code)
    BY <1>1
  <2>2. al_state' \in AlState /\ al_state'.error = TRUE /\ code \in Codes /\ code # "ok"
    BY <2>1 DEF Refuse, AlState, Codes
  <2>3. registers' = Published(registers, al_state', code) /\ al_status_code' = code
    BY <2>1 DEF Refuse
  <2> QED BY <2>2, <2>3, PublishedType
<1>2. CASE requested_state \in States /\ Accept(requested_state)
  <2>1. /\ al_state' \in AlState /\ al_state'.error = FALSE /\ "ok" \in Codes
        /\ registers' = Published(registers, al_state', "ok") /\ al_status_code' = "ok"
    BY <1>2 DEF Accept, AlState, Codes
  <2> QED BY <2>1, PublishedType
<1> QED BY <1>1, <1>2

\* A transition concludes in one of two ways; what it does before keeps the types.
LEMMA TransitionCases ==
  ASSUME EcatTypeOK, ecat_slave_transition
  PROVE  \/ \E code \in {"invalid_setup", "invalid_sync"} : Refuse(code)
         \/ requested_state \in States /\ Accept(requested_state)
<1>1. al_state.state \in States
  BY DEF EcatTypeOK, AlState
<1>2. is_valid_state_transition(al_state.state, requested_state) => requested_state \in States
  BY <1>1 DEF is_valid_state_transition, States
<1> QED BY <1>2 DEF ecat_slave_transition

LEMMA TransitionType ==
  ASSUME EcatTypeOK, ecat_slave_transition
  PROVE  EcatTypeOK'
<1> USE DEF EcatTypeOK
<1>1. /\ al_state' \in AlState /\ al_status_code' \in Codes /\ registers' \in Registers
  BY TransitionCases, PublishType
<1>2. sm' \in [Sms -> SyncManager] /\ output_data' \in EcatData
  <2>1. CASE UNCHANGED <<sm, output_data>>
    BY <2>1
  <2>2. CASE Enter(Steps(requested_state))
    <3> DEFINE does(op, m) == Does(Steps(requested_state), op, m)
    <3> HIDE DEF does
    <3>1. sm' = [m \in Sms |->
                  [sm[m] EXCEPT !.activate =
                     ~does("deactivate", m) /\ (sm[m].activate \/ (m \in config /\ does("activate", m)))]]
      BY <2>2 DEF Enter, does
    <3>2. \A m \in Sms : (~does("deactivate", m)
                            /\ (sm[m].activate \/ (m \in config /\ does("activate", m)))) \in BOOLEAN
      OBVIOUS
    <3>3. output_data' \in EcatData
      BY <2>2, EcatAssumption DEF Enter
    <3> QED BY <3>1, <3>2, <3>3, ActivateType
  <2> QED BY <2>1, <2>2 DEF ecat_slave_transition
<1> QED BY <1>1, <1>2 DEF ecat_slave_transition

LEMMA EcatNextType ==
  ASSUME EcatTypeOK, [EcatNext]_ecat_vars
  PROVE  EcatTypeOK'
<1> USE DEF EcatTypeOK
<1>1. "zero" \in EcatData /\ "ok" \in Codes /\ Cleared \in Registers
  BY EcatAssumption DEF Codes, Cleared, Registers, AlStatus, Requested, States
<1>2. ASSUME NEW r \in Registers, Restart(r)
      PROVE  /\ al_state' \in AlState /\ requested_state' \in Requested
             /\ al_status_code' \in Codes
             /\ registers' \in Registers
  <2>1. /\ al_state' \in AlState /\ al_status_code' = "ok" /\ requested_state' \in Requested
        /\ registers' = Published(r, al_state', al_status_code')
    BY <1>2 DEF Restart, AlState, States, Requested
  <2> QED BY <1>1, <2>1, PublishedType
<1>3. CASE ecat_slave_init
  BY <1>1, <1>2, <1>3 DEF ecat_slave_init
<1>4. CASE ecat_slave_reset
  BY <1>2, <1>4, ActivateType DEF ecat_slave_reset, Deactivated
<1>5. CASE ecat_slave_transition
  BY <1>5, TransitionType
<1>6. CASE ecat_pdo_exchange
  <2>1. output_data' \in EcatData
    BY <1>6 DEF ecat_pdo_exchange, Registers
  <2> QED BY <1>6, <2>1 DEF ecat_pdo_exchange
<1>7. CASE \E s \in Requested : ecat_slave_set_state(s)
  BY <1>7 DEF ecat_slave_set_state
<1>8. CASE \E m \in config : ecat_sm_activate(m) \/ ecat_sm_deactivate(m)
  <2>1. PICK m \in config : ecat_sm_activate(m) \/ ecat_sm_deactivate(m)
    BY <1>8
  <2>2. m \in Sms
    BY EcatAssumption
  <2> QED BY <2>1, <2>2, ActivateType DEF ecat_sm_activate, ecat_sm_deactivate, SmOnly
<1>9. CASE \E m \in config \cap ProcSms, s \in SyncManager : ecat_sm_config(m, s)
  BY <1>9 DEF ecat_sm_config, SmOnly, Sms
<1>10. CASE \E d \in EcatData : ecat_pdo_write(d)
  BY <1>10 DEF ecat_pdo_write
<1>12. CASE \E r \in Overwritten : ecat_process_datagram(r)
  <2>1. PICK r \in Overwritten : ecat_process_datagram(r)
    BY <1>12
  <2>2. /\ Overwritten \subseteq Registers
    BY <1>1, EcatAssumption DEF Overwritten, Registers, AlStatus
  <2> QED BY <2>1, <2>2 DEF ecat_process_datagram
<1>11. CASE UNCHANGED ecat_vars
  BY <1>11 DEF ecat_vars
<1> QED BY <1>3, <1>4, <1>5, <1>6, <1>7, <1>8, <1>9, <1>10, <1>11, <1>12 DEF EcatNext

\* Every field keeps its type, whatever the configurations and data.
THEOREM EcatTypeCorrect == EcatSpec => []EcatTypeOK
BY EcatInitType, EcatNextType, PTL DEF EcatSpec

-----------------------------------------------------------------------------
(* The status registers.                                                   *)

\* An error flag stands for an error code.
FlagTrue == al_state.error <=> al_status_code # "ok"

\* Every step keeps the flag with its code, and what a master reads true, except
\* when the master writes itself, or what it wrote was not true and nothing has
\* changed since.
LEMMA StatusStep ==
  ASSUME EcatTypeOK, FlagTrue, [EcatNext]_ecat_vars
  PROVE  /\ FlagTrue'
         /\ \/ ~active' \/ Told' \/ UNCHANGED ecat_vars
            \/ ~Told /\ UNCHANGED <<al_state, al_status_code>>
            \/ \E r \in Overwritten : ecat_process_datagram(r)
<1>1. ASSUME NEW r \in Registers, Restart(r)
      PROVE  FlagTrue' /\ Told'
  <2>1. /\ al_state' \in AlState /\ al_state'.error = FALSE
        /\ al_status_code' = "ok" /\ al_status_code' \in Codes
        /\ registers' = Published(r, al_state', al_status_code')
    BY <1>1 DEF Restart, AlState, States, Codes
  <2> QED BY <2>1, PublishedType DEF FlagTrue, Told
<1>2. Cleared \in Registers /\ registers \in Registers
  BY EcatAssumption DEF Cleared, Codes, Registers, AlStatus, Requested, EcatTypeOK
<1>3. CASE ecat_slave_init
  BY <1>1, <1>2, <1>3 DEF ecat_slave_init
<1>4. CASE ecat_slave_reset
  BY <1>1, <1>2, <1>4 DEF ecat_slave_reset
<1>5. CASE ecat_slave_transition
  BY <1>5, TransitionCases, PublishType DEF FlagTrue
<1>6. CASE UNCHANGED <<al_state, al_status_code, active, registers>>
  BY <1>6 DEF FlagTrue, Told
<1>7. CASE \E r \in Overwritten : ecat_process_datagram(r)
  BY <1>7 DEF ecat_process_datagram, FlagTrue
<1>8. EcatNext => \/ ecat_slave_init \/ ecat_slave_reset \/ ecat_slave_transition
                  \/ \E r \in Overwritten : ecat_process_datagram(r)
                  \/ UNCHANGED <<al_state, al_status_code, active, registers>>
  BY DEF EcatNext, ecat_pdo_exchange, ecat_slave_set_state, ecat_sm_activate,
     ecat_sm_deactivate, ecat_sm_config, SmOnly, ecat_pdo_write
<1>9. UNCHANGED ecat_vars => UNCHANGED <<al_state, al_status_code, active, registers>>
  BY DEF ecat_vars
<1> QED BY <1>3, <1>4, <1>5, <1>6, <1>7, <1>8, <1>9

\* A master is told the truth but for what it writes over the status itself, and
\* is told it again by every change of the state; an error flag stands for an
\* error code (ethercat.c:797, 838, 858).
THEOREM AlStatusAlways == EcatSpec => AlStatusTrue
<1>1. EcatInit => FlagTrue
  BY DEF EcatInit, FlagTrue
<1>2. EcatTypeOK /\ FlagTrue /\ [EcatNext]_ecat_vars => FlagTrue'
  BY StatusStep
<1>3. ASSUME EcatTypeOK, FlagTrue, [EcatNext]_ecat_vars
      PROVE  [/\ al_state'.error <=> al_status_code' # "ok"
              /\ active' => \/ Told'
                            \/ ~Told /\ UNCHANGED <<al_state, al_status_code>>
                            \/ \E r \in Overwritten : ecat_process_datagram(r)
             ]_ecat_vars
  BY <1>3, StatusStep DEF FlagTrue
<1> QED BY <1>1, <1>2, <1>3, EcatTypeCorrect, PTL DEF EcatSpec, AlStatusTrue

-----------------------------------------------------------------------------
(* Refusals.                                                               *)

\* Of the steps of a state that cannot be entered, those done are checks.
LEMMA FailsEarly ==
  ASSUME NEW s \in States, ~Entered(Steps(s))
  PROVE  \A m \in Sms, op \in {"activate", "deactivate", "clear"} : ~Does(Steps(s), op, m)
<1> DEFINE steps == Steps(s)
<1>1. CASE s # "SAFEOP"
  <2>1. \A i \in DOMAIN steps : steps[i].op # "check"
    BY <1>1 DEF Steps, Step, States
  <2>2. \A i \in DOMAIN steps : \A j \in 1..i : j \in DOMAIN steps
    BY <1>1 DEF Steps, Step, States
  <2>3. Entered(steps)
    BY <2>1, <2>2 DEF Entered, Done, Fails
  <2> QED BY <2>3
<1>2. CASE s = "SAFEOP"
  <2>1. steps = state_enter_safeop
    BY <1>2 DEF Steps
  <2>2. /\ DOMAIN steps = 1..5
        /\ steps[1].op = "check" /\ steps[2].op = "check" /\ steps[3].op # "check"
        /\ steps[4].op # "check" /\ steps[5].op # "check"
    BY <2>1 DEF state_enter_safeop, Step
  <2>3. PICK i \in 1..5 : \E j \in 1..i : Fails(steps[j])
    BY <2>2 DEF Entered, Done
  <2>4. PICK j \in {1, 2} : Fails(steps[j])
    <3>1. PICK j \in 1..5 : Fails(steps[j])
      BY <2>3
    <3>2. j = 1 \/ j = 2 \/ j = 3 \/ j = 4 \/ j = 5
      OBVIOUS
    <3>3. steps[j].op = "check"
      BY <3>1 DEF Fails
    <3> QED BY <2>2, <3>1, <3>2, <3>3
  <2>5. \A k \in Done(steps) : k = 1
    <3>1. SUFFICES ASSUME NEW k \in 1..5, \A l \in 1..k : ~Fails(steps[l]) PROVE k = 1
      BY <2>2 DEF Done
    <3>2. j \notin 1..k
      BY <2>4, <3>1
    <3> QED BY <3>2
  <2> QED BY <2>2, <2>5 DEF Does
<1> QED BY <1>1, <1>2

\* A refused transition keeps the state, the sync managers and the outputs: the
\* steps before the one that fails have no effect (ethercat.c:720).
THEOREM RefusalHarmlessAlways == EcatSpec => RefusalHarmless
<1>1. ASSUME EcatTypeOK, ecat_slave_transition, al_state'.error
      PROVE  al_state'.state = al_state.state /\ UNCHANGED <<sm, output_data>>
  <2>1. ~Accept(requested_state)
    BY <1>1 DEF Accept
  <2>2. PICK code \in {"invalid_setup", "invalid_sync"} : Refuse(code)
    BY <1>1, <2>1, TransitionCases
  <2>3. al_state'.state = al_state.state
    BY <1>1, <2>2 DEF Refuse, EcatTypeOK, AlState
  <2>4. CASE ~is_valid_state_transition(al_state.state, requested_state)
    BY <1>1, <2>3, <2>4 DEF ecat_slave_transition
  <2>5. CASE is_valid_state_transition(al_state.state, requested_state)
    <3> DEFINE steps == Steps(requested_state)
    <3>1. Enter(steps) /\ ~Entered(steps)
      BY <1>1, <2>1, <2>5 DEF ecat_slave_transition
    <3>2. requested_state \in States
      <4>1. al_state.state \in States
        BY <1>1 DEF EcatTypeOK, AlState
      <4> QED BY <2>5, <4>1 DEF is_valid_state_transition, States
    <3>3. \A m \in Sms, op \in {"activate", "deactivate", "clear"} : ~Does(steps, op, m)
      BY <3>1, <3>2, FailsEarly
    <3> HIDE DEF steps
    <3>4. "proc_out" \in Sms
      BY DEF Sms, ProcSms
    <3>5. output_data' = output_data
      BY <3>1, <3>3, <3>4 DEF Enter
    <3>6. \A m \in Sms : sm[m] = [sm[m] EXCEPT !.activate = sm[m].activate]
                          /\ sm[m].activate \in BOOLEAN
      BY <1>1 DEF EcatTypeOK, SyncManager
    <3>7. \A m \in Sms : sm'[m] = [sm[m] EXCEPT !.activate =
              ~Does(steps, "deactivate", m)
              /\ (sm[m].activate \/ (m \in config /\ Does(steps, "activate", m)))]
      BY <3>1 DEF Enter
    <3>8. \A m \in Sms : (~Does(steps, "deactivate", m)
              /\ (sm[m].activate \/ (m \in config /\ Does(steps, "activate", m)))) = sm[m].activate
      BY <3>3, <3>6
    <3>9. \A m \in Sms : sm'[m] = sm[m]
      BY <3>6, <3>7, <3>8
    <3>10. sm' = sm
      <4>1. sm' \in [Sms -> SyncManager] /\ sm \in [Sms -> SyncManager]
        BY <1>1, TransitionType DEF EcatTypeOK
      <4> QED BY <3>9, <4>1
    <3> QED BY <2>3, <3>5, <3>10
  <2> QED BY <2>4, <2>5
<1>2. ASSUME EcatTypeOK, [EcatNext]_ecat_vars
      PROVE  [ecat_slave_transition /\ al_state'.error =>
               al_state'.state = al_state.state /\ UNCHANGED <<sm, output_data>>]_ecat_vars
  BY <1>1, <1>2
<1> QED BY <1>2, EcatTypeCorrect, PTL DEF EcatSpec, RefusalHarmless

-----------------------------------------------------------------------------
\* Both components side by side, as the run network_core has them: every
\* field of the sockets, the caches and the slave keeps its type.
THEOREM NetworkTypeCorrect == NetworkSpec => []NetworkTypeOK
<1> DEFINE Inv == TcpInv /\ EcatTypeOK
<1>1. NetworkInit => Inv
  BY TcpInitInv, EcatInitType DEF NetworkInit
<1>2. Inv /\ [NetworkNext]_<<part, vars, ecat_vars>> => Inv'
  <2> SUFFICES ASSUME Inv, [NetworkNext]_<<part, vars, ecat_vars>> PROVE Inv'
    OBVIOUS
  <2>1. [Next]_vars /\ [EcatNext]_ecat_vars
    BY DEF NetworkNext, Several, Single, Next
  <2> QED BY <2>1, TcpStep, EcatNextType
<1>3. Inv => NetworkTypeOK
  BY TcpInvType DEF NetworkTypeOK
<1> QED BY <1>1, <1>2, <1>3, PTL DEF NetworkSpec

=============================================================================
