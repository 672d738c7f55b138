------------------------------ MODULE MCNetwork ------------------------------
(* A TLC instance of the TCP stack and the EtherCAT slave.  They share no    *)
(* state, so each behaviour moves one of them.                               *)
EXTENDS MCTcpip, Ethercat

VARIABLE part

\* Bounds: connections side by side between the nodes alone, or other hosts and
\* faults with one socket a node at a time and one unit of data.
Several == \E n \in Nodes : Program(n) \/ tcpip_poll(n) \/ tcpip_check_timeouts(n)
Single  == Next /\ sent' <= 1 /\ \A n \in Nodes, fd \in Fds \ {0} : ~sockets'[n][fd].active

NetworkInit == part \in {"several", "single", "ethercat"} /\ Init /\ EcatInit

NetworkNext ==
  /\ \/ part = "several" /\ Several /\ UNCHANGED ecat_vars
     \/ part = "single" /\ Single /\ UNCHANGED ecat_vars
     \/ part = "ethercat" /\ EcatNext /\ UNCHANGED vars
  /\ UNCHANGED part

NetworkSpec == NetworkInit /\ [][NetworkNext]_<<part, vars, ecat_vars>>

\* Every field of sockets, caches, frames and of the slave has its type.
NetworkTypeOK == TypeOK /\ EcatTypeOK
=============================================================================
