------------------------------ MODULE MCTcpip ------------------------------
(* TLC instances of Tcpip: a client, a server and the other hosts.           *)
EXTENDS Tcpip
=============================================================================
