SPECIFICATION NetworkSpec
CONSTANTS
  Nodes = {"A", "B"}
  Others = {"C", "D"}
  Servers = {"B"}
  Clients = {"A"}
  MAX_SOCKETS = 2
  SOCKET_BUFFER_SIZE = 2
  ARP_CACHE_SIZE = 2
  SERVER_PORT = 1
  EPHEMERAL = 2
  PORT_MOD = 4
  MAX_WIRE = 2
  MAX_CREATED = 2
  MAX_DATA = 2
  FAULTS = TRUE
  Configs = {{"proc_out", "proc_in", "mbox_in"}}
  Written = {"OP"}
  EcatData = {"zero", "d"}
INVARIANTS
  NetworkTypeOK
  SocketsAccounted
  ArpUnique
  DataInOrder
  ClosingSound
PROPERTIES
  AlStatusTrue
  RefusalHarmless
CHECK_DEADLOCK FALSE
