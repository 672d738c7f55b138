SPECIFICATION FairSpec
CONSTANTS
  Nodes = {"A", "B"}
  Others = {}
  Servers = {"B"}
  Clients = {"A"}
  MAX_SOCKETS = 1
  SOCKET_BUFFER_SIZE = 1
  ARP_CACHE_SIZE = 2
  SERVER_PORT = 1
  EPHEMERAL = 2
  PORT_MOD = 4
  MAX_WIRE = 2
  MAX_CREATED = 2
  MAX_DATA = 0
  FAULTS = FALSE
PROPERTIES
  TimeWaitEnds
CHECK_DEADLOCK FALSE
