SPECIFICATION FairSpec
CONSTANTS
  Clients = {c1, c2}
  Conns = {k1, k2, k3}
  NoConn = NoConn
  MinSize = 1
  MaxSize = 1
  IntMin = 0
  IntMax = 0
  MaxRequests = 1
  DeadlinesPass = TRUE
PROPERTY RequestCompletes
PROPERTY ShutdownCompletes
CHECK_DEADLOCK FALSE
