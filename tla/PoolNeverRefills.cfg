SPECIFICATION RefillSpec
CONSTANTS
  Clients = {c1}
  Conns = {k1, k2, k3}
  NoConn = NoConn
  MinSize = 1
  MaxSize = 2
  IntMin = 0
  IntMax = 0
  MaxRequests = 9
  DeadlinesPass = FALSE
PROPERTY GrowsWithDemand
CHECK_DEADLOCK FALSE
