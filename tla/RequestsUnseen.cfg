SPECIFICATION Spec
CONSTANTS
  Conns = {k1, k2, k3}
  Requests <- ThreeRequests
  Faults = {}
  Asks <- GoodAsks
  NotAsked = NotAsked
  NoConn = NoConn
  Capacity = 2
  MaxRequests = 3
  Workers = 2
INVARIANT QuerySeesInserts
CHECK_DEADLOCK FALSE
