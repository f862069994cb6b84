SPECIFICATION Spec
CONSTANTS
  Clients = {c1, c2}
  Conns = {k1, k2, k3}
  NoConn = NoConn
  MinSize = 1
  MaxSize = 1
  IntMin <- CounterMin
  IntMax = 100
  MaxRequests = 4
  DeadlinesPass = TRUE
SYMMETRY Symmetry
INVARIANT WithinMaxSize
CHECK_DEADLOCK FALSE
