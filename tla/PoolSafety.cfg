SPECIFICATION Spec
CONSTANTS
  Clients = {c1, c2, c3}
  Conns = {k1, k2, k3, k4}
  NoConn = NoConn
  MinSize = 2
  MaxSize = 2
  IntMin <- CounterMin
  IntMax = 100
  MaxRequests = 4
  DeadlinesPass = TRUE
SYMMETRY Symmetry
INVARIANT TypeOK
INVARIANT WakeupsLostToDeadlines
INVARIANT ExclusiveOwnership
INVARIANT NoLeakNoDangling
INVARIANT ActiveCountsLeases
INVARIANT CapacityBound
INVARIANT StatsCountConnections
INVARIANT RequestsCovered
INVARIANT NoSleeperAfterShutdown
INVARIANT DestroyedPoolIsEmpty
PROPERTY GrantsAreConnected
PROPERTY ImplementsLease
PROPERTY ImplementsShutdown
CHECK_DEADLOCK FALSE
