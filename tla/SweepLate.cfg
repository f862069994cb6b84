SPECIFICATION Spec
CONSTANTS
  Clients = {c1, c2}
  Conns = {k1, k2, k3}
  NoConn = NoConn
  MinSize = 1
  MaxSize = 2
  MaxIdle = 1
  TicksPerSecond = 2
  MaxDelay = 1
SYMMETRY Symmetry
INVARIANT IdleClosedInTime
