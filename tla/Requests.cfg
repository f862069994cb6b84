SPECIFICATION FairSpec
CONSTANTS
  Conns = {k1, k2, k3}
  Requests <- TwoRequests
  Faults = {"refused", "replyLost", "linkLost", "badRow"}
  Asks <- AllAsks
  NotAsked = NotAsked
  NoConn = NoConn
  Capacity = 2
  MaxRequests = 2
  Workers = 2
INVARIANT TypeOK
INVARIANT SessionsBelongToPool
INVARIANT SessionBound
INVARIANT LeasesAreInUse
INVARIANT AnswersAreReliable
INVARIANT AcknowledgedMeansCommitted
PROPERTY EveryRequestAnswered
CHECK_DEADLOCK FALSE
