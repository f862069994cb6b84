SPECIFICATION FairSpec
CONSTANTS
  Workers <- TwoWorkers
  HandlerThreads <- OneOfEach
  MaxJobs = 1
INVARIANT TypeOK
INVARIANT DestroyedWhenUnused
PROPERTY ImplementsShutdown
PROPERTY SignalEndsProcess
PROPERTY ReturnEndsProcess
CHECK_DEADLOCK FALSE
