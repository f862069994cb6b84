SPECIFICATION FairSpec
CONSTANTS
  Workers <- OneWorker
  HandlerThreads <- MainOnly
  MaxJobs = 1
PROPERTY SignalAlwaysEndsProcess
CHECK_DEADLOCK FALSE
