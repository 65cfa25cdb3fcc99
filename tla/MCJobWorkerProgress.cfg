CONSTANTS
  MaxJobsActive = 4
  PollQueueCapacity = 2
  Concurrency = 2
  Task = {t1}
SPECIFICATION FairSpec
PROPERTIES
  ImplementsFairFetchCycle
  RequestEnds
  DroppedTaskEnds
  StarvesOnlyByOvercount
CHECK_DEADLOCK FALSE
