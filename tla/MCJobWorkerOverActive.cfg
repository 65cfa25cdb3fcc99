CONSTANTS
  MaxJobsActive = 3
  PollQueueCapacity = 2
  Concurrency = 2
  Task = {t1}
SPECIFICATION Spec
INVARIANT ActiveWithinMax
CHECK_DEADLOCK FALSE
