CONSTANTS
  MaxJobsActive = 4
  PollQueueCapacity = 2
  Concurrency = 2
  Task = {t1}
SPECIFICATION ReturningSpec
PROPERTY ReadyToFetchAgain
CHECK_DEADLOCK FALSE
