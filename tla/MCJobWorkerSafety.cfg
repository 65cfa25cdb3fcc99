CONSTANTS
  MaxJobsActive = 7
  PollQueueCapacity = 4
  Concurrency = 3
  Task = {t1, t2}
SYMMETRY TaskSymmetry
SPECIFICATION Spec
INVARIANTS
  TypeOK
  OneRequestAtATime
  FlagTracksRequest
  ArrivalPrecedesCompletion
  BudgetRespected
  
PROPERTIES
  CountConserved
  ImplementsFetchCycle
CHECK_DEADLOCK FALSE
