CONSTANTS
  handler = handler
  outside = outside
  k1 = k1
  k2 = k2
  Key <- MCKey
  current_job_key <- MCKeys
  NoValue = NoValue
  Empty = Empty
  Width = 2
  Text = {t1}
  Caller <- OneOutside
  File = {f1, f2}
  Sent <- DeployAndComplete
  HasAuth = TRUE
  MaxCalls = 2
SPECIFICATION FairSpec
INVARIANTS
  DeployIsWhole
  OutcomeTellsExecution
PROPERTIES
  
  ImplementsAtMostOnce
CHECK_DEADLOCK FALSE
