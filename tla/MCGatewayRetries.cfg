CONSTANTS
  handler = handler
  outside = outside
  k1 = k1
  k2 = k2
  Key <- MCKey
  current_job_key <- MCKeys
  NoValue = NoValue
  Empty = Empty
  Width = 2
  Text = {t1}
  Caller <- OneHandler
  File = {f1}
  Sent <- RetriesCommands
  HasAuth = FALSE
  MaxCalls = 1
SPECIFICATION Spec
INVARIANT RetriesAsAsked
CHECK_DEADLOCK FALSE
