CONSTANTS
  Job = {j1, j2}
  Malformed = {j2}
  StateType = {T}
  Param = {"Client", "Data", T}
  Copy = {c1, c2}
  NoJob = NoJob
SPECIFICATION FairSpec
INVARIANTS
  TypeOK
  OutcomeJustified
  NothingSwallowed
 
CHECK_DEADLOCK FALSE
