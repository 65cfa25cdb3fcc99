------------------------ MODULE JobWorkerRefinement ------------------------
(***************************************************************************)
(* Proof that JobWorker implements FetchCycle, for every MaxJobsActive,    *)
(* PollQueueCapacity, Concurrency and set of task identities.  The         *)
(* mapping is the one of ImplementsFetchCycle; the invariants of           *)
(* JobWorkerProofs rule out the states in which a step of the worker would *)
(* be none of the cycle.                                                   *)
(***************************************************************************)
EXTENDS JobWorkerProofs

Stutters == UNCHANGED <<remaining, Phase>>

(* An idle worker has an idle cycle.                                       *)
LEMMA InitImplements == Init => Cycle!Init
BY DEF Init, ChannelsInit, PollerInit, Cycle!Init, Phase

(* What the flag, the count and ArrivalsOpen say of the phase is all that  *)
(* a step of the cycle looks at.                                           *)
LEMMA PhaseStutters ==
  ASSUME UNCHANGED <<dropped, remaining, request_in_progress>>,
         ~dropped /\ request_in_progress => (ArrivalsOpen' <=> ArrivalsOpen)
  PROVE  Stutters
BY DEF Stutters, Phase

(* The poll interval starts a request: the cycle opens.                    *)
LEMMA FetchJobsOpens == ASSUME IndInv, FetchJobs PROVE Cycle!Open
<1>1. PICK t \in Task :
        task' = [task EXCEPT ![t] = At("calling", MaxJobsActive - remaining, 0, 0)]
  BY DEF FetchJobs, activate_jobs
<1>2. task'[t].pc = "calling"
  BY <1>1 DEF IndInv, TypeOK, PollerTypeOK, At
<1>3. ArrivalsOpen'
  BY <1>2 DEF ArrivalsOpen, Awaiting
<1>4. Phase = "idle" /\ Phase' = "open"
  BY <1>3 DEF FetchJobs, should_activate_jobs, Phase
<1>5. remaining <= Threshold /\ remaining' = remaining
  BY DEF FetchJobs, should_activate_jobs
<1>6. QED
  BY <1>4, <1>5 DEF Cycle!Open

(* JobsArrived is received: the cycle is settled, within the budget.       *)
LEMMA JobsArrivedSettles ==
  ASSUME IndInv, ReceiveJobsArrived
  PROVE  Cycle!Settle
<1> DEFINE n == Head(poll_queue).count
<1>1. /\ ~dropped /\ poll_queue # << >> /\ poll_queue' = Tail(poll_queue)
      /\ Head(poll_queue).kind = "JobsArrived"
      /\ UNCHANGED <<dropped, request_in_progress, task>>
      /\ remaining' = remaining + n
  BY DEF ReceiveJobsArrived, Receive
<1>2. poll_queue \in Seq(PollMessage) /\ remaining \in Nat
  BY DEF IndInv, TypeOK, ChannelsTypeOK, PollerTypeOK
<1>3. /\ 1 \in DOMAIN poll_queue /\ Head(poll_queue) = poll_queue[1]
      /\ poll_queue[1] \in PollMessage
      /\ \A i \in Queued("JobsArrived")' : i \in Nat /\ i + 1 \in Queued("JobsArrived")
  <2>1. /\ 1 \in DOMAIN poll_queue /\ Head(poll_queue) = poll_queue[1]
        /\ \A i \in Queued("JobsArrived")' : i + 1 \in Queued("JobsArrived")
        /\ \A i \in DOMAIN poll_queue' : i \in Nat
    BY <1>1, <1>2, TailQueued
  <2>2. \A i \in Queued("JobsArrived")' : i \in DOMAIN poll_queue'
    BY DEF Queued
  <2>3. poll_queue[1] \in PollMessage
    BY <1>2, <2>1
  <2>4. QED
    BY <2>1, <2>2, <2>3
<1>4. 1 \in Queued("JobsArrived")
  BY <1>1, <1>3 DEF Queued
<1>5. /\ Queued("JobsArrived") = {1}
      /\ \/ \E t \in Task : task[t].pc = "completing"
         \/ Queued("FetchJobsComplete") # {}
  BY <1>4 DEF IndInv, RequestInv, ArrivalPrecedesCompletion
<1>6. Queued("JobsArrived")' = {}
  <2>1. SUFFICES ASSUME NEW i \in Queued("JobsArrived")' PROVE FALSE
    OBVIOUS
  <2>2. i \in Nat /\ i + 1 = 1 /\ i \in DOMAIN poll_queue'
    BY <1>3, <1>5 DEF Queued
  <2>3. i \in 1..Len(poll_queue')
    BY <1>1, <1>2, <2>2, HeadTailProperties, LenProperties
  <2>4. QED
    BY <2>2, <2>3
<1>7. request_in_progress
  BY <1>1, <1>4 DEF IndInv, RequestInv, FlagTracksRequest
<1>8. \A t \in Task : task[t].pc \notin Awaiting
  <2>1. SUFFICES ASSUME NEW t \in Task, task[t].pc \in Awaiting PROVE FALSE
    OBVIOUS
  <2>2. t \in LiveTasks
    BY <2>1 DEF LiveTasks, Awaiting
  <2>3. LiveTasks = {t} /\ Queued("FetchJobsComplete") = {}
    BY <1>1, <2>2, LiveMeansInProgress
  <2>4. PICK u \in Task : task[u].pc = "completing"
    BY <1>5, <2>3
  <2>5. u \in LiveTasks
    BY <2>4 DEF LiveTasks
  <2>6. QED
    BY <2>1, <2>3, <2>4, <2>5 DEF Awaiting
<1>9. ArrivalsOpen /\ ~ArrivalsOpen'
  BY <1>1, <1>4, <1>6, <1>8 DEF ArrivalsOpen
<1>10. Phase = "open" /\ Phase' = "settled"
  BY <1>1, <1>7, <1>9 DEF Phase
<1>11. n \in 0..(MaxJobsActive - remaining)
  <2>1. n \in Nat
    BY <1>3 DEF PollMessage
  <2>2. remaining + n <= MaxJobsActive
    BY <1>1, <1>3, <1>4 DEF IndInv, RequestInv, BudgetRespected
  <2>3. QED
    BY <1>2, <2>1, <2>2, ChannelAssumption
<1>12. QED
  BY <1>1, <1>10, <1>11 DEF Cycle!Settle

(* JobFinished is received: it lowers the count, or is swallowed.          *)
LEMMA JobFinishedFinishes ==
  ASSUME IndInv, ReceiveJobFinished
  PROVE  Cycle!Finish \/ Stutters
<1>1. /\ ~dropped /\ poll_queue # << >> /\ poll_queue' = Tail(poll_queue)
      /\ Head(poll_queue).kind = "JobFinished"
      /\ UNCHANGED <<dropped, request_in_progress, task>>
  BY DEF ReceiveJobFinished, Receive
<1>2. poll_queue \in Seq(PollMessage) /\ remaining \in Nat
  BY DEF IndInv, TypeOK, ChannelsTypeOK, PollerTypeOK
<1>3. Queued("JobsArrived")' # {} <=> Queued("JobsArrived") # {}
  <2>1. /\ poll_queue[1].kind = "JobFinished"
        /\ \A i \in Queued("JobsArrived")' : i + 1 \in Queued("JobsArrived")
        /\ \A i \in Queued("JobsArrived") :
             i # 1 => i - 1 \in Queued("JobsArrived")'
    BY <1>1, <1>2, TailQueued
  <2>2. 1 \notin Queued("JobsArrived")
    BY <2>1 DEF Queued
  <2>3. QED
    BY <2>1, <2>2
<1>4. ArrivalsOpen' <=> ArrivalsOpen
  BY <1>1, <1>3 DEF ArrivalsOpen
<1>5. Phase' = Phase /\ Phase # "stopped"
  BY <1>1, <1>4 DEF Phase
<1>6. CASE remaining = 0
  BY <1>5, <1>6 DEF ReceiveJobFinished, Stutters
<1>7. CASE remaining # 0
  <2>1. remaining' = remaining - 1 /\ remaining > 0
    BY <1>2, <1>7 DEF ReceiveJobFinished
  <2>2. QED
    BY <1>5, <2>1 DEF Cycle!Finish
<1>8. QED
  BY <1>6, <1>7

(* FetchJobsComplete is received: the cycle, settled by then, is closed.   *)
LEMMA FetchJobsCompleteCloses ==
  ASSUME IndInv, ReceiveFetchJobsComplete
  PROVE  Cycle!Close
<1>1. /\ ~dropped /\ poll_queue # << >> /\ poll_queue' = Tail(poll_queue)
      /\ Head(poll_queue).kind = "FetchJobsComplete"
      /\ ~request_in_progress'
      /\ UNCHANGED <<dropped, remaining, task>>
  BY DEF ReceiveFetchJobsComplete, Receive
<1>2. 1 \in Queued("FetchJobsComplete")
  <2>1. 1 \in DOMAIN poll_queue /\ Head(poll_queue) = poll_queue[1]
    BY <1>1, TailQueued DEF IndInv, TypeOK, ChannelsTypeOK
  <2>2. QED
    BY <1>1, <2>1 DEF Queued
<1>3. /\ request_in_progress
      /\ LiveTasks = {}
      /\ Queued("FetchJobsComplete") = {1}
  BY <1>1, <1>2 DEF IndInv, RequestInv, FlagTracksRequest
<1>4. \A t \in Task : task[t].pc = "idle"
  BY <1>3 DEF LiveTasks
<1>5. Queued("JobsArrived") = {}
  <2>1. SUFFICES ASSUME NEW i \in Queued("JobsArrived") PROVE FALSE
    OBVIOUS
  <2>2. \E j \in Queued("FetchJobsComplete") : i < j
    BY <1>4 DEF IndInv, RequestInv, ArrivalPrecedesCompletion
  <2>3. i < 1 /\ i \in 1..Len(poll_queue)
    BY <1>3, <2>2, LenProperties DEF Queued, IndInv, TypeOK, ChannelsTypeOK
  <2>4. QED
    BY <2>3
<1>6. ~ArrivalsOpen
  BY <1>4, <1>5 DEF ArrivalsOpen, Awaiting
<1>7. Phase = "settled" /\ Phase' = "idle"
  BY <1>1, <1>3, <1>6 DEF Phase
<1>8. QED
  BY <1>1, <1>7 DEF Cycle!Close

(* A message that is no JobsArrived does not reopen a cycle.               *)
LEMMA SendStutters ==
  ASSUME IndInv, NEW m \in PollMessage, m.kind # "JobsArrived", SendMessage(m)
  PROVE  Queued("JobsArrived")' = Queued("JobsArrived")
<1>1. CASE poll_queue' = poll_queue
  BY <1>1 DEF Queued
<1>2. CASE poll_queue' = Append(poll_queue, m)
  BY <1>2, AppendQueued DEF IndInv, TypeOK, ChannelsTypeOK
<1>3. QED
  BY <1>1, <1>2 DEF SendMessage

(* A step of an activation task: the cycle stays open while the task may   *)
(* bring jobs or has announced them, and is settled when it gives up.      *)
LEMMA TaskImplements ==
  ASSUME IndInv, TypeOK', NEW t \in Task, TaskStep(t)
  PROVE  Cycle!Settle \/ Stutters
<1>1. UNCHANGED <<dropped, remaining, request_in_progress>>
  BY DEF TaskStep, CallSucceeds, CallFails, BatchArrives, SendJob, StreamEnds,
         Announce, TimeOut, Complete, taskUnchanged
<1>2. task \in [Task -> TaskState] /\ task' \in [Task -> TaskState]
  BY DEF IndInv, TypeOK, PollerTypeOK
<1>3. CASE CallSucceeds(t) \/ BatchArrives(t) \/ SendJob(t) \/ StreamEnds(t)
  <2>1. task[t].pc \in Awaiting
    BY <1>3 DEF CallSucceeds, BatchArrives, SendJob, StreamEnds, Awaiting
  <2>2. task'[t].pc \in Awaiting
    <3>1. CASE BatchArrives(t)
      <4>1. PICK n : task' = [task EXCEPT ![t] =
                        At("sending", task[t].requested, task[t].total + n, n)]
        BY <1>2, <3>1 DEF BatchArrives
      <4>2. QED
        BY <1>2, <4>1 DEF At, Awaiting
    <3>2. QED
      BY <1>2, <1>3, <3>1 DEF CallSucceeds, SendJob, StreamEnds, At, Awaiting
  <2>3. ArrivalsOpen /\ ArrivalsOpen'
    BY <2>1, <2>2 DEF ArrivalsOpen
  <2>4. QED
    BY <1>1, <2>3, PhaseStutters
<1>4. CASE CallFails(t) \/ TimeOut(t)
  <2>1. task[t].pc \in Awaiting
    BY <1>4 DEF CallFails, TimeOut, Awaiting
  <2>2. ArrivalsOpen
    BY <2>1 DEF ArrivalsOpen
  <2>3. CASE ArrivalsOpen' \/ dropped \/ ~request_in_progress
    BY <1>1, <2>2, <2>3, PhaseStutters
  <2>4. CASE ~ArrivalsOpen' /\ ~dropped /\ request_in_progress
    <3>1. Phase = "open" /\ Phase' = "settled"
      BY <1>1, <2>2, <2>4 DEF Phase
    <3>2. remaining \in Nat /\ remaining <= MaxJobsActive
      BY <2>4 DEF IndInv, TypeOK, PollerTypeOK, RequestInv, BudgetRespected
    <3>3. 0 \in 0..(MaxJobsActive - remaining) /\ remaining' = remaining + 0
      BY <1>1, <3>2, ChannelAssumption
    <3>4. QED
      BY <3>1, <3>3 DEF Cycle!Settle
  <2>5. QED
    BY <2>3, <2>4
<1>5. CASE Announce(t)
  <2>1. CASE dropped
    BY <1>1, <2>1, PhaseStutters
  <2>2. CASE ~dropped
    <3> DEFINE m == JobsArrived(task[t].total)
               n == Len(poll_queue) + 1
    <3>1. task[t].pc = "announcing" /\ poll_queue' = Append(poll_queue, m)
      BY <1>5, <2>2 DEF Announce, SendMessage
    <3>2. task[t].total \in Nat
      BY <1>2, ChannelAssumption DEF TaskState
    <3>3. m \in PollMessage /\ m.kind = "JobsArrived"
      BY <3>2 DEF JobsArrived, PollMessage
    <3>4. Queued("JobsArrived")' = Queued("JobsArrived") \cup {n}
      BY <3>1, <3>3, AppendQueued DEF IndInv, TypeOK, ChannelsTypeOK
    <3>5. ArrivalsOpen /\ ArrivalsOpen'
      BY <3>1, <3>4 DEF ArrivalsOpen, Awaiting
    <3>6. QED
      BY <1>1, <3>5, PhaseStutters
  <2>3. QED
    BY <2>1, <2>2
<1>6. CASE Complete(t)
  <2>1. FetchJobsComplete \in PollMessage /\ FetchJobsComplete.kind # "JobsArrived"
    BY DEF FetchJobsComplete, PollMessage
  <2>2. Queued("JobsArrived")' = Queued("JobsArrived")
    BY <1>6, <2>1, SendStutters DEF Complete
  <2>3. \A u \in Task : task'[u].pc \in Awaiting <=> task[u].pc \in Awaiting
    BY <1>2, <1>6 DEF Complete, Idle, At, Awaiting
  <2>4. QED
    BY <1>1, <2>2, <2>3, PhaseStutters DEF ArrivalsOpen
<1>7. QED
  BY <1>3, <1>4, <1>5, <1>6 DEF TaskStep

(* The dispatcher only ever tells of finished jobs.                        *)
LEMMA DispatcherImplements ==
  ASSUME IndInv, DispatcherStep, UNCHANGED pollerVars
  PROVE  Stutters
<1>1. UNCHANGED <<dropped, remaining, request_in_progress, task>>
  BY DEF DispatcherStep, Dispatch, HandlerReturns, ReportJobFinished, pollerVars
<1>2. Queued("JobsArrived")' = Queued("JobsArrived")
  <2>1. CASE poll_queue' = poll_queue
    BY <2>1 DEF Queued
  <2>2. CASE ReportJobFinished
    <3>1. JobFinished \in PollMessage /\ JobFinished.kind # "JobsArrived"
      BY DEF JobFinished, PollMessage
    <3>2. QED
      BY <2>2, <3>1, SendStutters DEF ReportJobFinished
  <2>3. QED
    BY <2>1, <2>2 DEF DispatcherStep, Dispatch, HandlerReturns
<1>3. QED
  BY <1>1, <1>2, PhaseStutters DEF ArrivalsOpen

(* Every step of the worker is a step of the cycle or a stutter.           *)
LEMMA StepImplements ==
  IndInv /\ IndInv' /\ [Next]_vars => [Cycle!Next]_(Cycle!cycleVars)
<1> SUFFICES ASSUME IndInv, IndInv', [Next]_vars
             PROVE  Cycle!Next \/ Stutters
  BY DEF Stutters, Cycle!cycleVars
<1>1. CASE Poll /\ UNCHANGED dispatcherVars
  <2>1. CASE IgnoreFetchJobs
    BY <2>1, PhaseStutters DEF IgnoreFetchJobs, pollerVars, ArrivalsOpen, Queued
  <2>2. QED
    BY <1>1, <2>1, FetchJobsOpens, JobsArrivedSettles, JobFinishedFinishes,
       FetchJobsCompleteCloses DEF Poll, ReceiveMessage, Cycle!Next
<1>2. CASE \E t \in Task : TaskStep(t) /\ UNCHANGED dispatcherVars
  BY <1>2, TaskImplements DEF Cycle!Next, IndInv
<1>3. CASE DispatcherStep /\ UNCHANGED pollerVars
  BY <1>3, DispatcherImplements
<1>4. CASE Drop
  <2>1. Phase # "stopped" /\ Phase' = "stopped" /\ remaining' = remaining
    BY <1>4 DEF Drop, Phase, pollerVars
  <2>2. QED
    BY <2>1 DEF Cycle!Stop, Cycle!Next
<1>5. CASE UNCHANGED vars
  BY <1>5, PhaseStutters DEF vars, ArrivalsOpen, Queued
<1>6. QED
  BY <1>1, <1>2, <1>3, <1>4, <1>5 DEF Next

(* A job worker fetches in cycles: it is an implementation of FetchCycle.  *)
THEOREM Refinement == Spec => ImplementsFetchCycle
<1>1. QED
  BY InitImplements, InvariantHolds, StepImplements, PTL
  DEF Spec, ImplementsFetchCycle, Cycle!Spec
=============================================================================
